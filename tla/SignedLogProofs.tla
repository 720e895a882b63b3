--------------------------- MODULE SignedLogProofs ---------------------------
(***************************************************************************)
(* Theorems about the signed log, for every value of the constants: its    *)
(* writer (SignedWriter) under every set of faults, then its verifier      *)
(* (SignedVerify) beside the writer and after changes from outside.        *)
(***************************************************************************)
EXTENDS SignedVerify, NatLemmas, SequenceTheorems, TLAPS

USE SignedWriterAssumption

-----------------------------------------------------------------------------
(* Types of the pieces. *)

LEMMA HeaderDatumType ==
  ASSUME NEW i \in Idx, NEW l \in LogIds, NEW k \in Keys
  PROVE  HeaderDatum(i, l, k) \in Datum
BY DEF HeaderDatum, Datum

LEMMA HeaderType ==
  ASSUME NEW i \in Idx, NEW l \in LogIds, NEW k \in Keys, NEW h \in Hash
  PROVE  SignedHeader(i, l, k, h) \in Chunk
BY HeaderDatumType DEF SignedHeader, Chunk

LEMMA FrameType ==
  ASSUME NEW d \in Datum, NEW h \in Hash, NEW k \in Keys, NEW e \in Nat
  PROVE  Frame(d, h, k, e) \in Chunk
BY DEF Frame, Chunk, BodyStates

LEMMA TornType == Torn \in Chunk
BY DEF Chunk

LEMMA ChunkFields ==
  ASSUME NEW c \in Chunk, c.kind \in {"header", "record"}
  PROVE  /\ c.datum \in Datum /\ c.prev_hash \in Hash /\ c.end \in Nat
         /\ c.kind = "record" => c.sig \in Keys
BY DEF Chunk, Torn

LEMMA HashOfType ==
  ASSUME NEW c \in Chunk, c.kind \in {"header", "record"}
  PROVE  HashOf(c) \in Hash
BY ChunkFields DEF HashOf, Hash

LEMMA NoWriterType == NoWriter \in WriterType
<1>1. (CHOOSE l \in LogIds : TRUE) \in LogIds /\ (CHOOSE k \in Keys : TRUE) \in Keys
  OBVIOUS
<1> QED BY <1>1 DEF NoWriter, WriterType, ZeroHash, Hash, Idx

-----------------------------------------------------------------------------
(* scan_segment. *)

\* The walk always has a place to stop, and everything up to it is linked.
LEMMA ScanStops ==
  ASSUME NEW s \in Seq(Chunk), Len(s) >= 1, NEW i
  PROVE  /\ ScanStop(s, i) \in 1..Len(s)
         /\ \A j \in 2..ScanStop(s, i) : Linked(s, j, i)
         /\ ScanStop(s, i) < Len(s) => ~Linked(s, ScanStop(s, i) + 1, i)
<1> DEFINE Stops(n) == /\ \A j \in 2..n : Linked(s, j, i)
                       /\ n < Len(s) => ~Linked(s, n + 1, i)
           T == {n \in 2..Len(s) : ~Linked(s, n, i)}
<1>0. Len(s) \in Nat
  OBVIOUS
<1>1. \E n \in 1..Len(s) : Stops(n)
  <2>1. PICK n \in 1..Len(s) : (\A j \in 2..n : j \notin T) /\ (n < Len(s) => n + 1 \in T)
    <3>1. T \in SUBSET (2..Len(s))
      OBVIOUS
    <3> HIDE DEF T
    <3> QED BY <1>0, <3>1, FirstBreak
  <2>2. Stops(n)
    BY <1>0, <2>1
  <2> QED BY <2>2
<1>2. ScanStop(s, i) = CHOOSE n \in 1..Len(s) : Stops(n)
  BY DEF ScanStop
<1> HIDE DEF Stops
<1>3. ScanStop(s, i) \in 1..Len(s) /\ Stops(ScanStop(s, i))
  BY <1>1, <1>2
<1> USE DEF Stops
<1> QED BY <1>3

\* What a scan keeps is a prefix of the file, and a non-empty one with nothing
\* but records behind its header when there is a header.
LEMMA IntactPrefix ==
  ASSUME NEW s \in Seq(Chunk), NEW i
  PROVE  /\ Intact(s, i) \in Seq(Chunk)
         /\ IsPrefixOf(Intact(s, i), s)
         /\ HasHeader(s) => /\ Len(Intact(s, i)) >= 1
                            /\ Len(Intact(s, i)) = ScanStop(s, i)
                            /\ Intact(s, i)[1].kind = "header"
                            /\ \A j \in 2..Len(Intact(s, i)) : Intact(s, i)[j].kind = "record"
<1>1. CASE ~HasHeader(s)
  BY <1>1 DEF Intact, IsPrefixOf
<1>2. CASE HasHeader(s)
  <2> DEFINE n == ScanStop(s, i)
  <2>1. Len(s) \in Nat /\ Len(s) >= 1 /\ s[1].kind = "header"
    BY <1>2 DEF HasHeader
  <2>2. n \in 1..Len(s) /\ \A j \in 2..n : s[j].kind = "record"
    BY <2>1, ScanStops DEF Linked
  <2> HIDE DEF n
  <2>3. /\ SubSeq(s, 1, n) \in Seq(Chunk)
        /\ Len(SubSeq(s, 1, n)) = n
        /\ \A j \in 1..n : SubSeq(s, 1, n)[j] = s[j]
    BY <2>1, <2>2
  <2>4. PICK t : t = SubSeq(s, 1, n)
    OBVIOUS
  <2>5. Intact(s, i) = t /\ Len(t) = n /\ t \in Seq(Chunk) /\ \A j \in 1..n : t[j] = s[j]
    BY <1>2, <2>3, <2>4 DEF Intact, n
  <2>6. t[1].kind = "header" /\ \A j \in 2..n : t[j].kind = "record"
    <3>1. 1 \in 1..n /\ \A j \in 2..n : j \in 1..n
      BY <2>2
    <3> QED BY <2>1, <2>2, <2>5, <3>1
  <2> QED BY <2>1, <2>2, <2>5, <2>6 DEF IsPrefixOf, n
<1> QED BY <1>1, <1>2

-----------------------------------------------------------------------------
(* The inductive invariant. *)

\* A segment file: the header is one the writer made for this segment, the
\* records behind it are linked as far as they frame, and no second header.
FileOK(s, i) ==
  /\ HasHeader(s) => s[1].datum = HeaderDatum(i, s[1].datum.log_id, s[1].datum.key_id)
  /\ \A n \in 2..Len(s) : s[n].kind # "header"
  /\ \A n \in 2..Len(s) :
       (\A m \in 2..n : s[m].kind = "record") =>
         /\ s[1].kind = "header"
         /\ Linked(s, n, i)
         /\ s[n].sig = s[1].datum.key_id

FilesOK == \A i \in Idx : FileOK(file[i], i)

Writing == {"fin_write", "rec_write", "seal_write"}
Appending == {"fin", "rec", "fin_write", "rec_write", "fin_sync"}

\* What holds between two system calls of an operation.
SignedStepInv ==
  /\ pc \in Appending => arg \in Inputs
  /\ pc \notin Appending \cup {"create", "header"} => arg = NoInput
  /\ pc = "header" => cur.index < MaxIndex
  /\ cur.next_record_id > 0 => cur.last_ts # NoTs
  /\ pc \in {"fin", "fin_write", "seal", "seal_write"} => cur.last_ts # NoTs
  /\ pc \in Writing => LastChunk(file[cur.index]).kind = "torn"

SignedInv == SignedTypeOK /\ SignedStepInv /\ FilesOK /\ SignedWriterAgrees

LEMMA WriteSteps ==
  /\ DOMAIN AfterWrite = Writing /\ DOMAIN WriteOf = {"fin", "rec", "seal"}
  /\ \A x \in {"fin", "rec", "seal"} : WriteOf[x] \in Writing
  /\ \A x \in Writing : AfterWrite[x] \in {"fin_sync", "ready", "seal_sync"}
  /\ WriteOf["fin"] = "fin_write" /\ WriteOf["rec"] = "rec_write" /\ WriteOf["seal"] = "seal_write"
  /\ AfterWrite["fin_write"] = "fin_sync" /\ AfterWrite["rec_write"] = "ready"
  /\ AfterWrite["seal_write"] = "seal_sync"
BY DEF AfterWrite, WriteOf, Writing

-----------------------------------------------------------------------------
(* Files. *)

LEMMA FileOKPrefix ==
  ASSUME NEW i, NEW s \in Seq(Chunk), NEW t \in Seq(Chunk), FileOK(s, i), IsPrefixOf(t, s)
  PROVE  FileOK(t, i)
<1>1. Len(t) <= Len(s) /\ \A j \in 1..Len(t) : t[j] = s[j]
  BY DEF IsPrefixOf
<1>2. HasHeader(t) => t[1].datum = HeaderDatum(i, t[1].datum.log_id, t[1].datum.key_id)
  BY <1>1 DEF FileOK, HasHeader
<1>3. \A n \in 2..Len(t) : t[n].kind # "header"
  BY <1>1 DEF FileOK
<1>4. ASSUME NEW n \in 2..Len(t), \A m \in 2..n : t[m].kind = "record"
      PROVE  t[1].kind = "header" /\ Linked(t, n, i) /\ t[n].sig = t[1].datum.key_id
  <2>0. 1 \in 1..Len(t) /\ n \in 1..Len(t) /\ n - 1 \in 1..Len(t)
    OBVIOUS
  <2>1. t[1] = s[1] /\ t[n] = s[n] /\ t[n-1] = s[n-1] /\ n \in 2..Len(s)
    BY <1>1, <2>0
  <2>2. \A m \in 2..n : s[m].kind = "record"
    <3>1. Len(t) \in Nat
      OBVIOUS
    <3>2. \A m \in 2..n : m \in 1..Len(t)
      BY <3>1
    <3>3. \A m \in 2..n : t[m] = s[m]
      BY <1>1, <3>2
    <3> QED BY <1>4, <3>3
  <2>3. s[1].kind = "header" /\ Linked(s, n, i) /\ s[n].sig = s[1].datum.key_id
    BY <2>1, <2>2 DEF FileOK
  <2> QED BY <2>1, <2>3 DEF Linked
<1> QED BY <1>2, <1>3, <1>4 DEF FileOK

LEMMA FileOKEmpty ==
  ASSUME NEW i
  PROVE  << >> \in Seq(Chunk) /\ FileOK(<< >>, i)
BY DEF FileOK, HasHeader

\* Unusable bytes at the end do not disturb what is before them.
LEMMA FileOKTorn ==
  ASSUME NEW i, NEW s \in Seq(Chunk), FileOK(s, i)
  PROVE  Append(s, Torn) \in Seq(Chunk) /\ FileOK(Append(s, Torn), i)
<1> DEFINE t == Append(s, Torn)
<1>1. /\ t \in Seq(Chunk) /\ Len(t) = Len(s) + 1 /\ Len(s) \in Nat
      /\ t[Len(s) + 1] = Torn /\ \A m \in 1..Len(s) : t[m] = s[m]
  BY TornType
<1> HIDE DEF t
<1>2. Torn.kind = "torn"
  BY DEF Torn
<1>3. HasHeader(t) => t[1].datum = HeaderDatum(i, t[1].datum.log_id, t[1].datum.key_id)
  <2>1. CASE Len(s) = 0
    BY <1>1, <1>2, <2>1 DEF HasHeader
  <2>2. CASE Len(s) # 0
    <3>1. t[1] = s[1] /\ s # << >>
      BY <1>1, <2>2
    <3> QED BY <3>1 DEF FileOK, HasHeader
  <2> QED BY <2>1, <2>2
<1>4. ASSUME NEW n \in 2..Len(t) PROVE t[n].kind # "header"
  <2>1. CASE n = Len(s) + 1
    BY <1>1, <1>2, <2>1
  <2>2. CASE n # Len(s) + 1
    <3>1. n \in 2..Len(s) /\ n \in 1..Len(s)
      BY <1>1, <2>2
    <3> QED BY <1>1, <3>1 DEF FileOK
  <2> QED BY <2>1, <2>2
<1>5. ASSUME NEW n \in 2..Len(t), \A m \in 2..n : t[m].kind = "record"
      PROVE  t[1].kind = "header" /\ Linked(t, n, i) /\ t[n].sig = t[1].datum.key_id
  <2>1. n # Len(s) + 1
    BY <1>1, <1>2, <1>5
  <2>2. t[1] = s[1] /\ t[n] = s[n] /\ t[n-1] = s[n-1] /\ n \in 2..Len(s)
    BY <1>1, <2>1
  <2>3. \A m \in 2..n : s[m].kind = "record"
    BY <1>1, <1>5, <2>2
  <2>4. s[1].kind = "header" /\ Linked(s, n, i) /\ s[n].sig = s[1].datum.key_id
    BY <2>2, <2>3 DEF FileOK
  <2> QED BY <2>2, <2>4 DEF Linked
<1>6. FileOK(t, i)
  BY <1>3, <1>4, <1>5 DEF FileOK
<1> QED BY <1>1, <1>6 DEF t

\* The frame at the end of the file becomes a record that follows the chain.
LEMMA FileOKRecord ==
  ASSUME NEW i, NEW s \in Seq(Chunk), NEW t \in Seq(Chunk), NEW n \in Nat, n >= 2,
         Len(s) = n, Len(t) = n, \A m \in 1..(n-1) : t[m] = s[m], FileOK(s, i),
         s[1].kind = "header", t[n].kind = "record",
         t[n].datum.segment_index = i, t[n].sig = s[1].datum.key_id,
         (\A m \in 2..(n-1) : s[m].kind = "record") =>
            t[n].prev_hash = HashOf(s[n-1]) /\ t[n].datum.record_id = n - 2
  PROVE  FileOK(t, i)
<1>1. 1 \in 1..(n-1)
  OBVIOUS
<1>2. t[1] = s[1] /\ s # << >>
  BY <1>1
<1>3. HasHeader(t) => t[1].datum = HeaderDatum(i, t[1].datum.log_id, t[1].datum.key_id)
  BY <1>2 DEF FileOK, HasHeader
<1>4. ASSUME NEW m \in 2..n PROVE t[m].kind # "header"
  <2>1. CASE m = n
    BY <2>1
  <2>2. CASE m # n
    <3>1. m \in 1..(n-1) /\ m \in 2..Len(s)
      BY <2>2
    <3> QED BY <3>1 DEF FileOK
  <2> QED BY <2>1, <2>2
<1>5. ASSUME NEW m \in 2..n, \A q \in 2..m : t[q].kind = "record"
      PROVE  t[1].kind = "header" /\ Linked(t, m, i) /\ t[m].sig = t[1].datum.key_id
  <2>1. m - 1 \in 1..(n-1)
    OBVIOUS
  <2>2. t[m-1] = s[m-1]
    BY <2>1
  <2>3. ASSUME NEW q \in 2..m, q < n PROVE s[q].kind = "record"
    <3>1. q \in 1..(n-1)
      BY <2>3
    <3> QED BY <1>5, <3>1
  <2>4. CASE m = n
    <3>1. \A q \in 2..(n-1) : s[q].kind = "record"
      BY <2>3, <2>4
    <3> QED BY <1>2, <2>2, <2>4, <3>1 DEF Linked
  <2>5. CASE m # n
    <3>1. m \in 1..(n-1) /\ m \in 2..Len(s)
      BY <2>5
    <3>2. t[m] = s[m] /\ \A q \in 2..m : s[q].kind = "record"
      <4>1. t[m] = s[m]
        BY <3>1
      <4>2. \A q \in 2..m : q < n
        BY <3>1
      <4> QED BY <2>3, <4>1, <4>2
    <3>3. s[1].kind = "header" /\ Linked(s, m, i) /\ s[m].sig = s[1].datum.key_id
      BY <3>1, <3>2 DEF FileOK
    <3> QED BY <1>2, <2>2, <3>2, <3>3 DEF Linked
  <2> QED BY <2>4, <2>5
<1> QED BY <1>3, <1>4, <1>5 DEF FileOK

-----------------------------------------------------------------------------
(* Writers. *)

\* c is the state of a writer on segment i whose whole file is s.
WriterOf(c, i, s) ==
  /\ Len(s) >= 1 /\ s[1].kind = "header"
  /\ s[1].datum = HeaderDatum(i, c.log_id, c.key_id)
  /\ c \in WriterType /\ c.index = i
  /\ c.last_hash = HashOf(LastChunk(s))
  /\ c.next_record_id = Len(s) - 1
  /\ c.bytes_written = LastChunk(s).end
  /\ Len(s) > 1 => c.last_ts = LastChunk(s).datum.ts_wall

LEMMA WriterOnFile ==
  ASSUME NEW i \in Idx, NEW s \in Seq(Chunk), NEW ts \in Nat \cup {NoTs},
         Len(s) >= 1, s[1].kind = "header", FileOK(s, i),
         LastChunk(s).kind \in {"header", "record"},
         Len(s) > 1 => ts = LastChunk(s).datum.ts_wall
  PROVE  WriterOf(WriterOn(i, s, ts), i, s)
<1>1. PICK c, h, n : c = LastChunk(s) /\ h = s[1] /\ n = Len(s)
  OBVIOUS
<1>2. c \in Chunk /\ h \in Chunk /\ n \in Nat /\ n >= 1 /\ s # << >>
  BY <1>1 DEF LastChunk
<1>3. c.end \in Nat /\ HashOf(c) \in Hash /\ h.datum \in Datum
  BY <1>1, <1>2, ChunkFields, HashOfType
<1>4. h.datum.log_id \in LogIds /\ h.datum.key_id \in Keys
  BY <1>3 DEF Datum
<1>5. h.datum = HeaderDatum(i, h.datum.log_id, h.datum.key_id)
  BY <1>1, <1>2 DEF FileOK, HasHeader
<1>6. PICK w : w = [index |-> i, log_id |-> h.datum.log_id, key_id |-> h.datum.key_id,
                    last_hash |-> HashOf(c), next_record_id |-> n - 1,
                    bytes_written |-> c.end, last_ts |-> ts, sealed |-> FALSE]
  OBVIOUS
<1>7. w \in WriterType /\ w = WriterOn(i, s, ts)
  BY <1>1, <1>2, <1>3, <1>4, <1>6 DEF WriterType, WriterOn
<1>8. /\ w.index = i /\ w.log_id = h.datum.log_id /\ w.key_id = h.datum.key_id
      /\ w.last_hash = HashOf(c) /\ w.next_record_id = n - 1
      /\ w.bytes_written = c.end /\ w.last_ts = ts
  BY <1>6
<1>9. WriterOf(w, i, s)
  BY <1>1, <1>2, <1>5, <1>7, <1>8 DEF WriterOf
<1> QED BY <1>7, <1>9

LEMMA LastTsType ==
  ASSUME NEW s \in Seq(Chunk), Len(s) >= 1, LastChunk(s).kind \in {"header", "record"}
  PROVE  LastTs(s) \in Nat \cup {NoTs}
<1>1. LastChunk(s) \in Chunk
  BY DEF LastChunk
<1>2. LastChunk(s).datum \in Datum
  BY <1>1, ChunkFields
<1> QED BY <1>2 DEF LastTs, Datum

\* The end of what a scan keeps is the header or a record.
LEMMA IntactLast ==
  ASSUME NEW s \in Seq(Chunk), NEW i, HasHeader(s)
  PROVE  /\ LastChunk(Intact(s, i)).kind \in {"header", "record"}
         /\ Len(Intact(s, i)) > 1 => LastChunk(Intact(s, i)).kind = "record"
<1>1. PICK t, n : t = Intact(s, i) /\ n = Len(t)
  OBVIOUS
<1>2. /\ t \in Seq(Chunk) /\ n >= 1 /\ t[1].kind = "header"
      /\ \A j \in 2..n : t[j].kind = "record"
  BY <1>1, IntactPrefix
<1>3. n \in Nat
  BY <1>1, <1>2
<1>4. CASE n = 1
  BY <1>1, <1>2, <1>4 DEF LastChunk
<1>5. CASE n # 1
  <2>1. n \in 2..n
    BY <1>2, <1>3, <1>5
  <2> QED BY <1>1, <1>2, <2>1 DEF LastChunk
<1> QED BY <1>4, <1>5

\* open_inner yields a writer only on a segment with a header; it takes the time
\* from the segment before only when that has one too.
LEMMA OpenChecks ==
  ASSUME NEW i, NEW k, OpenRefusal(i, k) = "none"
  PROVE  /\ HasHeader(file[i])
         /\ Len(Intact(file[i], i)) = 1 /\ i > 0 => HasHeader(file[i-1])
         /\ Repaired(i, k) = Intact(file[i], i)
<1>1. PICK l : l = file[0][1].datum.log_id
  OBVIOUS
<1>2. ScanRefusal(file[i], i, l, k) = "none"
  BY <1>1 DEF OpenRefusal
<1>3. Len(Intact(file[i], i)) = 1 /\ i > 0 => ScanRefusal(file[i-1], i - 1, l, k) = "none"
  BY <1>1, <1>2 DEF OpenRefusal
<1>4. 0 \in Listed /\ HasHeader(file[0]) /\ file[0][1].datum.key_id = k
  BY DEF OpenRefusal
<1>5. ScanComplete(i, k)
  BY <1>1, <1>2, <1>4 DEF ScanComplete
<1> QED BY <1>2, <1>3, <1>5 DEF ScanRefusal, Repaired

LEMMA RefusalType ==
  ASSUME NEW i, NEW k, OpenRefusal(i, k) # "none"
  PROVE  OpenRefusals(i, k) \subseteq Reports
<1>1. \A s, j, l : ScanRefusal(s, j, l, k) \in {"HeaderCorrupt", "ChainBreak", "KeyIdMismatch",
                                                "LogIdMismatch", "SignatureInvalid", "none"}
  BY DEF ScanRefusal
<1>2. OpenRefusal(i, k) \in Reports
  BY <1>1 DEF OpenRefusal, Reports
<1>3. "HeaderCorrupt" \in Reports
  BY DEF Reports
<1> QED BY <1>2, <1>3 DEF OpenRefusals

\* What the scan of an open leaves in the file.
LEMMA RepairedFile ==
  ASSUME SignedInv, NEW i \in Idx, NEW k
  PROVE  /\ Repaired(i, k) \in Seq(Chunk)
         /\ FileOK(Repaired(i, k), i)
         /\ IsPrefixOf(Repaired(i, k), file[i])
<1>1. file[i] \in Seq(Chunk) /\ FileOK(file[i], i)
  BY DEF SignedInv, SignedTypeOK, FilesOK
<1>2. /\ Intact(file[i], i) \in Seq(Chunk) /\ IsPrefixOf(Intact(file[i], i), file[i])
      /\ FileOK(Intact(file[i], i), i)
  BY <1>1, IntactPrefix, FileOKPrefix
<1>3. IsPrefixOf(file[i], file[i])
  BY <1>1 DEF IsPrefixOf
<1> QED BY <1>1, <1>2, <1>3 DEF Repaired

-----------------------------------------------------------------------------
(* Every step keeps the invariant. *)

\* The file of segment i becomes s.
LEMMA FileSet ==
  ASSUME SignedInv, NEW i \in Idx, NEW s \in Seq(Chunk), FileOK(s, i),
         file' = [file EXCEPT ![i] = s]
  PROVE  /\ file' \in [Idx -> Seq(Chunk)] /\ FilesOK'
         /\ file'[i] = s /\ \A j \in Idx : j # i => file'[j] = file[j]
<1>1. /\ file' \in [Idx -> Seq(Chunk)]
      /\ file'[i] = s /\ \A j \in Idx : j # i => file'[j] = file[j]
  BY DEF SignedInv, SignedTypeOK
<1>2. ASSUME NEW j \in Idx PROVE FileOK(file'[j], j)
  BY <1>1 DEF SignedInv, FilesOK
<1>3. FilesOK'
  BY <1>2 DEF FilesOK
<1> QED BY <1>1, <1>3

LEMMA OpenAcceptedKeeps ==
  ASSUME SignedInv, NEW k \in Keys, OpenAccepted(k)
  PROVE  SignedInv'
<1>1. PICK i \in Listed :
        LET s == Repaired(i, k) IN
        /\ OpenRefusal(i, k) = "none"
        /\ Scan(i, k)
        /\ cur' = WriterOn(i, s, TimeAnchor(i))
        /\ acked' = [j \in Idx |-> Relied(j)]
        /\ IF LastEvent(s) = Finalized
           THEN pc' = "create" /\ UNCHANGED report
           ELSE pc' = "ready" /\ report' = IF s = file[i] THEN "Resumed" ELSE "Repaired"
  BY DEF OpenAccepted
<1>2. PICK s, ts : s = Intact(file[i], i) /\ ts = TimeAnchor(i)
  OBVIOUS
<1>3. i \in Idx /\ file[i] \in Seq(Chunk)
  BY DEF Listed, SignedInv, SignedTypeOK
<1>4. Repaired(i, k) = s /\ HasHeader(file[i]) /\ (Len(s) = 1 /\ i > 0 => HasHeader(file[i-1]))
  BY <1>1, <1>2, OpenChecks
<1>5. /\ s \in Seq(Chunk) /\ FileOK(s, i) /\ Len(s) >= 1 /\ s[1].kind = "header"
      /\ LastChunk(s).kind \in {"header", "record"}
      /\ Len(s) > 1 => LastChunk(s).kind = "record"
  BY <1>2, <1>3, <1>4, RepairedFile, IntactPrefix, IntactLast
<1>6. /\ ts \in Nat \cup {NoTs}
      /\ Len(s) > 1 => ts = LastChunk(s).datum.ts_wall /\ ts # NoTs
  <2>1. CASE Len(s) = 1 /\ i > 0
    <3>1. i - 1 \in Idx
      BY <1>3, <2>1 DEF Idx
    <3>2. PICK t : t = Intact(file[i-1], i - 1)
      OBVIOUS
    <3>3. t \in Seq(Chunk) /\ Len(t) >= 1 /\ LastChunk(t).kind \in {"header", "record"}
      <4>1. file[i-1] \in Seq(Chunk)
        BY <3>1 DEF SignedInv, SignedTypeOK
      <4> QED BY <1>4, <2>1, <3>2, <4>1, IntactPrefix, IntactLast
    <3>4. LastTs(t) \in Nat \cup {NoTs}
      BY <3>3, LastTsType
    <3> QED BY <1>2, <2>1, <3>2, <3>4 DEF TimeAnchor
  <2>2. CASE ~(Len(s) = 1 /\ i > 0)
    <3>1. ts = LastTs(s)
      BY <1>2, <2>2 DEF TimeAnchor
    <3>2. LastTs(s) \in Nat \cup {NoTs}
      BY <1>5, LastTsType
    <3>3. LastChunk(s).datum.ts_wall \in Nat
      <4>1. LastChunk(s) \in Chunk
        BY <1>5 DEF LastChunk
      <4> QED BY <1>5, <4>1, ChunkFields DEF Datum
    <3>4. Len(s) > 1 => LastTs(s) = LastChunk(s).datum.ts_wall
      BY <1>5 DEF LastTs
    <3> QED BY <3>1, <3>2, <3>3, <3>4 DEF NoTs
  <2> QED BY <2>1, <2>2
<1>7. PICK w : w = WriterOn(i, s, ts)
  OBVIOUS
<1>8. WriterOf(w, i, s)
  BY <1>3, <1>5, <1>6, <1>7, WriterOnFile
<1>9. /\ cur' = w /\ file' = [file EXCEPT ![i] = s]
      /\ pc = "closed" /\ pc' \in {"ready", "create"}
      /\ synced' \in {synced, [synced EXCEPT ![i] = Len(s)]}
      /\ acked' = [j \in Idx |-> Relied(j)]
      /\ report' \in {report, "Resumed", "Repaired"}
      /\ UNCHANGED <<entries, dirSynced, arg, flushed, sealAcked>>
  BY <1>1, <1>2, <1>4, <1>7 DEF Scan
<1>10. /\ file' \in [Idx -> Seq(Chunk)] /\ FilesOK' /\ file'[i] = s
  BY <1>3, <1>5, <1>9, FileSet
<1>11. acked' \in [Idx -> Seq(Chunk)]
  <2>1. \A j \in Idx : Intact(file[j], j) \in Seq(Chunk) /\ acked[j] \in Seq(Chunk)
    BY IntactPrefix DEF SignedInv, SignedTypeOK
  <2>2. \A j \in Idx : Relied(j) \in Seq(Chunk)
    BY <2>1 DEF Relied
  <2> QED BY <1>9, <2>2
<1>12. synced' \in [Idx -> Nat]
  <2>1. Len(s) \in Nat /\ synced \in [Idx -> Nat]
    BY <1>5 DEF SignedInv, SignedTypeOK
  <2> QED BY <1>3, <1>9, <2>1
<1>13. WriterOf(cur', i, s) /\ pc' \notin Writing
  BY <1>8, <1>9 DEF Writing
<1>14. SignedWriterAgrees' /\ cur' \in WriterType
  <2>1. cur'.index = i /\ Written' = Len(s) /\ LastChunk(s) = s[Len(s)]
    BY <1>10, <1>13, WriteSteps DEF WriterOf, Written, LastChunk
  <2> QED BY <1>10, <1>13, <2>1 DEF WriterOf, SignedWriterAgrees
<1>15. SignedStepInv'
  <2>1. arg' = NoInput
    BY <1>9 DEF SignedInv, SignedStepInv, Appending
  <2>2. cur'.next_record_id > 0 => cur'.last_ts # NoTs
    <3>1. Len(s) \in Nat /\ cur'.next_record_id = Len(s) - 1
          /\ (Len(s) > 1 => cur'.last_ts = ts)
      BY <1>5, <1>6, <1>13 DEF WriterOf
    <3> QED BY <1>6, <3>1
  <2> QED BY <1>9, <2>1, <2>2 DEF SignedStepInv, Appending, Writing
<1>16. SignedTypeOK'
  BY <1>9, <1>10, <1>11, <1>12, <1>14 DEF SignedInv, SignedTypeOK, WriterSteps, Reports
<1> QED BY <1>10, <1>14, <1>15, <1>16 DEF SignedInv

\* Without a writer only the files matter.
LEMMA ClosedKeeps ==
  ASSUME SignedTypeOK', FilesOK', pc' = "closed", arg' = NoInput,
         cur' = NoWriter
  PROVE  SignedInv'
BY DEF SignedInv, SignedStepInv, SignedWriterAgrees, Appending, Writing, NoWriter

\* Opens that yield no writer.
LEMMA OpenFailsKeeps ==
  ASSUME SignedInv, NEW k \in Keys, OpenRefused(k) \/ RepairFails(k)
  PROVE  SignedInv'
<1>1. PICK i, s : i \in Listed /\ s = Repaired(i, k) /\ file' = [file EXCEPT ![i] = s]
        /\ pc = "closed" /\ report' \in Reports
        /\ synced' \in {synced, [synced EXCEPT ![i] = Len(s)]}
        /\ UNCHANGED <<entries, dirSynced, pc, cur, arg, acked, flushed, sealAcked>>
  <2>1. CASE OpenRefused(k)
    <3>1. PICK i \in Listed : OpenRefusal(i, k) # "none" /\ Scan(i, k)
                              /\ report' \in OpenRefusals(i, k) /\ UNCHANGED <<pc, cur, acked>>
      BY <2>1 DEF OpenRefused
    <3> QED BY <3>1, RefusalType DEF Scan
  <2>2. CASE RepairFails(k)
    <3>1. PICK i \in Listed : LET s == Repaired(i, k) IN
            /\ pc = "closed"
            /\ file' = [file EXCEPT ![i] = s]
            /\ synced' = [synced EXCEPT ![i] = IF @ > Len(s) THEN Len(s) ELSE @]
            /\ UNCHANGED <<entries, dirSynced, pc, cur, arg, report, history>>
      BY <2>2 DEF RepairFails
    <3>2. PICK s : s = Repaired(i, k)
      OBVIOUS
    <3>3. synced \in [Idx -> Nat] /\ report \in Reports /\ i \in Idx
      BY DEF SignedInv, SignedTypeOK, Listed
    <3>4. synced' \in {synced, [synced EXCEPT ![i] = Len(s)]}
      <4>1. CASE synced[i] > Len(s)
        BY <3>1, <3>2, <4>1
      <4>2. CASE ~(synced[i] > Len(s))
        <5>1. synced' = [synced EXCEPT ![i] = synced[i]]
          BY <3>1, <3>2, <4>2
        <5> QED BY <3>3, <5>1
      <4> QED BY <4>1, <4>2
    <3> QED BY <3>1, <3>2, <3>3, <3>4 DEF history
  <2> QED BY <2>1, <2>2
<1>2. i \in Idx /\ s \in Seq(Chunk) /\ FileOK(s, i)
  BY <1>1, RepairedFile DEF SignedInv, SignedTypeOK, Listed
<1>3. file' \in [Idx -> Seq(Chunk)] /\ FilesOK'
  BY <1>1, <1>2, FileSet
<1>4. synced' \in [Idx -> Nat]
  <2>1. Len(s) \in Nat /\ synced \in [Idx -> Nat]
    BY <1>2 DEF SignedInv, SignedTypeOK
  <2> QED BY <1>1, <1>2, <2>1
<1>5. SignedTypeOK'
  BY <1>1, <1>3, <1>4 DEF SignedInv, SignedTypeOK
<1>6. SignedStepInv' /\ SignedWriterAgrees'
  BY <1>1 DEF SignedInv, SignedStepInv, SignedWriterAgrees, Appending, Writing
<1> QED BY <1>3, <1>5, <1>6 DEF SignedInv

LEMMA OpenFreshKeeps ==
  ASSUME SignedInv, NEW k \in Keys, NEW l \in LogIds, OpenFresh(k, l)
  PROVE  SignedInv'
<1>1. 0 \in Idx /\ << >> \in Seq(Chunk) /\ FileOK(<< >>, 0)
  BY FileOKEmpty DEF Idx
<1>2. /\ file' = [file EXCEPT ![0] = << >>] /\ pc = "closed" /\ pc' = "genesis"
      /\ entries' = entries \cup {0} /\ cur' = [NoWriter EXCEPT !.key_id = k, !.log_id = l]
      /\ UNCHANGED <<synced, dirSynced, arg, report, acked, flushed, sealAcked>>
  BY DEF OpenFresh, history
<1>3. file' \in [Idx -> Seq(Chunk)] /\ FilesOK'
  BY <1>1, <1>2, FileSet
<1>4. cur' \in WriterType /\ cur'.next_record_id = 0
  BY <1>2, NoWriterType DEF WriterType, NoWriter
<1>5. SignedTypeOK'
  BY <1>1, <1>2, <1>3, <1>4 DEF SignedInv, SignedTypeOK, WriterSteps
<1>6. SignedStepInv' /\ SignedWriterAgrees'
  BY <1>2, <1>4 DEF SignedInv, SignedStepInv, SignedWriterAgrees, Appending, Writing
<1> QED BY <1>3, <1>5, <1>6 DEF SignedInv

\* An operation that returns an error leaves a state the next one can start in.
LEMMA FailKeeps ==
  ASSUME SignedInv, Fail, pc # "closed"
  PROVE  SignedInv'
<1>1. /\ pc' = (IF pc \in {"genesis", "create", "header"} /\ arg = NoInput
                THEN "closed" ELSE "ready")
      /\ cur' = (IF pc' = "closed" THEN NoWriter ELSE cur)
      /\ arg' = NoInput
      /\ UNCHANGED <<file, entries, synced, dirSynced, report, acked, flushed, sealAcked>>
  BY DEF Fail, disk, history
<1>2. SignedTypeOK'
  BY <1>1, NoWriterType DEF SignedInv, SignedTypeOK, WriterSteps
<1>3. FilesOK'
  BY <1>1 DEF SignedInv, FilesOK
<1>4. CASE pc' = "closed"
  BY <1>1, <1>2, <1>3, <1>4, ClosedKeeps
<1>5. CASE pc' = "ready"
  <2>1. pc # "genesis" /\ cur' = cur
    BY <1>1, <1>5 DEF SignedInv, SignedStepInv, Appending
  <2>2. SignedStepInv'
    BY <1>1, <1>5, <2>1 DEF SignedInv, SignedStepInv, Appending, Writing
  <2>3. PICK s, n : s = file[cur.index] /\ n = Len(s)
    OBVIOUS
  <2>4. s \in Seq(Chunk) /\ n \in Nat
    BY <2>3 DEF SignedInv, SignedTypeOK, WriterType
  <2>5. Written' = n /\ file'[cur'.index] = s
    BY <1>1, <1>5, <2>1, <2>3, WriteSteps DEF Written, Writing
  <2>6. CASE pc \notin Writing
    <3>1. Written = n
      BY <2>3, <2>6, WriteSteps DEF Written
    <3> QED BY <1>2, <1>3, <2>1, <2>2, <2>3, <2>5, <3>1 DEF SignedInv, SignedWriterAgrees
  <2>7. CASE pc \in Writing
    <3>1. Written = n - 1
      BY <2>3, <2>7, WriteSteps DEF Written
    <3>2. /\ n - 1 >= 1 /\ s[1].kind = "header"
          /\ s[1].datum = HeaderDatum(cur.index, cur.log_id, cur.key_id)
      BY <2>1, <2>3, <3>1 DEF SignedInv, SignedWriterAgrees
    <3>3. n \in 2..n /\ s[n].kind # "record"
      BY <2>3, <2>4, <2>7, <3>2 DEF SignedInv, SignedStepInv, LastChunk
    <3>4. SignedWriterAgrees'
      BY <1>5, <2>1, <2>4, <2>5, <3>2, <3>3 DEF SignedWriterAgrees
    <3> QED BY <1>2, <1>3, <2>2, <3>4 DEF SignedInv
  <2> QED BY <2>6, <2>7
<1> QED BY <1>1, <1>4, <1>5

\* A step that leaves the current file and the writer's bookkeeping alone.
LEMMA QuietKeeps ==
  ASSUME SignedInv, UNCHANGED file,
         cur' = cur \/ \E b \in BOOLEAN : cur' = [cur EXCEPT !.sealed = b],
         pc \notin {"closed", "genesis"} \cup Writing, pc' \notin {"closed", "genesis"} \cup Writing
  PROVE  /\ FilesOK' /\ SignedWriterAgrees' /\ cur' \in WriterType
         /\ cur'.next_record_id = cur.next_record_id /\ cur'.last_ts = cur.last_ts
         /\ cur'.index = cur.index
<1>1. /\ cur' \in WriterType /\ cur'.index = cur.index /\ cur'.log_id = cur.log_id
      /\ cur'.key_id = cur.key_id /\ cur'.last_hash = cur.last_hash
      /\ cur'.next_record_id = cur.next_record_id /\ cur'.bytes_written = cur.bytes_written
      /\ cur'.last_ts = cur.last_ts
  BY DEF SignedInv, SignedTypeOK, WriterType
<1>2. FilesOK'
  BY DEF SignedInv, FilesOK
<1>3. Written = Len(file[cur.index]) /\ Written' = Len(file[cur.index])
  BY <1>1, WriteSteps DEF Written
<1> QED BY <1>1, <1>2, <1>3 DEF SignedInv, SignedWriterAgrees

LEMMA AppendCallKeeps ==
  ASSUME SignedInv, NEW v \in Inputs, AppendCall(v)
  PROVE  SignedInv'
<1>1. /\ pc = "ready" /\ arg' = v /\ pc' = (IF NeedsRollover(v) THEN "fin" ELSE "rec")
      /\ UNCHANGED <<file, entries, synced, dirSynced, cur, report, acked, flushed, sealAcked>>
  BY DEF AppendCall, disk, history
<1>2. FilesOK' /\ SignedWriterAgrees'
  BY <1>1, QuietKeeps DEF Writing
<1>3. NeedsRollover(v) => cur.last_ts # NoTs
  BY DEF NeedsRollover, SignedInv, SignedStepInv
<1>4. SignedTypeOK'
  BY <1>1 DEF SignedInv, SignedTypeOK, WriterSteps
<1>5. SignedStepInv'
  BY <1>1, <1>3 DEF SignedInv, SignedStepInv, Appending, Writing
<1> QED BY <1>2, <1>4, <1>5 DEF SignedInv

\* SealCall, SyncFinalized, FlushFile and FlushDir.
LEMMA SyncsKeep ==
  ASSUME SignedInv, SealCall \/ SyncFinalized \/ FlushFile \/ FlushDir
  PROVE  SignedInv'
<1>1. PICK n : n = Len(file[cur.index])
  OBVIOUS
<1>2. n \in Nat /\ cur.index \in Idx
  BY <1>1 DEF SignedInv, SignedTypeOK, WriterType
<1>3. /\ pc \in {"ready", "fin_sync", "seal_sync", "flush_dir", "seal_dir"}
      /\ pc' \in {"ready", "seal", "create", "flush_dir", "seal_dir"}
      /\ pc' = "create" <=> pc = "fin_sync"
      /\ pc' = "seal" => cur.last_ts # NoTs
      /\ cur' = cur \/ \E b \in BOOLEAN : cur' = [cur EXCEPT !.sealed = b]
      /\ synced' \in {synced, [synced EXCEPT ![cur.index] = n]}
      /\ dirSynced' \in {dirSynced, entries}
      /\ flushed' \in {flushed, acked}
      /\ UNCHANGED <<file, entries, arg, report, acked>>
  <2>1. CASE SealCall
    BY <2>1 DEF SealCall, disk, history
  <2>2. CASE SyncFinalized \/ FlushFile
    BY <1>1, <2>2 DEF SyncFinalized, FlushFile, history
  <2>3. CASE FlushDir
    <3>1. cur.sealed \in BOOLEAN
      BY DEF SignedInv, SignedTypeOK, WriterType
    <3>2. cur' = [cur EXCEPT !.sealed = cur.sealed \/ pc = "seal_dir"]
      BY <2>3 DEF FlushDir
    <3> QED BY <2>3, <3>2 DEF FlushDir
  <2> QED BY <2>1, <2>2, <2>3
<1>4. sealAcked' \in BOOLEAN
  BY DEF SignedInv, SignedTypeOK, SealCall, SyncFinalized, FlushFile, FlushDir, history
<1>5. /\ FilesOK' /\ SignedWriterAgrees' /\ cur' \in WriterType
      /\ cur'.next_record_id = cur.next_record_id /\ cur'.last_ts = cur.last_ts
      /\ cur'.index = cur.index
  <2>1. pc \notin {"closed", "genesis"} \cup Writing /\ pc' \notin {"closed", "genesis"} \cup Writing
    BY <1>3 DEF Writing
  <2> QED BY <1>3, <2>1, QuietKeeps
<1>6. SignedTypeOK'
  <2>1. synced' \in [Idx -> Nat]
    BY <1>2, <1>3 DEF SignedInv, SignedTypeOK
  <2>2. dirSynced' \subseteq entries' /\ entries' \subseteq Idx
    BY <1>3 DEF SignedInv, SignedTypeOK
  <2>3. pc' \in WriterSteps
    BY <1>3 DEF WriterSteps
  <2> QED BY <1>3, <1>4, <1>5, <2>1, <2>2, <2>3 DEF SignedInv, SignedTypeOK
<1>7. SignedStepInv'
  BY <1>3, <1>5 DEF SignedInv, SignedStepInv, Appending, Writing
<1> QED BY <1>5, <1>6, <1>7 DEF SignedInv

LEMMA BeginWriteKeeps ==
  ASSUME SignedInv, BeginWrite
  PROVE  SignedInv'
<1>1. PICK i, s, t, n : i = cur.index /\ s = file[i] /\ t = Append(s, Torn) /\ n = Len(s)
  OBVIOUS
<1>2. i \in Idx /\ s \in Seq(Chunk) /\ FileOK(s, i) /\ n \in Nat
  BY <1>1 DEF SignedInv, SignedTypeOK, WriterType, FilesOK
<1>3. /\ t \in Seq(Chunk) /\ Len(t) = n + 1 /\ t[n + 1] = Torn /\ \A j \in 1..n : t[j] = s[j]
      /\ FileOK(t, i)
  BY <1>1, <1>2, TornType, FileOKTorn
<1>4. /\ file' = [file EXCEPT ![i] = t] /\ pc \in {"fin", "rec", "seal"} /\ pc' = WriteOf[pc]
      /\ UNCHANGED <<entries, synced, dirSynced, cur, arg, report, acked, flushed, sealAcked>>
  BY <1>1, WriteSteps DEF BeginWrite, history
<1>5. /\ pc' \in Writing /\ (pc' = "fin_write" => pc = "fin") /\ (pc' = "rec_write" => pc = "rec")
      /\ (pc' = "seal_write" <=> pc = "seal")
  BY <1>4, WriteSteps
<1>6. file' \in [Idx -> Seq(Chunk)] /\ FilesOK' /\ file'[i] = t
  BY <1>2, <1>3, <1>4, FileSet
<1>7. SignedTypeOK'
  BY <1>4, <1>5, <1>6 DEF SignedInv, SignedTypeOK, WriterSteps, Writing
<1>8. LastChunk(t).kind = "torn"
  BY <1>3 DEF LastChunk, Torn
<1>9. SignedStepInv'
  BY <1>1, <1>4, <1>5, <1>6, <1>8 DEF SignedInv, SignedStepInv, Appending, Writing
<1>10. SignedWriterAgrees'
  <2>1. Written = n /\ Written' = n
    <3>1. pc \notin Writing
      BY <1>4 DEF Writing
    <3> QED BY <1>1, <1>2, <1>3, <1>4, <1>5, <1>6, <3>1, WriteSteps DEF Written
  <2>2. /\ n >= 1 /\ s[1].kind = "header"
        /\ s[1].datum = HeaderDatum(i, cur.log_id, cur.key_id)
        /\ (\A m \in 2..n : s[m].kind = "record") =>
             /\ cur.last_hash = HashOf(s[n])
             /\ cur.next_record_id = n - 1
             /\ cur.bytes_written = s[n].end
             /\ n > 1 => cur.last_ts = s[n].datum.ts_wall
    BY <1>1, <1>4, <2>1 DEF SignedInv, SignedWriterAgrees
  <2>3. t[1] = s[1] /\ t[n] = s[n] /\ \A m \in 2..n : t[m] = s[m]
    <3>1. n >= 1
      BY <2>2
    <3>2. 1 \in 1..n /\ n \in 1..n /\ \A m \in 2..n : m \in 1..n
      BY <1>2, <3>1
    <3> QED BY <1>3, <3>2
  <2>4. pc' \notin {"closed", "genesis"} /\ cur' = cur /\ file'[cur'.index] = t
    BY <1>1, <1>4, <1>5, <1>6 DEF Writing
  <2> QED BY <1>1, <2>1, <2>2, <2>3, <2>4 DEF SignedWriterAgrees
<1> QED BY <1>6, <1>7, <1>9, <1>10 DEF SignedInv

\* The envelope being written.
LEMMA NewDatumType ==
  ASSUME SignedInv, pc \in Writing
  PROVE  /\ NewDatum \in Datum
         /\ NewDatum.segment_index = cur.index
         /\ NewDatum.record_id = cur.next_record_id
<1>1. /\ cur.log_id \in LogIds /\ cur.key_id \in Keys /\ cur.index \in Idx
      /\ cur.next_record_id \in Nat /\ cur.last_ts \in Nat \cup {NoTs}
  BY DEF SignedInv, SignedTypeOK, WriterType
<1>2. pc = "rec_write" => arg \in Inputs /\ InputTs[arg] \in Nat
  BY DEF SignedInv, SignedStepInv, Appending
<1>3. pc # "rec_write" => cur.last_ts + 1 \in Nat
  BY <1>1 DEF SignedInv, SignedStepInv, Writing
<1> QED BY <1>1, <1>2, <1>3 DEF NewDatum, Datum, Structural, Finalized, Sealed

LEMMA FinishWriteKeeps ==
  ASSUME SignedInv, FinishWrite
  PROVE  SignedInv'
<1>1. PICK i, s, n, d, e, c :
        /\ i = cur.index /\ s = file[i] /\ n = Len(s) /\ d = NewDatum
        /\ e = cur.bytes_written + (IF pc = "rec_write" THEN RecordSize[arg] ELSE OwnSize)
        /\ c = Frame(d, cur.last_hash, cur.key_id, e)
  OBVIOUS
<1>2. PICK t : t = [s EXCEPT ![n] = c]
  OBVIOUS
<1>3. /\ pc \in Writing /\ pc' = AfterWrite[pc]
      /\ file' = [file EXCEPT ![i] = t]
      /\ cur' = [cur EXCEPT !.last_hash = HashOf(c), !.next_record_id = cur.next_record_id + 1,
                            !.bytes_written = c.end, !.last_ts = c.datum.ts_wall]
      /\ acked' = [acked EXCEPT ![i] = file'[i]]
      /\ arg' = (IF pc = "rec_write" THEN NoInput ELSE arg)
      /\ UNCHANGED <<entries, synced, dirSynced, report, flushed, sealAcked>>
  BY <1>1, <1>2, WriteSteps DEF FinishWrite
<1>4. /\ i \in Idx /\ s \in Seq(Chunk) /\ n \in Nat /\ FileOK(s, i)
      /\ cur \in WriterType /\ cur.key_id \in Keys /\ cur.last_hash \in Hash
      /\ cur.next_record_id \in Nat /\ cur.bytes_written \in Nat
  BY <1>1 DEF SignedInv, SignedTypeOK, WriterType, FilesOK
<1>5. d \in Datum /\ d.segment_index = i /\ d.record_id = cur.next_record_id
  BY <1>1, <1>3, NewDatumType
<1>6. e \in Nat
  <2>1. pc = "rec_write" => arg \in Inputs
    BY DEF SignedInv, SignedStepInv, Appending
  <2> QED BY <1>1, <1>4, <2>1
<1>7. /\ c \in Chunk /\ c.kind = "record" /\ c.datum = d /\ c.prev_hash = cur.last_hash
      /\ c.sig = cur.key_id /\ c.end = e /\ HashOf(c) \in Hash /\ d.ts_wall \in Nat
  <2>1. c \in Chunk
    BY <1>1, <1>4, <1>5, <1>6, FrameType
  <2>2. /\ c.kind = "record" /\ c.datum = d /\ c.prev_hash = cur.last_hash
        /\ c.sig = cur.key_id /\ c.end = e
    BY <1>1 DEF Frame
  <2>3. HashOf(c) \in Hash
    BY <2>1, <2>2, HashOfType
  <2>4. d.ts_wall \in Nat
    BY <1>5 DEF Datum
  <2> QED BY <2>1, <2>2, <2>3, <2>4
<1>8. /\ n >= 2 /\ s[1].kind = "header"
      /\ s[1].datum = HeaderDatum(i, cur.log_id, cur.key_id)
      /\ (\A m \in 2..(n-1) : s[m].kind = "record") =>
           /\ cur.last_hash = HashOf(s[n-1])
           /\ cur.next_record_id = n - 2
  <2>1. Written = n - 1 /\ pc \notin {"closed", "genesis"}
    BY <1>1, <1>3, WriteSteps DEF Written, Writing
  <2>2. /\ n - 1 >= 1 /\ s[1].kind = "header"
        /\ s[1].datum = HeaderDatum(i, cur.log_id, cur.key_id)
        /\ (\A m \in 2..(n-1) : s[m].kind = "record") =>
             cur.last_hash = HashOf(s[n-1]) /\ cur.next_record_id = (n - 1) - 1
    BY <1>1, <2>1 DEF SignedInv, SignedWriterAgrees
  <2> QED BY <1>4, <2>2
<1>9. /\ t \in Seq(Chunk) /\ Len(t) = n /\ t[n] = c /\ \A m \in 1..(n-1) : t[m] = s[m]
  <2>1. n \in 1..Len(s)
    BY <1>1, <1>4, <1>8
  <2>2. /\ t \in Seq(Chunk) /\ Len(t) = n
        /\ \A m \in 1..n : t[m] = IF m = n THEN c ELSE s[m]
    BY <1>1, <1>2, <1>4, <1>7, <2>1, ExceptSeq
  <2>3. t[n] = c
    BY <1>1, <2>1, <2>2
  <2>4. ASSUME NEW m \in 1..(n-1) PROVE t[m] = s[m]
    <3>1. m \in 1..n /\ m # n
      BY <1>4
    <3> QED BY <2>2, <3>1
  <2> QED BY <2>2, <2>3, <2>4
<1>10. FileOK(t, i)
  <2>1. s[1].datum.key_id = cur.key_id
    BY <1>8 DEF HeaderDatum
  <2>2. /\ Len(s) = n /\ t[n].kind = "record"
        /\ t[n].datum.segment_index = i /\ t[n].sig = s[1].datum.key_id
    BY <1>1, <1>5, <1>7, <1>9, <2>1
  <2>3. (\A m \in 2..(n-1) : s[m].kind = "record") =>
           t[n].prev_hash = HashOf(s[n-1]) /\ t[n].datum.record_id = n - 2
    <3> SUFFICES ASSUME \A m \in 2..(n-1) : s[m].kind = "record"
                 PROVE  t[n].prev_hash = HashOf(s[n-1]) /\ t[n].datum.record_id = n - 2
      OBVIOUS
    <3>1. cur.last_hash = HashOf(s[n-1]) /\ cur.next_record_id = n - 2
      BY <1>8
    <3> QED BY <1>5, <1>7, <1>9, <3>1
  <2> QED BY <1>4, <1>8, <1>9, <2>2, <2>3, FileOKRecord
<1>11. file' \in [Idx -> Seq(Chunk)] /\ FilesOK' /\ file'[i] = t
  BY <1>3, <1>4, <1>9, <1>10, FileSet
<1>12. /\ cur' \in WriterType /\ cur'.index = i /\ cur'.log_id = cur.log_id
       /\ cur'.key_id = cur.key_id /\ cur'.last_hash = HashOf(c)
       /\ cur'.next_record_id = cur.next_record_id + 1
       /\ cur'.bytes_written = c.end /\ cur'.last_ts = c.datum.ts_wall
       /\ cur'.last_ts # NoTs
  <2>1. c.end \in Nat /\ c.datum.ts_wall \in Nat /\ HashOf(c) \in Hash
        /\ cur.next_record_id + 1 \in Nat
    BY <1>4, <1>6, <1>7
  <2>2. PICK h, r, b, ts : h = HashOf(c) /\ r = cur.next_record_id + 1 /\ b = c.end
                           /\ ts = c.datum.ts_wall
    OBVIOUS
  <2>3. /\ cur' = [cur EXCEPT !.last_hash = h, !.next_record_id = r, !.bytes_written = b,
                              !.last_ts = ts]
        /\ h \in Hash /\ r \in Nat /\ b \in Nat /\ ts \in Nat
    BY <1>3, <2>1, <2>2
  <2>4. /\ cur' \in WriterType /\ cur'.index = cur.index /\ cur'.log_id = cur.log_id
        /\ cur'.key_id = cur.key_id /\ cur'.last_hash = h /\ cur'.next_record_id = r
        /\ cur'.bytes_written = b /\ cur'.last_ts = ts
    BY <1>4, <2>3 DEF WriterType
  <2> QED BY <1>1, <2>2, <2>3, <2>4 DEF NoTs
<1>13. pc' \in {"fin_sync", "ready", "seal_sync"} /\ (pc' = "fin_sync" <=> pc = "fin_write")
       /\ (pc' = "ready" <=> pc = "rec_write")
  BY <1>3, WriteSteps DEF Writing
<1>14. SignedTypeOK'
  <2>1. acked' \in [Idx -> Seq(Chunk)]
    BY <1>3, <1>4, <1>9, <1>11 DEF SignedInv, SignedTypeOK
  <2> QED BY <1>3, <1>11, <1>12, <1>13, <2>1 DEF SignedInv, SignedTypeOK, WriterSteps
<1>15. SignedStepInv'
  BY <1>3, <1>12, <1>13 DEF SignedInv, SignedStepInv, Appending, Writing
<1>16. SignedWriterAgrees'
  <2>1. Written' = n /\ file'[cur'.index] = t
    <3>1. pc' \notin Writing
      BY <1>13 DEF Writing
    <3> QED BY <1>9, <1>11, <1>12, <3>1, WriteSteps DEF Written
  <2>2. t[1] = s[1]
    <3>1. n >= 2
      BY <1>8
    <3>2. 1 \in 1..(n-1)
      BY <1>4, <3>1
    <3> QED BY <1>9, <3>2
  <2>3. ASSUME \A m \in 2..n : t[m].kind = "record"
        PROVE  cur'.next_record_id = n - 1
    <3>1. \A m \in 2..(n-1) : m \in 1..(n-1) /\ m \in 2..n
      BY <1>4
    <3>2. \A m \in 2..(n-1) : s[m].kind = "record"
      BY <1>9, <2>3, <3>1
    <3> QED BY <1>4, <1>8, <1>12, <3>2
  <2>4. n >= 1 /\ s[1].kind = "header" /\ s[1].datum = HeaderDatum(i, cur.log_id, cur.key_id)
    BY <1>4, <1>8
  <2> QED BY <1>9, <1>12, <2>1, <2>2, <2>3, <2>4 DEF SignedWriterAgrees
<1> QED BY <1>11, <1>14, <1>15, <1>16 DEF SignedInv

LEMMA CreateSegmentKeeps ==
  ASSUME SignedInv, CreateSegment
  PROVE  SignedInv'
<1>1. PICK i : i = cur.index + 1
  OBVIOUS
<1>2. /\ pc = "create" /\ pc' = "header" /\ i \in Idx
      /\ file' = [file EXCEPT ![i] = << >>] /\ entries' = entries \cup {i}
      /\ UNCHANGED <<synced, dirSynced, cur, arg, report, acked, flushed, sealAcked>>
  BY <1>1 DEF CreateSegment, history
<1>3. cur.index \in Idx /\ i # cur.index /\ cur.index < MaxIndex
  <2>1. cur.index \in Idx
    BY DEF SignedInv, SignedTypeOK, WriterType
  <2> QED BY <1>1, <1>2, <2>1 DEF Idx
<1>4. << >> \in Seq(Chunk) /\ FileOK(<< >>, i)
  BY FileOKEmpty
<1>5. /\ file' \in [Idx -> Seq(Chunk)] /\ FilesOK'
      /\ \A j \in Idx : j # i => file'[j] = file[j]
  BY <1>2, <1>4, FileSet
<1>6. SignedTypeOK'
  BY <1>2, <1>5 DEF SignedInv, SignedTypeOK, WriterSteps
<1>7. SignedStepInv'
  BY <1>2, <1>3 DEF SignedInv, SignedStepInv, Appending, Writing
<1>8. SignedWriterAgrees'
  <2>1. file'[cur.index] = file[cur.index]
    BY <1>3, <1>5
  <2>2. Written' = Written
    BY <1>2, <2>1, WriteSteps DEF Written, Writing
  <2> QED BY <1>2, <2>1, <2>2 DEF SignedInv, SignedWriterAgrees
<1> QED BY <1>5, <1>6, <1>7, <1>8 DEF SignedInv

LEMMA WriteHeaderKeeps ==
  ASSUME SignedInv, WriteHeader
  PROVE  SignedInv'
<1>1. PICK i, h, s, w :
        /\ i = (IF pc = "genesis" THEN 0 ELSE cur.index + 1)
        /\ h = SignedHeader(i, cur.log_id, cur.key_id, cur.last_hash)
        /\ s = << h >> /\ w = WriterOn(i, s, cur.last_ts)
  OBVIOUS
<1>2. /\ pc \in {"genesis", "header"} /\ pc' = (IF arg = NoInput THEN "ready" ELSE "rec")
      /\ file' = [file EXCEPT ![i] = s] /\ cur' = w
      /\ acked' = [acked EXCEPT ![i] = s]
      /\ report' \in {"Fresh", "OpenedNextAfterFinalized", report}
      /\ UNCHANGED <<entries, synced, dirSynced, arg, flushed, sealAcked>>
  BY <1>1 DEF WriteHeader
<1>3. /\ cur.log_id \in LogIds /\ cur.key_id \in Keys /\ cur.last_hash \in Hash
      /\ cur.last_ts \in Nat \cup {NoTs} /\ cur.index \in Idx
  BY DEF SignedInv, SignedTypeOK, WriterType
<1>4. i \in Idx
  BY <1>1, <1>2, <1>3 DEF SignedInv, SignedStepInv, Idx
<1>5. /\ h \in Chunk /\ h.kind = "header" /\ h.datum = HeaderDatum(i, cur.log_id, cur.key_id)
  BY <1>1, <1>3, <1>4, HeaderType DEF SignedHeader
<1>6. s \in Seq(Chunk) /\ Len(s) = 1 /\ s[1] = h /\ LastChunk(s) = h /\ s # << >>
  BY <1>1, <1>5 DEF LastChunk
<1>7. FileOK(s, i)
  <2>1. h.datum = HeaderDatum(i, h.datum.log_id, h.datum.key_id)
    BY <1>5 DEF HeaderDatum
  <2> QED BY <1>6, <2>1 DEF FileOK
<1>8. WriterOf(w, i, s)
  <2>1. Len(s) >= 1 /\ ~(Len(s) > 1)
    BY <1>6
  <2>2. WriterOf(WriterOn(i, s, cur.last_ts), i, s)
    BY <1>3, <1>4, <1>5, <1>6, <1>7, <2>1, WriterOnFile
  <2> QED BY <1>1, <2>2
<1>9. file' \in [Idx -> Seq(Chunk)] /\ FilesOK' /\ file'[i] = s
  BY <1>2, <1>4, <1>6, <1>7, FileSet
<1>10. /\ cur' \in WriterType /\ cur'.index = i /\ cur'.next_record_id = 0
  BY <1>2, <1>6, <1>8 DEF WriterOf
<1>11. SignedTypeOK'
  <2>1. acked' \in [Idx -> Seq(Chunk)]
    <3>1. acked \in [Idx -> Seq(Chunk)]
      BY DEF SignedInv, SignedTypeOK
    <3> QED BY <1>2, <1>4, <1>6, <3>1
  <2> QED BY <1>2, <1>9, <1>10, <2>1 DEF SignedInv, SignedTypeOK, WriterSteps, Reports
<1>12. SignedStepInv'
  BY <1>2, <1>10 DEF SignedInv, SignedTypeOK, SignedStepInv, Appending, Writing
<1>13. SignedWriterAgrees'
  <2>1. Written' = 1 /\ file'[cur'.index] = s
    <3>1. pc' \notin Writing
      BY <1>2 DEF Writing
    <3> QED BY <1>6, <1>9, <1>10, <3>1, WriteSteps DEF Written
  <2> QED BY <1>2, <1>6, <1>8, <2>1 DEF WriterOf, SignedWriterAgrees
<1> QED BY <1>9, <1>11, <1>12, <1>13 DEF SignedInv

\* What survives of a file a power loss is a prefix of it, with or without one
\* unusable chunk behind.
LEMMA PowerLossKeeps ==
  ASSUME SignedInv, PowerLoss
  PROVE  SignedInv'
<1>1. PICK cut \in [Unsynced -> 0..(MaxChunks + 1)], tail \in [Unsynced -> {<< >>, <<Torn>>}],
           limit \in 0..(MaxIndex + 1) :
        /\ \A i \in Unsynced :
             /\ synced[i] <= cut[i]
             /\ cut[i] <= Len(file[i])
             /\ cut[i] = Len(file[i]) => tail[i] = << >>
        /\ entries' = dirSynced \cup {i \in entries : i < limit}
        /\ file' = [i \in Idx |->
                      IF i \notin entries' THEN << >>
                      ELSE IF i \in Unsynced THEN SubSeq(file[i], 1, cut[i]) \o tail[i]
                      ELSE file[i]]
  BY DEF PowerLoss
<1>2. ASSUME NEW i \in Idx
      PROVE  file'[i] \in Seq(Chunk) /\ FileOK(file'[i], i)
  <2>1. file[i] \in Seq(Chunk) /\ FileOK(file[i], i)
    BY DEF SignedInv, SignedTypeOK, FilesOK
  <2>2. CASE i \notin entries'
    <3>1. file'[i] = << >>
      BY <1>1, <2>2
    <3> QED BY <3>1, FileOKEmpty
  <2>3. CASE i \in entries' /\ i \notin Unsynced
    BY <1>1, <2>1, <2>3
  <2>4. CASE i \in entries' /\ i \in Unsynced
    <3>1. PICK s, n, e, p : s = file[i] /\ n = cut[i] /\ e = tail[i] /\ p = SubSeq(s, 1, n)
      OBVIOUS
    <3>2. /\ s \in Seq(Chunk) /\ FileOK(s, i) /\ n \in Nat /\ n <= Len(s)
          /\ e \in {<< >>, <<Torn>>}
      BY <1>1, <2>1, <2>4, <3>1
    <3>3. p \in Seq(Chunk) /\ Len(p) = n /\ \A j \in 1..n : p[j] = s[j]
      BY <3>1, <3>2
    <3>4. FileOK(p, i)
      BY <3>2, <3>3, FileOKPrefix DEF IsPrefixOf
    <3>5. file'[i] = p \o e
      BY <1>1, <2>4, <3>1
    <3>6. Append(p, Torn) \in Seq(Chunk) /\ FileOK(Append(p, Torn), i)
      BY <3>3, <3>4, FileOKTorn
    <3>7. p \o << >> = p /\ p \o <<Torn>> = Append(p, Torn)
      BY <3>3, ConcatEmptySeq, AppendIsConcat, TornType
    <3> QED BY <3>2, <3>3, <3>4, <3>5, <3>6, <3>7
  <2> QED BY <2>2, <2>3, <2>4
<1>3. /\ pc' = "closed" /\ cur' = NoWriter /\ arg' = NoInput /\ acked' = flushed
      /\ dirSynced' = entries' /\ UNCHANGED <<report, flushed, sealAcked>>
      /\ synced' = [i \in Idx |-> Len(file'[i])]
  BY DEF PowerLoss
<1>4. file' \in [Idx -> Seq(Chunk)] /\ FilesOK'
  BY <1>1, <1>2 DEF FilesOK
<1>5. entries' \subseteq Idx
  BY <1>1 DEF SignedInv, SignedTypeOK
<1>6. synced' \in [Idx -> Nat]
  BY <1>2, <1>3
<1>7. SignedTypeOK'
  BY <1>3, <1>4, <1>5, <1>6, NoWriterType DEF SignedInv, SignedTypeOK, WriterSteps
<1> QED BY <1>3, <1>4, <1>7, ClosedKeeps

-----------------------------------------------------------------------------
(* The theorems. *)

LEMMA InitSignedInv == SignedInit => SignedInv
<1> SUFFICES ASSUME SignedInit PROVE SignedInv
  OBVIOUS
<1>1. SignedTypeOK
  BY FileOKEmpty, NoWriterType DEF SignedInit, SignedTypeOK, WriterSteps, Reports
<1>2. FilesOK
  BY FileOKEmpty DEF SignedInit, FilesOK
<1>3. SignedStepInv /\ SignedWriterAgrees
  BY DEF SignedInit, SignedStepInv, SignedWriterAgrees, Appending, Writing, NoWriter
<1> QED BY <1>1, <1>2, <1>3 DEF SignedInv

\* Every step of the writer, and every failure, keeps the invariant.
LEMMA NextSignedInv == SignedInv /\ [SignedNext]_signedVars => SignedInv'
<1> SUFFICES ASSUME SignedInv, [SignedNext]_signedVars PROVE SignedInv'
  OBVIOUS
<1>1. CASE \E k \in Keys : (\E l \in LogIds : OpenFresh(k, l)) \/ OpenRefused(k)
                           \/ RepairFails(k) \/ OpenAccepted(k)
  BY <1>1, OpenFreshKeeps, OpenFailsKeeps, OpenAcceptedKeeps
<1>2. CASE \E v \in Inputs : AppendCall(v)
  BY <1>2, AppendCallKeeps
<1>3. CASE SealCall \/ SyncFinalized \/ FlushFile \/ FlushDir
  BY <1>3, SyncsKeep
<1>4. CASE BeginWrite \/ FinishWrite \/ CreateSegment \/ WriteHeader \/ PowerLoss
  BY <1>4, BeginWriteKeeps, FinishWriteKeeps, CreateSegmentKeeps, WriteHeaderKeeps,
     PowerLossKeeps
<1>5. CASE CreateRefused \/ OperationFails
  <2>1. Fail /\ pc # "closed"
    BY <1>5, WriteSteps DEF CreateRefused, OperationFails, FailsAt, Writing
  <2> QED BY <2>1, FailKeeps
<1>6. CASE Close \/ Kill
  <2>1. /\ pc' = "closed" /\ cur' = NoWriter /\ arg' \in {arg, NoInput}
        /\ arg' = NoInput \/ pc = "ready"
        /\ UNCHANGED <<file, entries, synced, dirSynced, report, acked, flushed, sealAcked>>
    BY <1>6 DEF Close, Kill, disk, history
  <2>2. SignedTypeOK' /\ FilesOK'
    BY <2>1, NoWriterType DEF SignedInv, SignedTypeOK, FilesOK, WriterSteps
  <2>3. arg' = NoInput
    BY <2>1 DEF SignedInv, SignedStepInv, Appending
  <2> QED BY <2>1, <2>2, <2>3, ClosedKeeps
<1>7. CASE UNCHANGED signedVars
  <2>1. UNCHANGED <<file, entries, synced, dirSynced, pc, cur, arg, report, acked, flushed, sealAcked>>
    BY <1>7 DEF signedVars, disk, history
  <2> QED BY <2>1 DEF SignedInv, SignedTypeOK, SignedStepInv, FilesOK, SignedWriterAgrees, Written
<1> QED BY <1>1, <1>2, <1>3, <1>4, <1>5, <1>6, <1>7 DEF SignedNext

\* The inductive invariant holds in every state of every behaviour.
THEOREM SignedInvariance == SignedSpec => []SignedInv
<1>1. SignedInit => SignedInv
  BY InitSignedInv
<1>2. SignedInv /\ [SignedNext]_signedVars => SignedInv'
  BY NextSignedInv
<1> QED BY <1>1, <1>2, PTL DEF SignedSpec

\* The signed writer's files and state always have the types writer.rs gives them.
THEOREM SignedTypeCorrect == SignedSpec => []SignedTypeOK
BY SignedInvariance, PTL DEF SignedInv

\* In every segment file the records follow the header in one signed hash chain as
\* far as they frame, whatever failed, crashed or was repaired before.
THEOREM LinksCorrect == SignedSpec => []SegmentsLinked
<1>1. SignedInv => SegmentsLinked
  BY DEF SignedInv, FilesOK, FileOK, SegmentsLinked
<1> QED BY <1>1, SignedInvariance, PTL

\* An open writer signs next what a scan of its file would have it sign next.
THEOREM SignedAgreementCorrect == SignedSpec => []SignedWriterAgrees
BY SignedInvariance, PTL DEF SignedInv

-----------------------------------------------------------------------------
(* seal.  The listing of an open finds a segment only up to NameLimit; the  *)
(* theorem is about logs that have no more segments than that.              *)

\* The file holds segment.finalized.
HasFinal(s) == \E n \in 1..Len(s) : s[n].kind = "record" /\ s[n].datum.event = Finalized

EndsWith(s, e) == s # << >> /\ LastChunk(s).kind = "record" /\ LastEvent(s) = e

\* Where the current segment is in the directory, between two system calls: only
\* a segment that was finalized can have one behind it.
SealStep ==
  /\ pc # "closed" =>
       /\ cur.index \in entries
       /\ \A j \in entries : j <= cur.index + 1
       /\ cur.index + 1 \in entries => HasFinal(file[cur.index])
  /\ pc \in {"fin_sync", "create", "header"} => EndsWith(file[cur.index], Finalized)
  /\ pc = "header" => cur.index + 1 \in entries
  /\ pc = "genesis" => cur.index = 0 /\ entries = {0}
  /\ pc \in {"seal_sync", "seal_dir"} => EndsWith(file[cur.index], Sealed)
  /\ pc = "seal_dir" => synced[cur.index] = Len(file[cur.index])

\* Segment i is the last one, frames to its end, ends with log.sealed, and all
\* of it is on stable storage.
SealedFile(i) ==
  /\ i \in entries /\ i \in dirSynced /\ \A j \in entries : j <= i
  /\ HasHeader(file[i])
  /\ \A n \in 2..Len(file[i]) : file[i][n].kind = "record"
  /\ EndsWith(file[i], Sealed)
  /\ synced[i] = Len(file[i])

SealInv ==
  /\ SealStep
  /\ sealAcked => /\ \E i \in Idx : SealedFile(i)
                  /\ pc # "closed" => cur.sealed /\ pc \in {"ready", "flush_dir"}

FewSegments == MaxIndex <= NameLimit

LEMMA LatestSegment ==
  ASSUME SignedInv, FewSegments
  PROVE  Listed = entries /\ \A i : IsLatest(i) <=> i \in entries /\ \A j \in entries : j <= i
<1>1. Listed = entries
  <2>1. \A i \in Idx : i <= NameLimit
    BY DEF FewSegments, Idx
  <2>2. entries \subseteq Idx
    BY DEF SignedInv, SignedTypeOK
  <2> QED BY <2>1, <2>2 DEF Listed
<1> QED BY <1>1 DEF IsLatest

LEMMA EndsHasFinal ==
  ASSUME NEW s \in Seq(Chunk), EndsWith(s, Finalized)
  PROVE  HasFinal(s)
<1>1. Len(s) \in 1..Len(s)
  BY DEF EndsWith
<1> QED BY <1>1 DEF EndsWith, HasFinal, LastChunk, LastEvent

\* Steps that leave the directory, the current file and its position alone.
LEMMA QuietSealStep ==
  ASSUME SignedInv, SealStep, UNCHANGED <<file, entries>>,
         pc' # "closed" => pc # "closed" /\ cur'.index = cur.index,
         pc' \in {"fin_sync", "create", "header"} => pc \in {"fin_sync", "create", "header"},
         pc' = "header" => pc = "header", pc' # "genesis",
         pc' \in {"seal_sync", "seal_dir"} => pc \in {"seal_sync", "seal_dir"},
         pc' = "seal_dir" => synced'[cur.index] = Len(file[cur.index])
  PROVE  SealStep'
<1>1. CASE pc' = "closed"
  BY <1>1 DEF SealStep
<1>2. CASE pc' # "closed"
  <2>1. pc # "closed" /\ cur'.index = cur.index /\ file'[cur'.index] = file[cur.index]
    BY <1>2
  <2>2. /\ cur'.index \in entries' /\ \A j \in entries' : j <= cur'.index + 1
        /\ cur'.index + 1 \in entries' => HasFinal(file[cur.index])
    BY <2>1 DEF SealStep
  <2>3. pc' \in {"fin_sync", "create", "header"} => EndsWith(file[cur.index], Finalized)
    BY DEF SealStep
  <2>4. pc' \in {"seal_sync", "seal_dir"} => EndsWith(file[cur.index], Sealed)
    BY DEF SealStep
  <2>5. pc' = "header" => cur'.index + 1 \in entries'
    BY <2>1 DEF SealStep
  <2> QED BY <2>1, <2>2, <2>3, <2>4, <2>5 DEF SealStep, HasFinal, EndsWith, LastChunk, LastEvent
<1> QED BY <1>1, <1>2

LEMMA OpenAcceptedSeal ==
  ASSUME SignedInv, FewSegments, NEW k \in Keys, OpenAccepted(k)
  PROVE  SealStep'
<1>1. PICK i \in Listed :
        LET s == Repaired(i, k) IN
        /\ OpenRefusal(i, k) = "none"
        /\ Scan(i, k)
        /\ cur' = WriterOn(i, s, TimeAnchor(i))
        /\ IF LastEvent(s) = Finalized
           THEN pc' = "create" /\ UNCHANGED report
           ELSE pc' = "ready" /\ report' = IF s = file[i] THEN "Resumed" ELSE "Repaired"
  BY DEF OpenAccepted
<1>2. PICK s : s = Intact(file[i], i)
  OBVIOUS
<1>3. i \in Idx /\ file[i] \in Seq(Chunk)
  BY DEF Listed, SignedInv, SignedTypeOK
<1>4. Repaired(i, k) = s /\ HasHeader(file[i])
  BY <1>1, <1>2, OpenChecks
<1>5. /\ s \in Seq(Chunk) /\ FileOK(s, i) /\ Len(s) >= 1 /\ s[1].kind = "header"
      /\ LastChunk(s).kind \in {"header", "record"}
      /\ Len(s) > 1 => LastChunk(s).kind = "record"
  BY <1>2, <1>3, <1>4, RepairedFile, IntactPrefix, IntactLast
<1>6. /\ cur'.index = i /\ file' = [file EXCEPT ![i] = s] /\ entries' = entries
      /\ pc' \in {"ready", "create"} /\ (pc' = "create" => LastEvent(s) = Finalized)
      /\ IsLatest(i)
  BY <1>1, <1>4 DEF Scan, WriterOn
<1>7. file'[i] = s
  BY <1>3, <1>6 DEF SignedInv, SignedTypeOK
<1>8. i \in entries /\ (\A j \in entries : j <= i /\ j \in Int) /\ i + 1 \notin entries
  <2>1. i \in entries /\ \A j \in entries : j <= i
    BY <1>6, LatestSegment
  <2>2. i \in Int /\ \A j \in entries : j \in Int
    BY <1>3 DEF SignedInv, SignedTypeOK, Idx
  <2> QED BY <2>1, <2>2
<1>9. \A j \in entries : j <= i + 1
  BY <1>3, <1>8 DEF Idx
<1>10. LastEvent(s) = Finalized => EndsWith(s, Finalized)
  <2>1. s # << >> /\ Len(s) \in Nat
    BY <1>5
  <2>2. CASE Len(s) = 1
    <3>1. s[1].datum = HeaderDatum(i, s[1].datum.log_id, s[1].datum.key_id)
      BY <1>5, <2>1 DEF FileOK, HasHeader
    <3>2. LastEvent(s) = "header"
      BY <2>2, <3>1 DEF LastEvent, LastChunk, HeaderDatum
    <3> QED BY <3>2 DEF Finalized
  <2>3. CASE Len(s) # 1
    <3>1. Len(s) > 1
      <4>1. PICK n : n = Len(s)
        OBVIOUS
      <4>2. n \in Nat /\ n >= 1 /\ n # 1
        BY <1>5, <2>1, <2>3, <4>1
      <4>3. n > 1
        BY <4>2
      <4> QED BY <4>1, <4>3
    <3> QED BY <1>5, <2>1, <3>1 DEF EndsWith
  <2> QED BY <2>2, <2>3
<1> QED BY <1>6, <1>7, <1>8, <1>9, <1>10 DEF SealStep

LEMMA OpenFreshSeal ==
  ASSUME SignedInv, FewSegments, NEW k \in Keys, NEW l \in LogIds, OpenFresh(k, l)
  PROVE  SealStep'
<1>1. entries' = {0} /\ cur'.index = 0 /\ pc' = "genesis"
  BY LatestSegment DEF OpenFresh, NoWriter
<1> QED BY <1>1 DEF SealStep

LEMMA BeginWriteSeal ==
  ASSUME SignedInv, SealStep, BeginWrite
  PROVE  SealStep'
<1>1. PICK i, s, t, n : i = cur.index /\ s = file[i] /\ t = Append(s, Torn) /\ n = Len(s)
  OBVIOUS
<1>2. i \in Idx /\ s \in Seq(Chunk) /\ n \in Nat
  BY <1>1 DEF SignedInv, SignedTypeOK, WriterType
<1>3. Len(t) = n + 1 /\ \A j \in 1..n : t[j] = s[j]
  BY <1>1, <1>2, TornType
<1>4. /\ file' = [file EXCEPT ![i] = t] /\ pc \in {"fin", "rec", "seal"} /\ pc' \in Writing
      /\ UNCHANGED <<entries, cur>>
  BY <1>1, WriteSteps DEF BeginWrite
<1>5. file'[cur'.index] = t
  BY <1>1, <1>2, <1>4 DEF SignedInv, SignedTypeOK
<1>6. HasFinal(s) => HasFinal(t)
  <2> SUFFICES ASSUME NEW m \in 1..n, s[m].kind = "record", s[m].datum.event = Finalized
               PROVE  HasFinal(t)
    BY <1>1 DEF HasFinal
  <2>1. m \in 1..Len(t) /\ t[m] = s[m]
    BY <1>2, <1>3
  <2> QED BY <2>1 DEF HasFinal
<1>7. /\ pc # "closed"
      /\ pc' \notin {"closed", "fin_sync", "create", "header", "genesis", "seal_sync", "seal_dir"}
  BY <1>4 DEF Writing
<1>8. /\ cur'.index \in entries' /\ \A j \in entries' : j <= cur'.index + 1
      /\ cur'.index + 1 \in entries' => HasFinal(s)
  BY <1>1, <1>4, <1>7 DEF SealStep
<1>9. cur'.index + 1 \in entries' => HasFinal(file'[cur'.index])
  BY <1>5, <1>6, <1>8
<1> QED BY <1>7, <1>8, <1>9 DEF SealStep, HasFinal

LEMMA FinishWriteSeal ==
  ASSUME SignedInv, SealStep, FinishWrite
  PROVE  SealStep'
<1>1. PICK i, s, n, e, c :
        /\ i = cur.index /\ s = file[i] /\ n = Len(s)
        /\ e = cur.bytes_written + (IF pc = "rec_write" THEN RecordSize[arg] ELSE OwnSize)
        /\ c = Frame(NewDatum, cur.last_hash, cur.key_id, e)
  OBVIOUS
<1>2. PICK t : t = [s EXCEPT ![n] = c]
  OBVIOUS
<1>3. /\ pc \in Writing /\ pc' = AfterWrite[pc] /\ file' = [file EXCEPT ![i] = t]
      /\ cur' = [cur EXCEPT !.last_hash = HashOf(c), !.next_record_id = cur.next_record_id + 1,
                            !.bytes_written = c.end, !.last_ts = c.datum.ts_wall]
      /\ entries' = entries
  BY <1>1, <1>2, WriteSteps DEF FinishWrite
<1>4. i \in Idx /\ s \in Seq(Chunk) /\ n \in Nat /\ n >= 1 /\ s[n].kind = "torn"
  <2>1. i \in Idx /\ s \in Seq(Chunk) /\ n \in Nat
    BY <1>1 DEF SignedInv, SignedTypeOK, WriterType
  <2>2. Written = n - 1 /\ Written >= 1
    BY <1>1, <1>3, WriteSteps DEF Written, Writing, SignedInv, SignedWriterAgrees
  <2>3. s[n].kind = "torn"
    BY <1>1, <1>3 DEF SignedInv, SignedStepInv, LastChunk
  <2> QED BY <2>1, <2>2, <2>3
<1>5. cur'.index = i /\ file'[i] = t
  <2>1. cur'.index = cur.index
    BY <1>3 DEF SignedInv, SignedTypeOK, WriterType
  <2> QED BY <1>1, <1>3, <1>4, <2>1 DEF SignedInv, SignedTypeOK
<1>6. /\ c.kind = "record" /\ c.datum = NewDatum
      /\ pc = "fin_write" => c.datum.event = Finalized
      /\ pc = "seal_write" => c.datum.event = Sealed
  BY <1>1 DEF Frame, NewDatum
<1>7. Len(t) = n /\ t[n] = c /\ t # << >> /\ \A m \in 1..n : m # n => t[m] = s[m]
  BY <1>1, <1>2, <1>4
<1>8. HasFinal(s) => HasFinal(t)
  <2> SUFFICES ASSUME NEW m \in 1..n, s[m].kind = "record", s[m].datum.event = Finalized
               PROVE  HasFinal(t)
    BY <1>1 DEF HasFinal
  <2>1. m # n
    BY <1>4
  <2>2. m \in 1..Len(t) /\ t[m] = s[m]
    BY <1>7, <2>1
  <2> QED BY <2>2 DEF HasFinal
<1>9. /\ pc = "fin_write" => EndsWith(t, Finalized)
      /\ pc = "seal_write" => EndsWith(t, Sealed)
  BY <1>6, <1>7 DEF EndsWith, LastChunk, LastEvent
<1>10. \/ pc' = "fin_sync" /\ pc = "fin_write"
       \/ pc' = "ready"
       \/ pc' = "seal_sync" /\ pc = "seal_write"
  BY <1>3, WriteSteps DEF Writing
<1>11. /\ i \in entries /\ \A j \in entries : j <= i + 1
       /\ i + 1 \in entries => HasFinal(t)
  BY <1>1, <1>3, <1>8 DEF SealStep, Writing
<1>12. (pc # "closed" =>
          /\ cur.index \in entries
          /\ \A j \in entries : j <= cur.index + 1
          /\ cur.index + 1 \in entries => HasFinal(file[cur.index]))'
  BY <1>3, <1>5, <1>11 DEF HasFinal
<1>13. /\ (pc \in {"fin_sync", "create", "header"} => EndsWith(file[cur.index], Finalized))'
       /\ (pc \in {"seal_sync", "seal_dir"} => EndsWith(file[cur.index], Sealed))'
  BY <1>5, <1>9, <1>10 DEF EndsWith, LastChunk, LastEvent
<1>14. pc' \notin {"header", "genesis", "seal_dir"}
  BY <1>10
<1> QED BY <1>12, <1>13, <1>14 DEF SealStep

LEMMA CreateSegmentSeal ==
  ASSUME SignedInv, SealStep, CreateSegment
  PROVE  SealStep'
<1>1. PICK i, s : i = cur.index + 1 /\ s = file[cur.index]
  OBVIOUS
<1>2. /\ pc = "create" /\ pc' = "header" /\ i \in Idx
      /\ file' = [file EXCEPT ![i] = << >>] /\ entries' = entries \cup {i} /\ cur' = cur
  BY <1>1 DEF CreateSegment
<1>3. cur.index \in Idx /\ i # cur.index
  <2>1. cur.index \in Idx
    BY DEF SignedInv, SignedTypeOK, WriterType
  <2> QED BY <1>1, <2>1 DEF Idx
<1>4. file'[cur.index] = s /\ s \in Seq(Chunk)
  BY <1>1, <1>2, <1>3 DEF SignedInv, SignedTypeOK
<1>5. EndsWith(s, Finalized) /\ HasFinal(s)
  BY <1>1, <1>2, <1>4, EndsHasFinal DEF SealStep
<1>6. cur.index \in entries' /\ \A j \in entries' : j <= i
  BY <1>1, <1>2, <1>3 DEF SealStep, Idx
<1> QED BY <1>1, <1>2, <1>4, <1>5, <1>6 DEF SealStep, HasFinal, EndsWith, LastChunk, LastEvent

LEMMA WriteHeaderSeal ==
  ASSUME SignedInv, SealStep, WriteHeader
  PROVE  SealStep'
<1>1. PICK i : i = (IF pc = "genesis" THEN 0 ELSE cur.index + 1)
  OBVIOUS
<1>2. /\ cur'.index = i /\ pc \in {"genesis", "header"} /\ pc' \in {"ready", "rec"}
      /\ entries' = entries
  BY <1>1 DEF WriteHeader, WriterOn
<1>3. i \in entries /\ \A j \in entries : j <= i
  BY <1>1, <1>2 DEF SealStep
<1>4. i \in Int /\ \A j \in entries : j \in Int
  BY <1>3 DEF SignedInv, SignedTypeOK, Idx
<1>5. (\A j \in entries : j <= i + 1) /\ i + 1 \notin entries
  BY <1>3, <1>4
<1> QED BY <1>2, <1>3, <1>5 DEF SealStep

LEMMA NextSealStep == SignedInv /\ FewSegments /\ SealStep /\ [SignedNext]_signedVars => SealStep'
<1> SUFFICES ASSUME SignedInv, FewSegments, SealStep, [SignedNext]_signedVars PROVE SealStep'
  OBVIOUS
<1>1. CASE \E k \in Keys : (\E l \in LogIds : OpenFresh(k, l)) \/ OpenRefused(k)
                           \/ RepairFails(k) \/ OpenAccepted(k)
  <2>1. PICK k \in Keys : (\E l \in LogIds : OpenFresh(k, l)) \/ OpenRefused(k)
                          \/ RepairFails(k) \/ OpenAccepted(k)
    BY <1>1
  <2>2. CASE OpenRefused(k) \/ RepairFails(k)
    <3>1. pc' = "closed"
      BY <2>2 DEF OpenRefused, RepairFails, Scan
    <3> QED BY <3>1 DEF SealStep
  <2> QED BY <2>1, <2>2, OpenFreshSeal, OpenAcceptedSeal
<1>2. CASE (\E v \in Inputs : AppendCall(v)) \/ SealCall
  <2>1. /\ pc = "ready" /\ pc' \in {"fin", "rec", "seal"} /\ UNCHANGED <<file, entries, cur>>
    BY <1>2 DEF AppendCall, SealCall, disk
  <2> QED BY <2>1, QuietSealStep
<1>3. CASE SyncFinalized
  <2>1. pc = "fin_sync" /\ pc' = "create" /\ UNCHANGED <<file, entries, cur>>
    BY <1>3 DEF SyncFinalized
  <2> QED BY <2>1, QuietSealStep
<1>4. CASE FlushFile
  <2>1. /\ (pc = "ready" /\ pc' = "flush_dir") \/ (pc = "seal_sync" /\ pc' = "seal_dir")
        /\ synced' = [synced EXCEPT ![cur.index] = Len(file[cur.index])]
        /\ UNCHANGED <<file, entries, cur>>
    BY <1>4 DEF FlushFile
  <2>2. synced'[cur.index] = Len(file[cur.index])
    BY <2>1 DEF SignedInv, SignedTypeOK, WriterType
  <2> QED BY <2>1, <2>2, QuietSealStep
<1>5. CASE FlushDir
  <2>1. /\ pc \in {"flush_dir", "seal_dir"} /\ pc' = "ready" /\ UNCHANGED <<file, entries>>
        /\ cur' = [cur EXCEPT !.sealed = cur.sealed \/ pc = "seal_dir"]
    BY <1>5 DEF FlushDir
  <2>2. cur'.index = cur.index
    BY <2>1 DEF SignedInv, SignedTypeOK, WriterType
  <2> QED BY <2>1, <2>2, QuietSealStep
<1>6. CASE BeginWrite \/ FinishWrite \/ CreateSegment \/ WriteHeader
  BY <1>6, BeginWriteSeal, FinishWriteSeal, CreateSegmentSeal, WriteHeaderSeal
<1>7. CASE CreateRefused \/ OperationFails
  <2>1. Fail /\ pc # "closed"
    BY <1>7, WriteSteps DEF CreateRefused, OperationFails, FailsAt, Writing
  <2>2. pc' \in {"closed", "ready"} /\ (pc' = "ready" => cur' = cur) /\ UNCHANGED <<file, entries>>
    BY <2>1 DEF Fail, disk
  <2> QED BY <2>1, <2>2, QuietSealStep
<1>8. CASE Close \/ Kill \/ PowerLoss
  <2>1. pc' = "closed"
    BY <1>8 DEF Close, Kill, PowerLoss
  <2> QED BY <2>1 DEF SealStep
<1>9. CASE UNCHANGED signedVars
  <2>1. UNCHANGED <<file, entries, pc, cur, synced>>
    BY <1>9 DEF signedVars, disk
  <2> QED BY <2>1 DEF SealStep, HasFinal, EndsWith, LastChunk, LastEvent
<1> QED BY <1>1, <1>2, <1>3, <1>4, <1>5, <1>6, <1>7, <1>8, <1>9 DEF SignedNext

-----------------------------------------------------------------------------

\* The scan of a sealed segment walks to its end, so nothing is cut off and the
\* open is refused.
LEMMA SealedScan ==
  ASSUME SignedInv, NEW i \in Idx, SealedFile(i), NEW k
  PROVE  Repaired(i, k) = file[i] /\ OpenRefusal(i, k) # "none"
<1>1. PICK s, n : s = file[i] /\ n = Len(s)
  OBVIOUS
<1>2. /\ s \in Seq(Chunk) /\ n \in Nat /\ FileOK(s, i) /\ HasHeader(s) /\ s # << >>
      /\ \A m \in 2..n : s[m].kind = "record"
      /\ EndsWith(s, Sealed)
  BY <1>1 DEF SignedInv, SignedTypeOK, FilesOK, SealedFile, HasHeader
<1>3. n >= 1
  BY <1>1, <1>2
<1>4. ASSUME NEW m \in 2..n PROVE Linked(s, m, i)
  <2>1. \A q \in 2..m : s[q].kind = "record"
    BY <1>2
  <2> QED BY <1>1, <1>2, <2>1 DEF FileOK
<1>5. ScanStop(s, i) = n
  <2>1. PICK x : x = ScanStop(s, i)
    OBVIOUS
  <2>2. x \in 1..n /\ (x < n => ~Linked(s, x + 1, i))
    BY <1>1, <1>2, <1>3, <2>1, ScanStops
  <2>3. ~(x < n)
    <3>1. x < n => x + 1 \in 2..n
      BY <1>2, <2>2
    <3> QED BY <1>4, <2>2, <3>1
  <2> QED BY <1>2, <2>1, <2>2, <2>3
<1>6. Intact(s, i) = s
  <2>1. Intact(s, i) = SubSeq(s, 1, n)
    BY <1>2, <1>5 DEF Intact
  <2> QED BY <1>1, <1>2, <2>1
<1>7. Repaired(i, k) = s
  BY <1>1, <1>6 DEF Repaired
<1>8. ASSUME OpenRefusal(i, k) = "none" PROVE FALSE
  <2>1. Intact(file[i], i) = s /\ LastEvent(s) = Sealed
    BY <1>1, <1>2, <1>6 DEF EndsWith
  <2> QED BY <1>8, <2>1 DEF OpenRefusal
<1> QED BY <1>1, <1>7, <1>8

\* A step that leaves the sealed file and the directory alone.
LEMMA SealedFileStays ==
  ASSUME NEW i, SealedFile(i), file'[i] = file[i], entries' \subseteq entries,
         i \in entries', i \in dirSynced', synced'[i] = Len(file[i])
  PROVE  SealedFile(i)'
BY DEF SealedFile, HasHeader, EndsWith, LastChunk, LastEvent

\* seal returns: the current segment is the last one and ends with log.sealed.
LEMMA SealReturns ==
  ASSUME SignedInv, SealStep, FlushDir, pc = "seal_dir", Unharmed
  PROVE  \E i \in Idx : SealedFile(i)'
<1>1. PICK i, s, n : i = cur.index /\ s = file[i] /\ n = Len(s)
  OBVIOUS
<1>2. /\ i \in Idx /\ s \in Seq(Chunk) /\ n \in Nat /\ FileOK(s, i)
  BY <1>1 DEF SignedInv, SignedTypeOK, WriterType, FilesOK
<1>3. /\ i \in entries /\ (\A j \in entries : j <= i + 1)
      /\ (i + 1 \in entries => HasFinal(s)) /\ EndsWith(s, Sealed) /\ synced[i] = n
  BY <1>1 DEF SealStep
<1>4. \A m \in 1..n : s[m].kind # "torn" /\ (m < n => s[m].datum.event # Finalized)
  BY <1>1 DEF Unharmed
<1>5. n >= 1 /\ s[n].kind = "record" /\ s[n].datum.event = Sealed
  BY <1>1, <1>2, <1>3 DEF EndsWith, LastChunk, LastEvent
<1>6. ~HasFinal(s)
  <2> SUFFICES ASSUME NEW m \in 1..n, s[m].datum.event = Finalized PROVE FALSE
    BY <1>1 DEF HasFinal
  <2>1. m = n
    BY <1>2, <1>4
  <2> QED BY <1>5, <2>1 DEF Sealed, Finalized
<1>7. \A j \in entries : j <= i
  <2>1. \A j \in entries : j \in Int /\ j # i + 1 /\ j <= i + 1
    BY <1>3, <1>6 DEF SignedInv, SignedTypeOK, Idx
  <2>2. i \in Int
    BY <1>2 DEF Idx
  <2> QED BY <2>1, <2>2
<1>8. ASSUME NEW m \in 2..n PROVE s[m].kind = "record"
  <2>1. m \in 1..n /\ m \in 1..Len(s) /\ m \in 2..Len(s)
    BY <1>1
  <2>2. s[m] \in Chunk /\ s[m].kind # "torn" /\ s[m].kind # "header"
    BY <1>2, <1>4, <2>1 DEF FileOK
  <2> QED BY <2>2 DEF Chunk, Torn
<1>9. HasHeader(s)
  <2>1. Written = n /\ s[1].kind = "header"
    BY <1>1, WriteSteps DEF Written, Writing, SignedInv, SignedWriterAgrees
  <2> QED BY <1>3, <2>1 DEF HasHeader, EndsWith
<1>10. UNCHANGED <<file, entries, synced>> /\ dirSynced' = entries
  BY DEF FlushDir
<1>11. SealedFile(i)'
  BY <1>1, <1>3, <1>7, <1>8, <1>9, <1>10 DEF SealedFile, HasHeader, EndsWith, LastChunk, LastEvent
<1> QED BY <1>2, <1>11

LEMMA NextSealInv ==
  SignedInv /\ FewSegments /\ SealInv /\ [SignedNext]_signedVars => SealInv'
<1> SUFFICES ASSUME SignedInv, FewSegments, SealInv, [SignedNext]_signedVars PROVE SealInv'
  OBVIOUS
<1>0. SealStep /\ SealStep'
  BY NextSealStep DEF SealInv
<1> DEFINE Kept == sealAcked' => /\ \E i \in Idx : SealedFile(i)'
                                 /\ pc' # "closed" => cur'.sealed /\ pc' \in {"ready", "flush_dir"}
<1> SUFFICES Kept
  BY <1>0 DEF SealInv, SealedFile, EndsWith, HasHeader, LastChunk, LastEvent
<1>1. CASE FlushDir /\ sealAcked' /\ ~sealAcked
  <2>1. pc = "seal_dir" /\ Unharmed
    BY <1>1 DEF FlushDir
  <2>2. \E i \in Idx : SealedFile(i)'
    BY <1>0, <1>1, <2>1, SealReturns
  <2>3. pc' = "ready" /\ cur' = [cur EXCEPT !.sealed = cur.sealed \/ pc = "seal_dir"]
    BY <1>1 DEF FlushDir
  <2>4. cur'.sealed
    BY <2>1, <2>3 DEF SignedInv, SignedTypeOK, WriterType
  <2> QED BY <2>2, <2>3, <2>4
<1>2. CASE ~sealAcked /\ ~FlushDir
  <2>1. ~sealAcked'
    BY <1>2 DEF SignedNext, OpenFresh, OpenRefused, RepairFails, OpenAccepted, Scan, AppendCall,
       SealCall, BeginWrite, FinishWrite, SyncFinalized, CreateSegment, CreateRefused, Fail,
       WriteHeader, FlushFile, Close, OperationFails, Kill, PowerLoss, signedVars, history
  <2> QED BY <2>1
<1>3. CASE sealAcked
  <2>1. PICK i \in Idx : SealedFile(i)
    BY <1>3 DEF SealInv
  <2>2. pc # "closed" => cur.sealed /\ pc \in {"ready", "flush_dir"}
    BY <1>3 DEF SealInv
  <2>3. /\ i \in entries /\ i \in dirSynced /\ (\A j \in entries : j <= i)
        /\ synced[i] = Len(file[i])
    BY <2>1 DEF SealedFile
  <2>4. ASSUME NEW j, IsLatest(j) PROVE j = i
    <3>1. j \in entries /\ j <= i /\ i <= j
      BY <2>3, <2>4, LatestSegment
    <3> QED BY <3>1 DEF SignedInv, SignedTypeOK, Idx
  <2>5. ASSUME NEW k \in Keys, (\E l \in LogIds : OpenFresh(k, l)) \/ OpenAccepted(k)
        PROVE  FALSE
    <3>1. CASE \E l \in LogIds : OpenFresh(k, l)
      BY <2>3, <3>1, LatestSegment DEF OpenFresh
    <3>2. CASE OpenAccepted(k)
      <4>1. PICK j \in Listed : OpenRefusal(j, k) = "none" /\ IsLatest(j)
        BY <3>2 DEF OpenAccepted, Scan
      <4> QED BY <2>1, <2>4, <4>1, SealedScan
    <3> QED BY <2>5, <3>1, <3>2
  <2>6. ASSUME NEW k \in Keys, OpenRefused(k) \/ RepairFails(k)
        PROVE  UNCHANGED <<file, entries, dirSynced, synced>> /\ pc' = "closed"
    <3>1. PICK j \in Listed : /\ IsLatest(j) /\ file' = [file EXCEPT ![j] = Repaired(j, k)]
                              /\ Repaired(j, k) = file[j] => UNCHANGED synced
                              /\ UNCHANGED <<entries, dirSynced, pc>> /\ pc = "closed"
      <4>1. CASE OpenRefused(k)
        BY <4>1 DEF OpenRefused, Scan
      <4>2. CASE RepairFails(k)
        BY <4>2 DEF RepairFails
      <4> QED BY <2>6, <4>1, <4>2
    <3>2. j = i /\ Repaired(j, k) = file[j]
      BY <2>1, <2>4, <3>1, SealedScan
    <3> QED BY <3>1, <3>2 DEF SignedInv, SignedTypeOK
  <2>7. CASE PowerLoss
    <3>1. PICK cut \in [Unsynced -> 0..(MaxChunks + 1)], tail \in [Unsynced -> {<< >>, <<Torn>>}],
               limit \in 0..(MaxIndex + 1) :
            /\ \A j \in Unsynced :
                 /\ synced[j] <= cut[j]
                 /\ cut[j] <= Len(file[j])
                 /\ cut[j] = Len(file[j]) => tail[j] = << >>
            /\ entries' = dirSynced \cup {j \in entries : j < limit}
            /\ file' = [j \in Idx |->
                   IF j \notin entries' THEN << >>
                   ELSE IF j \in Unsynced THEN SubSeq(file[j], 1, cut[j]) \o tail[j]
                   ELSE file[j]]
      BY <2>7 DEF PowerLoss
    <3>2. i \in entries' /\ entries' \subseteq entries
      BY <2>3, <3>1 DEF SignedInv, SignedTypeOK
    <3>3. i \notin Unsynced
      <4>1. Len(file[i]) \in Nat
        BY DEF SignedInv, SignedTypeOK
      <4> QED BY <2>3, <4>1 DEF Unsynced
    <3>4. file'[i] = file[i]
      BY <3>1, <3>2, <3>3
    <3>5. synced' = [j \in Idx |-> Len(file'[j])] /\ dirSynced' = entries' /\ pc' = "closed"
      BY <2>7 DEF PowerLoss
    <3>6. SealedFile(i)'
      BY <2>1, <3>2, <3>4, <3>5, SealedFileStays
    <3> QED BY <3>5, <3>6
  <2>8. CASE FlushFile \/ FlushDir
    <3>1. pc \in {"ready", "flush_dir"} /\ cur.sealed
      BY <2>2, <2>8 DEF FlushFile, FlushDir
    <3>2. /\ UNCHANGED <<file, entries>> /\ pc' \in {"ready", "flush_dir"}
          /\ dirSynced' \in {dirSynced, entries}
          /\ synced' \in {synced, [synced EXCEPT ![cur.index] = Len(file[cur.index])]}
          /\ cur' = cur \/ cur' = [cur EXCEPT !.sealed = cur.sealed \/ pc = "seal_dir"]
      BY <2>8, <3>1 DEF FlushFile, FlushDir
    <3>3. synced'[i] = Len(file[i])
      BY <2>3, <3>2 DEF SignedInv, SignedTypeOK
    <3>4. cur'.sealed
      BY <3>1, <3>2 DEF SignedInv, SignedTypeOK, WriterType
    <3>5. SealedFile(i)'
      BY <2>1, <2>3, <3>2, <3>3, SealedFileStays
    <3> QED BY <3>2, <3>4, <3>5
  <2>9. ASSUME UNCHANGED <<file, entries, dirSynced, synced>>,
               pc' = "closed" \/ (pc' \in {"ready", "flush_dir"} /\ pc # "closed" /\ cur' = cur)
        PROVE  Kept
    <3>1. SealedFile(i)'
      BY <2>1, <2>3, <2>9, SealedFileStays
    <3>2. pc' # "closed" => cur'.sealed /\ pc' \in {"ready", "flush_dir"}
      BY <2>2, <2>9
    <3> QED BY <3>1, <3>2
  <2>10. CASE Close \/ Kill
    BY <2>9, <2>10 DEF Close, Kill, disk
  <2>11. CASE CreateRefused \/ OperationFails
    <3>1. Fail /\ pc # "closed"
      BY <2>11, WriteSteps DEF CreateRefused, OperationFails, FailsAt, Writing
    <3> QED BY <2>2, <2>9, <3>1 DEF Fail, disk
  <2>12. CASE UNCHANGED signedVars
    BY <2>2, <2>9, <2>12 DEF signedVars, disk
  <2>13. ~(\E v \in Inputs : AppendCall(v)) /\ ~SealCall
    BY <2>2 DEF AppendCall, SealCall
  <2>14. ~BeginWrite /\ ~FinishWrite
    BY <2>2, WriteSteps DEF BeginWrite, FinishWrite, Writing
  <2>15. ~SyncFinalized /\ ~CreateSegment /\ ~WriteHeader
    BY <2>2 DEF SyncFinalized, CreateSegment, WriteHeader
  <2> HIDE DEF Kept
  <2> QED BY <2>5, <2>6, <2>7, <2>8, <2>9, <2>10, <2>11, <2>12, <2>13, <2>14, <2>15
       DEF SignedNext
<1>4. CASE FlushDir /\ ~sealAcked'
  BY <1>4
<1> QED BY <1>1, <1>2, <1>3, <1>4

\* Nothing is ever appended behind log.sealed: once seal has returned Ok for a
\* segment no write had failed in, no failure, crash, power loss or later open of
\* a log of at most NameLimit + 1 segments takes it from the end of the log.
THEOREM SealCorrect ==
  ASSUME FewSegments
  PROVE  SignedSpec => []SealIsFinal
<1>1. SignedInit => SealInv
  BY DEF SignedInit, SealInv, SealStep
<1>2. SignedInv /\ SignedInv' /\ SealInv /\ [SignedNext]_signedVars => SealInv'
  BY NextSealInv
<1>3. SignedInv /\ SealInv => SealIsFinal
  <2> SUFFICES ASSUME SignedInv, SealInv, sealAcked PROVE SealIsFinal
    BY DEF SealIsFinal
  <2>1. PICK i \in Idx : SealedFile(i)
    BY DEF SealInv
  <2>2. i \in Listed /\ IsLatest(i)
    BY <2>1, LatestSegment DEF SealedFile
  <2> QED BY <2>1, <2>2 DEF SealIsFinal, SealedFile, EndsWith
<1> QED BY <1>1, <1>2, <1>3, SignedInvariance, PTL DEF SignedSpec

-----------------------------------------------------------------------------
(* The log as a whole.  No write ends half way in a file that its writer goes *)
(* on with, and what was written stays.                                      *)

NothingLost == Faults \cap {"short_write", "power_loss"} = {}

\* Only the last chunk of a file can be torn.
Tidy(s) == \A n \in 2..Len(s) : s[n].kind = "torn" => n = Len(s)

\* Where the whole chunks of a file end.
Ends(s) == IF LastChunk(s).kind = "torn" THEN Len(s) - 1 ELSE Len(s)

\* A segment that another one follows.
Whole(s) == HasHeader(s) /\ Len(s) > 1 /\ \A n \in 2..Len(s) : s[n].kind = "record"

\* The header h continues the segment s.
Continues(h, s) ==
  /\ h.prev_hash = HashOf(LastChunk(s))
  /\ h.datum.log_id = s[1].datum.log_id /\ h.datum.key_id = s[1].datum.key_id

Joined(f, i) ==
  IF i = 0 THEN f[0][1].prev_hash = ZeroHash ELSE Continues(f[i][1], f[i - 1])

\* The files f of the directory e are one log.
OneLog(f, e) ==
  /\ \A i \in Idx : /\ Tidy(f[i]) /\ FileOK(f[i], i)
                    /\ f[i] # << >> => HasHeader(f[i]) /\ i \in e
                    /\ HasHeader(f[i]) => Joined(f, i)
  /\ \A i, j \in Idx : i < j /\ HasHeader(f[j]) => Whole(f[i])

\* Nothing is behind segment i.
Topmost(f, i) == \A j \in Idx : j > i => f[j] = << >>

\* Where a writer is.
AtTop ==
  /\ pc \notin {"closed", "genesis"} =>
       /\ Topmost(file, cur.index)
       /\ pc \notin Writing => LastChunk(file[cur.index]).kind # "torn"
  /\ pc = "genesis" =>
       /\ \A j \in Idx : file[j] = << >>
       /\ cur.last_hash = ZeroHash /\ cur.next_record_id = 0

LEMMA IdxBelow ==
  ASSUME NEW i \in Idx
  PROVE  i \in Int /\ i >= 0 /\ i <= MaxIndex /\ (i # 0 => i - 1 \in Idx /\ i - 1 < i /\ i - 1 # i)
BY DEF Idx

LEMMA IdxOrder ==
  ASSUME NEW i \in Idx, NEW j \in Idx
  PROVE  /\ j < i \/ j = i \/ j > i
         /\ j < i => i # 0 /\ (j = i - 1 \/ j < i - 1) /\ j # i /\ ~(j > i)
         /\ j > i => j # i /\ ~(j <= i)
         /\ j <= i /\ j # i => j < i
BY DEF Idx

\* What a scan finds in a file of the log.
LEMMA EndsAt ==
  ASSUME NEW i \in Idx, NEW s \in Seq(Chunk), HasHeader(s), FileOK(s, i), Tidy(s)
  PROVE  /\ Ends(s) \in 1..Len(s)
         /\ \A n \in 2..Ends(s) : s[n].kind = "record" /\ Linked(s, n, i) /\ s[n].sig = s[1].datum.key_id
         /\ Ends(s) < Len(s) => Len(s) = Ends(s) + 1 /\ s[Len(s)].kind = "torn"
         /\ \A n \in 2..Len(s) : s[n].kind = "record" => n <= Ends(s)
<1>1. PICK z : z = Len(s)
  OBVIOUS
<1>2. z \in Nat /\ z >= 1 /\ s[1].kind = "header"
  BY <1>1 DEF HasHeader
<1>3. \A n \in 2..z : s[n] \in Chunk /\ s[n].kind # "header"
  BY <1>1 DEF FileOK
<1>4. \A n \in 2..z : s[n].kind \in {"torn", "record"}
  BY <1>3 DEF Chunk, Torn
<1>5. PICK e : e = Ends(s)
  OBVIOUS
<1>6. /\ e = IF s[z].kind = "torn" THEN z - 1 ELSE z
      /\ z = 1 => s[z].kind = "header"
  BY <1>1, <1>2, <1>5 DEF Ends, LastChunk
<1>7. e \in 1..z /\ (e < z => z = e + 1 /\ s[z].kind = "torn")
  BY <1>2, <1>6
<1>8. ASSUME NEW n \in 2..e PROVE s[n].kind = "record"
  <2>1. n \in 2..z
    BY <1>2, <1>7
  <2>2. s[n].kind = "torn" => n = z
    BY <1>1, <2>1 DEF Tidy
  <2>3. s[n].kind # "torn"
    BY <1>2, <1>6, <1>7, <2>2
  <2> QED BY <1>4, <2>1, <2>3
<1>9. ASSUME NEW n \in 2..e PROVE Linked(s, n, i) /\ s[n].sig = s[1].datum.key_id
  <2>1. n \in 2..z
    BY <1>2, <1>7
  <2>2. \A m \in 2..n : m \in 2..e
    BY <1>2, <1>7
  <2>3. \A m \in 2..n : s[m].kind = "record"
    BY <1>8, <2>2
  <2> QED BY <1>1, <2>1, <2>3 DEF FileOK
<1>10. ASSUME NEW n \in 2..z, s[n].kind = "record" PROVE n <= e
  BY <1>2, <1>6, <1>10
<1> QED BY <1>1, <1>5, <1>7, <1>8, <1>9, <1>10

LEMMA IntactTrims ==
  ASSUME NEW i \in Idx, NEW s \in Seq(Chunk), HasHeader(s), FileOK(s, i), Tidy(s)
  PROVE  /\ Intact(s, i) \in Seq(Chunk) /\ Len(Intact(s, i)) = Ends(s)
         /\ \A n \in 1..Ends(s) : Intact(s, i)[n] = s[n]
<1>1. PICK z, e, x : z = Len(s) /\ e = Ends(s) /\ x = ScanStop(s, i)
  OBVIOUS
<1>2. /\ e \in 1..z /\ z \in Nat
      /\ \A n \in 2..e : Linked(s, n, i)
      /\ e < z => z = e + 1 /\ s[z].kind = "torn"
  BY <1>1, EndsAt
<1>3. x \in 1..z /\ (\A n \in 2..x : Linked(s, n, i)) /\ (x < z => ~Linked(s, x + 1, i))
  BY <1>1, <1>2, ScanStops
<1>4. x = e
  <2>1. CASE x < e
    <3>1. x + 1 \in 2..e /\ x < z
      BY <1>2, <1>3, <2>1
    <3> QED BY <1>2, <1>3, <3>1
  <2>2. CASE x > e
    <3>1. x = z /\ z \in 2..x /\ s[z].kind = "torn"
      BY <1>2, <1>3, <2>2
    <3>2. Linked(s, z, i)
      BY <1>3, <3>1
    <3> QED BY <3>1, <3>2 DEF Linked
  <2> QED BY <1>2, <1>3, <2>1, <2>2
<1>5. Intact(s, i) = SubSeq(s, 1, e)
  BY <1>1, <1>4 DEF Intact
<1> QED BY <1>1, <1>2, <1>5

\* The last segment, or a new one behind it, becomes t.
LEMMA TopChange ==
  ASSUME NEW f \in [Idx -> Seq(Chunk)], NEW e, NEW d, OneLog(f, e), e \subseteq d,
         NEW i \in Idx, i \in d, Topmost(f, i),
         NEW t \in Seq(Chunk), HasHeader(t), Tidy(t), FileOK(t, i),
         HasHeader(f[i]) => t[1] = f[i][1],
         ~HasHeader(f[i]) => IF i = 0 THEN t[1].prev_hash = ZeroHash
                             ELSE Whole(f[i - 1]) /\ Continues(t[1], f[i - 1])
  PROVE  OneLog([f EXCEPT ![i] = t], d) /\ Topmost([f EXCEPT ![i] = t], i)
<1>1. PICK g : g = [f EXCEPT ![i] = t]
  OBVIOUS
<1>2. g[i] = t /\ \A j \in Idx : j # i => g[j] = f[j]
  BY <1>1
<1>3. i \in Int /\ \A j \in Idx : j \in Int /\ j >= 0
  BY DEF Idx
<1>4. ASSUME NEW j \in Idx, j > i PROVE ~HasHeader(g[j]) /\ g[j] = << >>
  BY <1>2, <1>3, <1>4 DEF Topmost, HasHeader
<1>5. ASSUME NEW j \in Idx, HasHeader(g[j]) PROVE Joined(g, j)
  <2>1. j < i \/ j = i
    BY <1>4, <1>5, IdxOrder
  <2>2. CASE j # i
    <3>0. j < i /\ g[j] = f[j]
      BY <1>2, <2>1, <2>2, IdxOrder
    <3>1. j # 0 => j - 1 \in Idx /\ j - 1 # i
      BY <3>0, IdxBelow
    <3>2. j # 0 => g[j - 1] = f[j - 1]
      BY <1>2, <3>1
    <3>3. Joined(f, j)
      BY <1>5, <3>0 DEF OneLog
    <3> QED BY <3>0, <3>1, <3>2, <3>3 DEF Joined
  <2>3. CASE j = i
    <3>1. i # 0 => i - 1 \in Idx /\ i - 1 # i
      BY IdxBelow
    <3>2. i # 0 => g[i - 1] = f[i - 1]
      BY <1>2, <3>1
    <3>3. IF i = 0 THEN t[1].prev_hash = ZeroHash ELSE Continues(t[1], f[i - 1])
      <4>1. CASE HasHeader(f[i])
        <5>1. Joined(f, i)
          BY <4>1 DEF OneLog
        <5> QED BY <4>1, <5>1 DEF Joined
      <4> QED BY <4>1
    <3> QED BY <1>2, <2>3, <3>2, <3>3 DEF Joined
  <2> QED BY <2>2, <2>3
<1>6. ASSUME NEW j \in Idx, NEW m \in Idx, j < m, HasHeader(g[m]) PROVE Whole(g[j])
  <2>1. (m < i \/ m = i) /\ j # i
    <3>1. m < i \/ m = i
      BY <1>4, <1>6, IdxOrder
    <3> QED BY <1>3, <1>6, <3>1
  <2>2. g[j] = f[j]
    BY <1>2, <2>1
  <2>3. CASE HasHeader(f[m])
    BY <1>6, <2>2, <2>3 DEF OneLog
  <2>4. CASE ~HasHeader(f[m])
    <3>1. m = i /\ i # 0
      BY <1>2, <1>3, <1>6, <2>4
    <3>2. Whole(f[i - 1]) /\ i - 1 \in Idx
      BY <2>4, <3>1, IdxBelow
    <3>3. j = i - 1 \/ j < i - 1
      BY <1>6, <3>1, IdxOrder
    <3>4. Whole(f[j])
      <4>1. HasHeader(f[i - 1])
        BY <3>2 DEF Whole
      <4> QED BY <3>2, <3>3, <4>1 DEF OneLog
    <3> QED BY <2>2, <3>4
  <2> QED BY <2>3, <2>4
<1>7. ASSUME NEW j \in Idx
      PROVE  Tidy(g[j]) /\ FileOK(g[j], j) /\ (g[j] # << >> => HasHeader(g[j]) /\ j \in d)
  <2>1. CASE j = i
    BY <1>2, <2>1
  <2>2. CASE j # i
    BY <1>2, <2>2 DEF OneLog
  <2> QED BY <2>1, <2>2
<1>8. OneLog(g, d)
  BY <1>5, <1>6, <1>7 DEF OneLog
<1>9. Topmost(g, i)
  BY <1>4 DEF Topmost
<1> QED BY <1>1, <1>8, <1>9

-----------------------------------------------------------------------------
(* The chain of the whole log. *)

\* The end of the chain as the last segment s has it.
Tip(s) == IF Ends(s) > 1 THEN HashOf(s[Ends(s)]) ELSE s[1].prev_hash

IsTip(f, h) ==
  /\ \A i \in Idx : HasHeader(f[i]) /\ Topmost(f, i) => h = Tip(f[i])
  /\ (\A i \in Idx : f[i] = << >>) => h = ZeroHash

\* The chain h commits to the record c.
Commits(h, c) == IsPrefixOf(HashOf(c), h) /\ c.datum.event # "header"

\* Every record in the files f is one the chain h commits to.
Genuine(f, h) ==
  \A i \in Idx : \A n \in 2..Len(f[i]) : f[i][n].kind = "record" => Commits(h, f[i][n])

SameSigner(d, e) == d.log_id = e.log_id /\ d.key_id = e.key_id

Owner(f, h) == h # << >> => \A i \in Idx : HasHeader(f[i]) => SameSigner(f[i][1].datum, h[1])

\* The place of d in a log is before that of e.
Precedes(d, e) ==
  \/ d.segment_index < e.segment_index
  \/ /\ d.segment_index = e.segment_index /\ e.event # "header"
     /\ d.event = "header" \/ d.record_id < e.record_id

Orderly(h) ==
  /\ \A m, n \in 1..Len(h) : m < n => Precedes(h[m], h[n])
  /\ \A n \in 1..Len(h) : SameSigner(h[n], h[1])

ChainInv ==
  /\ chain \in Hash /\ Orderly(chain)
  /\ Genuine(file, chain) /\ IsTip(file, chain) /\ Owner(file, chain)
  /\ cur.next_record_id > 0 => IsPrefixOf(cur.last_hash, chain)

ChainStep ==
  chain' = IF cur'.next_record_id > 0 /\ Len(cur'.last_hash) > Len(chain)
           THEN cur'.last_hash ELSE chain

LogInv == OneLog(file, entries) /\ AtTop /\ ChainInv

LEMMA PrefixLaws ==
  ASSUME NEW a \in Hash, NEW b \in Hash, NEW c \in Hash
  PROVE  /\ IsPrefixOf(a, a)
         /\ IsPrefixOf(a, b) /\ IsPrefixOf(b, c) => IsPrefixOf(a, c)
         /\ IsPrefixOf(a, b) => ~(Len(a) > Len(b))
         /\ IsPrefixOf(a, b) /\ Len(a) = Len(b) => a = b
<1>0. a \in Seq(Datum) /\ b \in Seq(Datum) /\ c \in Seq(Datum)
  BY DEF Hash
<1>1. Len(a) \in Nat /\ Len(b) \in Nat /\ Len(c) \in Nat
  BY <1>0
<1>2. IsPrefixOf(a, b) /\ IsPrefixOf(b, c) => IsPrefixOf(a, c)
  BY <1>1 DEF IsPrefixOf
<1>3. IsPrefixOf(a, b) /\ Len(a) = Len(b) => a = b
  BY <1>0, <1>1 DEF IsPrefixOf
<1> QED BY <1>1, <1>2, <1>3 DEF IsPrefixOf

LEMMA PrefixAppend ==
  ASSUME NEW a \in Hash, NEW d \in Datum
  PROVE  /\ Append(a, d) \in Hash /\ IsPrefixOf(a, Append(a, d)) /\ Len(Append(a, d)) = Len(a) + 1
         /\ Append(a, d)[Len(a) + 1] = d /\ Len(a) \in Nat
         /\ \A n \in 1..Len(a) : Append(a, d)[n] = a[n]
<1>0. a \in Seq(Datum)
  BY DEF Hash
<1> QED BY <1>0 DEF Hash, IsPrefixOf

\* A step that appends no record keeps the chain.
LEMMA ChainKept ==
  ASSUME chain \in Hash, ChainStep, cur'.last_hash \in Hash,
         cur'.next_record_id > 0 => IsPrefixOf(cur'.last_hash, chain)
  PROVE  chain' = chain
<1>1. cur'.next_record_id > 0 => ~(Len(cur'.last_hash) > Len(chain))
  BY PrefixLaws
<1> QED BY <1>1 DEF ChainStep

LEMMA CurTypes ==
  ASSUME SignedInv
  PROVE  /\ file \in [Idx -> Seq(Chunk)] /\ entries \subseteq Idx
         /\ cur.index \in Idx /\ cur.last_hash \in Hash /\ cur.next_record_id \in Nat
         /\ \A i \in Idx : file[i] \in Seq(Chunk) /\ Len(file[i]) \in Nat
BY DEF SignedInv, SignedTypeOK, WriterType

\* Steps that leave the files alone.
LEMMA QuietLog ==
  ASSUME SignedInv, SignedInv', LogInv, ChainStep, file' = file, entries \subseteq entries',
         \/ pc' = "closed" /\ cur'.next_record_id = 0
         \/ /\ pc \notin {"closed", "genesis"} /\ pc' \notin {"closed", "genesis"}
            /\ cur'.index = cur.index /\ cur'.last_hash = cur.last_hash
            /\ cur'.next_record_id = cur.next_record_id
            /\ pc' \notin Writing => pc \notin Writing
  PROVE  LogInv' /\ chain' = chain
<1>1. cur'.last_hash \in Hash
  BY DEF SignedInv, SignedTypeOK, WriterType
<1>2. cur'.next_record_id > 0 => IsPrefixOf(cur'.last_hash, chain)
  BY DEF LogInv, ChainInv
<1>3. chain' = chain
  BY <1>1, <1>2, ChainKept DEF LogInv, ChainInv
<1>4. OneLog(file', entries')
  BY DEF LogInv, OneLog
<1>5. AtTop'
  BY DEF LogInv, AtTop
<1>6. ChainInv'
  BY <1>2, <1>3 DEF LogInv, ChainInv
<1> QED BY <1>3, <1>4, <1>5, <1>6 DEF LogInv

\* A file that loses its torn tail, or nothing.
Trims(t, s) == Len(t) = Ends(s) /\ \A n \in 1..Ends(s) : t[n] = s[n]

LEMMA TrimsFile ==
  ASSUME NEW i \in Idx, NEW s \in Seq(Chunk), HasHeader(s), FileOK(s, i), Tidy(s),
         NEW t \in Seq(Chunk), t = s \/ Trims(t, s)
  PROVE  /\ HasHeader(t) /\ t[1] = s[1] /\ Tidy(t) /\ FileOK(t, i) /\ Tip(t) = Tip(s)
         /\ IsPrefixOf(t, s)
         /\ Trims(t, s) => Ends(t) = Len(t) /\ LastChunk(t).kind # "torn"
<1>1. CASE t = s
  <2>1. IsPrefixOf(t, s)
    BY <1>1 DEF IsPrefixOf
  <2>2. Trims(t, s) => LastChunk(t).kind # "torn"
    <3>1. Ends(s) \in 1..Len(s)
      BY EndsAt
    <3> QED BY <1>1, <3>1 DEF Trims, Ends
  <2> QED BY <1>1, <2>1, <2>2 DEF Ends
<1>2. CASE Trims(t, s)
  <2>1. PICK z, e : z = Len(s) /\ e = Ends(s)
    OBVIOUS
  <2>2. /\ e \in 1..z /\ z \in Nat /\ (\A n \in 2..e : s[n].kind = "record")
        /\ Len(t) = e /\ \A n \in 1..e : t[n] = s[n]
    BY <1>2, <2>1, EndsAt DEF Trims
  <2>3. t[1] = s[1] /\ HasHeader(t) /\ s[1].kind = "header"
    BY <2>2 DEF HasHeader
  <2>4. \A n \in 2..e : t[n].kind = "record"
    BY <2>2
  <2>5. LastChunk(t).kind # "torn" /\ Tidy(t)
    <3>1. t[e].kind # "torn"
      BY <2>2, <2>3, <2>4
    <3> QED BY <2>2, <2>4, <3>1 DEF LastChunk, Tidy
  <2>6. Ends(t) = e
    BY <2>2, <2>5 DEF Ends
  <2>7. Tip(t) = Tip(s)
    BY <2>1, <2>2, <2>3, <2>6 DEF Tip
  <2>8. IsPrefixOf(t, s)
    BY <2>1, <2>2 DEF IsPrefixOf
  <2>9. FileOK(t, i)
    BY <2>8, FileOKPrefix
  <2> QED BY <2>2, <2>3, <2>5, <2>6, <2>7, <2>8, <2>9
<1> QED BY <1>1, <1>2

\* The last segment changes behind its whole records, if it changes.
LEMMA ChainSame ==
  ASSUME NEW f \in [Idx -> Seq(Chunk)], NEW i \in Idx, Topmost(f, i), HasHeader(f[i]),
         NEW t \in Seq(Chunk), HasHeader(t), t[1] = f[i][1], Tip(t) = Tip(f[i]),
         \A n \in 2..Len(t) : t[n].kind = "record" => \E m \in 2..Len(f[i]) : f[i][m] = t[n],
         NEW h, Genuine(f, h), IsTip(f, h), Owner(f, h)
  PROVE  Genuine([f EXCEPT ![i] = t], h) /\ IsTip([f EXCEPT ![i] = t], h)
         /\ Owner([f EXCEPT ![i] = t], h)
<1>1. PICK g : g = [f EXCEPT ![i] = t]
  OBVIOUS
<1>2. g[i] = t /\ \A j \in Idx : j # i => g[j] = f[j]
  BY <1>1
<1>3. ASSUME NEW j \in Idx, NEW n \in 2..Len(g[j]), g[j][n].kind = "record"
      PROVE  Commits(h, g[j][n])
  <2>1. CASE j = i
    <3>1. PICK m \in 2..Len(f[i]) : f[i][m] = t[n]
      BY <1>2, <1>3, <2>1
    <3> QED BY <1>2, <1>3, <2>1, <3>1 DEF Genuine
  <2>2. CASE j # i
    BY <1>2, <1>3, <2>2 DEF Genuine
  <2> QED BY <2>1, <2>2
<1>4. ASSUME NEW j \in Idx, HasHeader(g[j]), Topmost(g, j) PROVE h = Tip(g[j])
  <2>1. j = i
    <3>1. ~(j > i)
      BY <1>2, <1>4, IdxOrder DEF Topmost, HasHeader
    <3>2. ~(i > j)
      BY <1>2, <1>4 DEF Topmost, HasHeader
    <3> QED BY <3>1, <3>2, IdxOrder
  <2> QED BY <1>2, <2>1 DEF IsTip
<1>5. ~(\A j \in Idx : g[j] = << >>)
  BY <1>2 DEF HasHeader
<1>6. Owner(g, h)
  BY <1>2 DEF Owner
<1>7. Genuine(g, h) /\ IsTip(g, h)
  BY <1>3, <1>4, <1>5 DEF Genuine, IsTip
<1> QED BY <1>1, <1>6, <1>7

\* An open that scans the last segment cuts off a torn tail, or nothing.
LEMMA RepairLog ==
  ASSUME SignedInv, FewSegments, LogInv, NEW k, NEW i, IsLatest(i),
         file' = [file EXCEPT ![i] = Repaired(i, k)], entries' = entries
  PROVE  /\ i \in Idx /\ Topmost(file, i) /\ Topmost(file', i) /\ OneLog(file', entries')
         /\ Genuine(file', chain) /\ IsTip(file', chain) /\ Owner(file', chain)
         /\ Repaired(i, k) = Intact(file[i], i) /\ HasHeader(file[i]) =>
              /\ Trims(file'[i], file[i]) /\ LastChunk(file'[i]).kind # "torn"
<1>1. i \in entries /\ i \in Idx /\ \A j \in entries : j <= i
  BY LatestSegment, CurTypes
<1>2. file \in [Idx -> Seq(Chunk)] /\ OneLog(file, entries)
  BY CurTypes DEF LogInv
<1>3. Topmost(file, i)
  <2> SUFFICES ASSUME NEW j \in Idx, j > i PROVE file[j] = << >>
    BY DEF Topmost
  <2>1. j \notin entries
    BY <1>1, IdxOrder
  <2> QED BY <1>2, <2>1 DEF OneLog
<1>4. PICK s, t : s = file[i] /\ t = Repaired(i, k)
  OBVIOUS
<1>5. s \in Seq(Chunk) /\ t \in Seq(Chunk) /\ (t = s \/ t = Intact(s, i))
  BY <1>1, <1>2, <1>4, RepairedFile DEF Repaired
<1>6. file'[i] = t
  BY <1>1, <1>2, <1>4
<1>7. CASE ~HasHeader(s)
  <2>1. s = << >>
    BY <1>1, <1>2, <1>4, <1>7 DEF OneLog
  <2>2. t = s
    BY <1>5, <1>7, <2>1 DEF Intact
  <2>3. file' = file
    BY <1>1, <1>2, <1>4, <2>2
  <2> QED BY <1>1, <1>2, <1>3, <1>4, <1>7, <2>3 DEF LogInv, ChainInv
<1>8. CASE HasHeader(s)
  <2>1. FileOK(s, i) /\ Tidy(s)
    BY <1>1, <1>2, <1>4 DEF OneLog
  <2>2. t = s \/ Trims(t, s)
    BY <1>1, <1>5, <1>8, <2>1, IntactTrims DEF Trims
  <2>3. /\ HasHeader(t) /\ t[1] = s[1] /\ Tidy(t) /\ FileOK(t, i) /\ Tip(t) = Tip(s)
        /\ IsPrefixOf(t, s) /\ (Trims(t, s) => LastChunk(t).kind # "torn")
    BY <1>1, <1>5, <1>8, <2>1, <2>2, TrimsFile
  <2>4. OneLog(file', entries') /\ Topmost(file', i)
    BY <1>1, <1>2, <1>3, <1>4, <1>5, <1>8, <2>3, TopChange
  <2>5. ASSUME NEW n \in 2..Len(t) PROVE \E m \in 2..Len(s) : s[m] = t[n]
    <3>1. n \in 2..Len(s) /\ t[n] = s[n]
      BY <1>5, <2>3 DEF IsPrefixOf
    <3> QED BY <3>1
  <2>6. Genuine(file', chain) /\ IsTip(file', chain) /\ Owner(file', chain)
    BY <1>1, <1>2, <1>3, <1>4, <1>5, <1>8, <2>3, <2>5, ChainSame DEF LogInv, ChainInv
  <2>7. t = Intact(s, i) => Trims(t, s)
    BY <1>1, <1>5, <1>8, <2>1, IntactTrims DEF Trims
  <2> QED BY <1>1, <1>3, <1>4, <1>6, <2>3, <2>4, <2>6, <2>7
<1> QED BY <1>4, <1>7, <1>8

LEMMA OpenFailsLog ==
  ASSUME SignedInv, SignedInv', FewSegments, LogInv, ChainStep, NEW k \in Keys,
         OpenRefused(k) \/ RepairFails(k)
  PROVE  LogInv' /\ chain' = chain
<1>1. PICK i : /\ IsLatest(i) /\ file' = [file EXCEPT ![i] = Repaired(i, k)]
               /\ entries' = entries /\ pc' = "closed" /\ cur' = cur /\ pc = "closed"
  BY DEF OpenRefused, RepairFails, Scan
<1>2. /\ OneLog(file', entries') /\ Genuine(file', chain) /\ IsTip(file', chain)
      /\ Owner(file', chain)
  BY <1>1, RepairLog
<1>3. cur'.last_hash \in Hash /\ (cur'.next_record_id > 0 => IsPrefixOf(cur'.last_hash, chain))
  BY <1>1, CurTypes DEF LogInv, ChainInv
<1>4. chain' = chain
  BY <1>3, ChainKept DEF LogInv, ChainInv
<1>5. AtTop'
  BY <1>1 DEF AtTop
<1> QED BY <1>2, <1>3, <1>4, <1>5 DEF LogInv, ChainInv

LEMMA OpenAcceptedLog ==
  ASSUME SignedInv, SignedInv', FewSegments, LogInv, ChainStep, NEW k \in Keys, OpenAccepted(k)
  PROVE  LogInv' /\ chain' = chain
<1>1. PICK i \in Listed :
        /\ OpenRefusal(i, k) = "none" /\ Scan(i, k)
        /\ cur' = WriterOn(i, Repaired(i, k), TimeAnchor(i))
        /\ pc' \in {"create", "ready"}
  BY DEF OpenAccepted
<1>2. /\ IsLatest(i) /\ file' = [file EXCEPT ![i] = Repaired(i, k)] /\ entries' = entries
  BY <1>1 DEF Scan
<1>3. Repaired(i, k) = Intact(file[i], i) /\ HasHeader(file[i])
  BY <1>1, OpenChecks
<1>4. PICK s, t : s = file[i] /\ t = Repaired(i, k)
  OBVIOUS
<1>5. /\ i \in Idx /\ Topmost(file', i) /\ OneLog(file', entries')
      /\ Genuine(file', chain) /\ IsTip(file', chain) /\ Owner(file', chain)
      /\ Trims(file'[i], s) /\ LastChunk(file'[i]).kind # "torn"
  BY <1>2, <1>3, <1>4, RepairLog
<1>6. file'[i] = t /\ t \in Seq(Chunk) /\ s \in Seq(Chunk)
  BY <1>2, <1>4, <1>5, CurTypes, RepairedFile
<1>7. cur'.index = i /\ cur'.last_hash = HashOf(LastChunk(t)) /\ cur'.next_record_id = Len(t) - 1
  BY <1>1, <1>4 DEF WriterOn
<1>8. AtTop'
  BY <1>1, <1>5, <1>7 DEF AtTop, Writing
<1>9. cur'.next_record_id > 0 => IsPrefixOf(cur'.last_hash, chain)
  <2> SUFFICES ASSUME cur'.next_record_id > 0 PROVE IsPrefixOf(HashOf(LastChunk(t)), chain)
    BY <1>7
  <2>1. PICK z : z = Len(t)
    OBVIOUS
  <2>2. z \in Nat /\ z \in 2..Len(t)
    BY <1>6, <1>7, <2>1
  <2>3. FileOK(t, i)
    BY <1>5, <1>6 DEF OneLog
  <2>4. t[z] \in Chunk /\ t[z].kind # "header" /\ t[z].kind # "torn"
    BY <1>5, <1>6, <2>1, <2>2, <2>3 DEF FileOK, LastChunk
  <2>5. t[z].kind = "record"
    BY <2>4 DEF Chunk, Torn
  <2> QED BY <1>5, <1>6, <2>1, <2>2, <2>5 DEF Genuine, Commits, LastChunk
<1>10. cur'.last_hash \in Hash
  BY DEF SignedInv, SignedTypeOK, WriterType
<1>11. chain' = chain
  BY <1>9, <1>10, ChainKept DEF LogInv, ChainInv
<1> QED BY <1>5, <1>8, <1>9, <1>11 DEF LogInv, ChainInv

LEMMA OpenFreshLog ==
  ASSUME SignedInv, SignedInv', FewSegments, LogInv, ChainStep, NEW k \in Keys, NEW l \in LogIds,
         OpenFresh(k, l)
  PROVE  LogInv' /\ chain' = chain
<1>1. /\ entries = {} /\ file' = [file EXCEPT ![0] = << >>] /\ entries' = entries \cup {0}
      /\ cur' = [NoWriter EXCEPT !.key_id = k, !.log_id = l] /\ pc' = "genesis"
  BY LatestSegment DEF OpenFresh
<1>2. \A j \in Idx : file[j] = << >>
  BY <1>1 DEF LogInv, OneLog
<1>3. file' = file
  BY <1>1, <1>2, CurTypes
<1>4. cur'.last_hash = ZeroHash /\ cur'.next_record_id = 0
  BY <1>1 DEF NoWriter
<1>5. cur'.last_hash \in Hash
  BY DEF SignedInv, SignedTypeOK, WriterType
<1>6. chain' = chain
  BY <1>4, <1>5, ChainKept DEF LogInv, ChainInv
<1>7. AtTop'
  BY <1>1, <1>2, <1>3, <1>4 DEF AtTop
<1>8. OneLog(file', entries')
  BY <1>1, <1>3 DEF LogInv, OneLog
<1> QED BY <1>3, <1>4, <1>6, <1>7, <1>8 DEF LogInv, ChainInv

LEMMA BeginWriteLog ==
  ASSUME SignedInv, SignedInv', LogInv, SealStep, ChainStep, BeginWrite
  PROVE  LogInv' /\ chain' = chain
<1>1. PICK i, s, t, z : i = cur.index /\ s = file[i] /\ t = Append(s, Torn) /\ z = Len(s)
  OBVIOUS
<1>2. i \in Idx /\ s \in Seq(Chunk) /\ z \in Nat /\ file \in [Idx -> Seq(Chunk)]
  BY <1>1, CurTypes
<1>3. /\ file' = [file EXCEPT ![i] = t] /\ pc \in {"fin", "rec", "seal"} /\ pc' \in Writing
      /\ UNCHANGED <<entries, cur>>
  BY <1>1, WriteSteps DEF BeginWrite
<1>4. /\ OneLog(file, entries) /\ Topmost(file, i) /\ LastChunk(s).kind # "torn" /\ i \in entries
  BY <1>1, <1>3 DEF LogInv, AtTop, Writing, SealStep
<1>5. Written = z /\ z >= 1 /\ s[1].kind = "header"
  BY <1>1, <1>3, WriteSteps DEF Written, Writing, SignedInv, SignedWriterAgrees
<1>6. HasHeader(s) /\ FileOK(s, i) /\ Tidy(s)
  BY <1>1, <1>2, <1>4, <1>5 DEF OneLog, HasHeader
<1>7. /\ t \in Seq(Chunk) /\ Len(t) = z + 1 /\ t[z + 1] = Torn
      /\ \A m \in 1..z : t[m] = s[m]
  BY <1>1, <1>2, TornType
<1>8. FileOK(t, i) /\ t[1] = s[1] /\ HasHeader(t)
  <2>1. FileOK(t, i)
    BY <1>1, <1>2, <1>6, FileOKTorn
  <2>2. 1 \in 1..z /\ Len(t) # 0
    BY <1>2, <1>5, <1>7
  <2>3. t[1] = s[1] /\ t # << >>
    BY <1>7, <2>2
  <2> QED BY <1>5, <2>1, <2>3 DEF HasHeader
<1>9. s[z].kind # "torn"
  BY <1>1, <1>4 DEF LastChunk
<1>10. Tidy(t)
  <2> SUFFICES ASSUME NEW n \in 2..(z + 1), t[n].kind = "torn", n # z + 1 PROVE FALSE
    BY <1>7 DEF Tidy
  <2>1. n \in 2..z /\ t[n] = s[n]
    BY <1>2, <1>7
  <2>2. n = z
    BY <1>1, <1>6, <2>1 DEF Tidy
  <2> QED BY <1>9, <2>1, <2>2
<1>11. Ends(s) = z /\ Ends(t) = z
  <2>1. LastChunk(t) = Torn /\ Torn.kind = "torn"
    BY <1>7 DEF LastChunk, Torn
  <2> QED BY <1>1, <1>2, <1>4, <1>7, <2>1 DEF Ends
<1>12. Tip(t) = Tip(s)
  BY <1>2, <1>5, <1>7, <1>8, <1>11 DEF Tip
<1>13. ASSUME NEW n \in 2..Len(t), t[n].kind = "record" PROVE \E m \in 2..Len(s) : s[m] = t[n]
  <2>1. n # z + 1
    BY <1>7, <1>13 DEF Torn
  <2>2. n \in 2..Len(s) /\ s[n] = t[n]
    BY <1>1, <1>2, <1>7, <2>1
  <2> QED BY <2>2
<1>14. OneLog(file', entries') /\ Topmost(file', i)
  BY <1>1, <1>2, <1>3, <1>4, <1>6, <1>7, <1>8, <1>10, TopChange
<1>15. Genuine(file', chain) /\ IsTip(file', chain) /\ Owner(file', chain)
  <2>1. Genuine(file, chain) /\ IsTip(file, chain) /\ Owner(file, chain)
    BY DEF LogInv, ChainInv
  <2>2. Topmost(file, i) /\ HasHeader(file[i]) /\ t[1] = file[i][1] /\ Tip(t) = Tip(file[i])
        /\ \A n \in 2..Len(t) : t[n].kind = "record" => \E m \in 2..Len(file[i]) : file[i][m] = t[n]
    BY <1>1, <1>4, <1>6, <1>8, <1>12, <1>13
  <2> QED BY <1>2, <1>3, <1>7, <1>8, <2>1, <2>2, ChainSame
<1>16. chain' = chain
  BY <1>3, CurTypes, ChainKept DEF LogInv, ChainInv
<1>17. AtTop'
  BY <1>1, <1>3, <1>14 DEF AtTop, Writing
<1> QED BY <1>3, <1>14, <1>15, <1>16, <1>17 DEF LogInv, ChainInv

LEMMA DatumTypes ==
  ASSUME NEW d \in Datum
  PROVE  /\ d.segment_index \in Int /\ d.record_id \in Int /\ d.segment_index \in Idx
BY DEF Datum, Idx

LEMMA PrecedesLaws ==
  ASSUME NEW a \in Datum, NEW b \in Datum, NEW c \in Datum
  PROVE  /\ Precedes(a, b) /\ Precedes(b, c) => Precedes(a, c)
         /\ Precedes(a, b) => ~Precedes(b, a) \/ (a.event = "header" /\ b.event = "header")
<1>1. /\ a.segment_index \in Int /\ b.segment_index \in Int /\ c.segment_index \in Int
      /\ a.record_id \in Int /\ b.record_id \in Int /\ c.record_id \in Int
  BY DatumTypes
<1> QED BY <1>1 DEF Precedes

LEMMA HashEntry ==
  ASSUME NEW h \in Hash
  PROVE  /\ Len(h) \in Nat /\ \A n \in 1..Len(h) : h[n] \in Datum
         /\ h # << >> => Len(h) >= 1 /\ Len(h) \in 1..Len(h) /\ 1 \in 1..Len(h)
         /\ h = << >> => Len(h) = 0
<1>1. h \in Seq(Datum)
  BY DEF Hash
<1> QED BY <1>1

\* What a hash ends with.
LEMMA HashOfLast ==
  ASSUME NEW c \in Chunk, c.kind \in {"header", "record"}
  PROVE  /\ HashOf(c) \in Hash /\ HashOf(c) # << >> /\ HashOf(c)[Len(HashOf(c))] = c.datum
         /\ IsPrefixOf(c.prev_hash, HashOf(c)) /\ Len(HashOf(c)) = Len(c.prev_hash) + 1
<1>1. PICK a, d, h : a = c.prev_hash /\ d = c.datum /\ h = HashOf(c)
  OBVIOUS
<1>2. a \in Hash /\ d \in Datum /\ h = Append(a, d)
  BY <1>1, ChunkFields DEF HashOf
<1>3. /\ h \in Hash /\ IsPrefixOf(a, h) /\ Len(h) = Len(a) + 1 /\ h[Len(a) + 1] = d
      /\ Len(a) \in Nat
  BY <1>2, PrefixAppend
<1>4. h # << >>
  BY <1>3, HashEntry
<1> QED BY <1>1, <1>3, <1>4

\* A datum behind the last one of an orderly chain.
LEMMA OrderlyAppend ==
  ASSUME NEW h \in Hash, Orderly(h), NEW d \in Datum,
         h # << >> => Precedes(h[Len(h)], d) /\ SameSigner(d, h[1])
  PROVE  Orderly(Append(h, d))
<1>1. PICK z, g : z = Len(h) /\ g = Append(h, d)
  OBVIOUS
<1>2. /\ z \in Nat /\ Len(g) = z + 1 /\ g[z + 1] = d /\ \A n \in 1..z : g[n] = h[n] /\ h[n] \in Datum
  BY <1>1, PrefixAppend, HashEntry
<1>3. z = 0 \/ (h # << >> /\ z \in 1..z /\ 1 \in 1..z)
  BY <1>1, HashEntry
<1>4. ASSUME NEW m \in 1..(z + 1), NEW n \in 1..(z + 1), m < n PROVE Precedes(g[m], g[n])
  <2>1. m \in 1..z /\ m \in Int /\ n \in Int
    BY <1>2, <1>4
  <2>2. CASE n \in 1..z
    <3>1. Precedes(h[m], h[n])
      BY <1>1, <1>4, <2>1, <2>2 DEF Orderly
    <3> QED BY <1>2, <2>1, <2>2, <3>1
  <2>3. CASE n = z + 1
    <3>1. Precedes(h[z], d) /\ h[z] \in Datum /\ h[m] \in Datum
      BY <1>1, <1>2, <1>3, <2>1
    <3>2. m = z \/ (m < z /\ z \in 1..z)
      BY <1>2, <2>1
    <3>3. m = z \/ Precedes(h[m], h[z])
      BY <1>1, <2>1, <3>2 DEF Orderly
    <3>4. Precedes(h[m], d)
      BY <3>1, <3>3, PrecedesLaws
    <3> QED BY <1>2, <2>1, <2>3, <3>4
  <2> QED BY <1>2, <2>1, <2>2, <2>3
<1>5. ASSUME NEW n \in 1..(z + 1) PROVE SameSigner(g[n], g[1])
  <2>1. CASE z = 0
    <3>1. n = 1
      BY <2>1
    <3> QED BY <3>1 DEF SameSigner
  <2>2. CASE z # 0
    <3>1. g[1] = h[1] /\ SameSigner(d, h[1])
      BY <1>2, <1>3, <2>2
    <3>2. CASE n \in 1..z
      <4>1. SameSigner(h[n], h[1])
        BY <1>1, <3>2 DEF Orderly
      <4> QED BY <1>2, <3>1, <3>2, <4>1
    <3>3. CASE n = z + 1
      BY <1>2, <3>1, <3>3
    <3> QED BY <1>2, <3>2, <3>3
  <2> QED BY <2>1, <2>2
<1> QED BY <1>1, <1>2, <1>4, <1>5 DEF Orderly

\* What a completed frame adds to the chain: itself, and the header before it.
Grows(h, g, d) ==
  /\ IsPrefixOf(h, g)
  /\ \A n \in 1..Len(g) : n > Len(h) => g[n].event = "header" \/ (n = Len(g) /\ g[n] = d)

\* A frame is completed behind the last whole chunk of the last segment.
LEMMA ChainGrows ==
  ASSUME NEW f \in [Idx -> Seq(Chunk)], NEW e, OneLog(f, e), NEW i \in Idx, Topmost(f, i),
         NEW s, s = f[i], HasHeader(s),
         NEW h \in Hash, Orderly(h), Genuine(f, h), IsTip(f, h), Owner(f, h),
         NEW d \in Datum, d.segment_index = i, d.event # "header",
         d.record_id = Ends(s) - 1, SameSigner(d, s[1].datum)
  PROVE  LET g == Append(HashOf(s[Ends(s)]), d) IN
         /\ g \in Hash /\ Orderly(g) /\ IsPrefixOf(h, g) /\ Len(g) > Len(h)
         /\ Owner(f, g)
         /\ Grows(h, g, d)
<1>1. PICK z, a, b, g : z = Ends(s) /\ a = s[1].datum /\ b = HashOf(s[z]) /\ g = Append(b, d)
  OBVIOUS
<1>2. /\ s \in Seq(Chunk) /\ FileOK(s, i) /\ Tidy(s) /\ h = Tip(s)
  BY DEF OneLog, IsTip
<1>3. /\ z \in 1..Len(s) /\ z \in Nat /\ 1 \in 1..Len(s)
      /\ \A n \in 2..z : s[n].kind = "record" /\ Linked(s, n, i)
  BY <1>1, <1>2, EndsAt
<1>4. /\ s[1] \in Chunk /\ s[1].kind = "header" /\ a \in Datum /\ s[1].prev_hash \in Hash
      /\ a.segment_index = i /\ a.event = "header"
  <2>1. s[1] \in Chunk /\ s[1].kind = "header"
    BY <1>2, <1>3 DEF HasHeader
  <2>2. s[1].datum = HeaderDatum(i, s[1].datum.log_id, s[1].datum.key_id)
    BY <1>2 DEF FileOK
  <2> QED BY <1>1, <2>1, <2>2, ChunkFields DEF HeaderDatum
<1>5. h # << >> => SameSigner(a, h[1]) /\ SameSigner(d, h[1])
  BY <1>1 DEF Owner, SameSigner
<1>6. CASE z > 1
  <2>1. z \in 2..z /\ s[z].kind = "record" /\ s[z] \in Chunk /\ Linked(s, z, i)
    BY <1>2, <1>3, <1>6
  <2>2. h = b /\ h # << >> /\ h[Len(h)] = s[z].datum
    <3>1. h = b
      BY <1>1, <1>2, <1>6 DEF Tip
    <3>2. HashOf(s[z]) # << >> /\ HashOf(s[z])[Len(HashOf(s[z]))] = s[z].datum
      BY <2>1, HashOfLast
    <3> QED BY <1>1, <3>1, <3>2
  <2>3. Precedes(s[z].datum, d)
    <3>1. s[z].datum.segment_index = i /\ s[z].datum.record_id = z - 2 /\ d.record_id = z - 1
      BY <1>1, <2>1 DEF Linked
    <3> QED BY <1>3, <3>1 DEF Precedes
  <2>4. Orderly(g)
    BY <1>1, <1>5, <2>2, <2>3, OrderlyAppend
  <2>5. /\ g \in Hash /\ IsPrefixOf(h, g) /\ Len(g) = Len(h) + 1 /\ Len(h) \in Nat
        /\ g[Len(h) + 1] = d
    BY <1>1, <2>2, PrefixAppend
  <2>6. g[1] = h[1]
    BY <2>2, <2>5, HashEntry DEF IsPrefixOf
  <2>7. Owner(f, g)
    BY <2>2, <2>6 DEF Owner
  <2>8. \A n \in 1..Len(g) : n > Len(h) => n = Len(g) /\ g[n] = d
    BY <2>5
  <2> QED BY <1>1, <2>4, <2>5, <2>7, <2>8 DEF Grows
<1>7. CASE ~(z > 1)
  <2>1. z = 1 /\ h = s[1].prev_hash /\ b = Append(h, a)
    <3>1. z = 1
      BY <1>3, <1>7
    <3> QED BY <1>1, <1>2, <1>7, <3>1 DEF Tip, HashOf
  <2>2. /\ b \in Hash /\ IsPrefixOf(h, b) /\ Len(b) = Len(h) + 1 /\ Len(h) \in Nat
        /\ b[Len(h) + 1] = a
    BY <1>4, <2>1, PrefixAppend
  <2>3. i # 0 => /\ i - 1 \in Idx /\ h # << >> /\ h[Len(h)].segment_index < i
                 /\ h[Len(h)].segment_index = i - 1
    <3> SUFFICES ASSUME i # 0
                 PROVE  /\ i - 1 \in Idx /\ h # << >> /\ h[Len(h)].segment_index < i
                        /\ h[Len(h)].segment_index = i - 1
      OBVIOUS
    <3>1. i - 1 \in Idx /\ i - 1 < i
      BY IdxBelow
    <3>2. Joined(f, i) /\ Whole(f[i - 1])
      BY <3>1 DEF OneLog
    <3>3. PICK j, t, y : j = i - 1 /\ t = f[j] /\ y = Len(t)
      OBVIOUS
    <3>4. j \in Idx /\ t \in Seq(Chunk) /\ FileOK(t, j) /\ Whole(t) /\ h = HashOf(t[y])
      BY <2>1, <3>1, <3>2, <3>3 DEF Joined, Continues, LastChunk, OneLog
    <3>5. y \in Nat /\ y \in 2..Len(t) /\ y \in 1..Len(t) /\ \A n \in 2..y : t[n].kind = "record"
      BY <3>3, <3>4 DEF Whole
    <3>6. Linked(t, y, j) /\ t[y] \in Chunk /\ t[y].kind = "record"
      BY <3>4, <3>5 DEF FileOK
    <3>8. h[Len(h)] = t[y].datum /\ h # << >>
      BY <3>4, <3>6, HashOfLast
    <3> QED BY <3>1, <3>3, <3>6, <3>8 DEF Linked
  <2>4. h # << >> => i # 0
    <3> SUFFICES ASSUME i = 0 PROVE h = << >>
      OBVIOUS
    <3>1. Joined(f, 0)
      BY DEF OneLog
    <3> QED BY <2>1, <3>1 DEF Joined, ZeroHash
  <2>5. h # << >> => Precedes(h[Len(h)], a)
    BY <1>4, <2>3, <2>4 DEF Precedes
  <2>6. Orderly(b)
    BY <1>4, <1>5, <2>1, <2>5, OrderlyAppend
  <2>7. b # << >> /\ b[Len(b)] = a /\ Precedes(a, d)
    BY <1>4, <2>2 DEF Precedes
  <2>8. SameSigner(d, b[1])
    <3>1. CASE h = << >>
      <4>1. b[1] = a
        BY <2>2, <3>1
      <4> QED BY <1>1, <4>1
    <3>2. CASE h # << >>
      <4>1. b[1] = h[1]
        BY <2>2, <3>2, HashEntry DEF IsPrefixOf
      <4> QED BY <1>5, <3>2, <4>1
    <3> QED BY <3>1, <3>2
  <2>9. Orderly(g)
    BY <1>1, <2>2, <2>6, <2>7, <2>8, OrderlyAppend
  <2>10. /\ g \in Hash /\ IsPrefixOf(b, g) /\ Len(g) = Len(b) + 1 /\ g[Len(b) + 1] = d
         /\ Len(b) \in Nat /\ \A n \in 1..Len(b) : g[n] = b[n]
    BY <1>1, <2>2, PrefixAppend
  <2>11. IsPrefixOf(h, g) /\ Len(g) > Len(h)
    BY <2>2, <2>10, PrefixLaws
  <2>12. g[1] = b[1]
    BY <2>7, <2>10, <2>2, HashEntry DEF IsPrefixOf
  <2>13. Owner(f, g)
    <3>1. CASE h # << >>
      <4>1. g[1] = h[1]
        BY <2>11, <3>1, HashEntry DEF IsPrefixOf
      <4> QED BY <3>1, <4>1 DEF Owner
    <3>2. CASE h = << >>
      <4>1. i = 0 /\ g[1] = a
        BY <2>2, <2>3, <2>12, <3>2
      <4>2. ASSUME NEW j \in Idx, HasHeader(f[j]) PROVE j = i
        <5>1. ~(j > i)
          BY <4>2 DEF Topmost, HasHeader
        <5> QED BY <4>1, <5>1 DEF Idx
      <4> QED BY <1>1, <4>1, <4>2 DEF Owner, SameSigner
    <3> QED BY <3>1, <3>2
  <2>14. \A n \in 1..Len(g) : n > Len(h) => g[n].event = "header" \/ (n = Len(g) /\ g[n] = d)
    <3> SUFFICES ASSUME NEW n \in 1..Len(g), n > Len(h)
                 PROVE  g[n].event = "header" \/ (n = Len(g) /\ g[n] = d)
      OBVIOUS
    <3>1. n = Len(h) + 1 \/ n = Len(h) + 2
      BY <2>2, <2>10
    <3>2. n = Len(h) + 1 => g[n] = a
      BY <2>2, <2>10
    <3>3. n = Len(h) + 2 => n = Len(g) /\ g[n] = d
      BY <2>2, <2>10
    <3> QED BY <1>4, <3>1, <3>2, <3>3
  <2> QED BY <1>1, <2>9, <2>10, <2>11, <2>13, <2>14 DEF Grows
<1> QED BY <1>6, <1>7

LEMMA RecordHashes ==
  ASSUME NEW f \in [Idx -> Seq(Chunk)], NEW j \in Idx, NEW n \in 1..Len(f[j]),
         f[j][n].kind \in {"header", "record"}
  PROVE  HashOf(f[j][n]) \in Hash
<1>1. f[j] \in Seq(Chunk)
  OBVIOUS
<1>2. f[j][n] \in Chunk
  BY <1>1
<1> QED BY <1>2, HashOfType

\* The files and the chain after a frame was completed.
LEMMA ChainExtended ==
  ASSUME NEW f \in [Idx -> Seq(Chunk)], NEW i \in Idx, Topmost(f, i), HasHeader(f[i]),
         NEW t \in Seq(Chunk), HasHeader(t), t[1] = f[i][1], NEW z \in Nat, z >= 2, Len(t) = z,
         \A n \in 2..(z - 1) : t[n] = f[i][n], Len(f[i]) = z, t[z].kind = "record",
         NEW h \in Hash, NEW g \in Hash, g = HashOf(t[z]), IsPrefixOf(h, g),
         Genuine(f, h), Owner(f, g),
         Commits(g, t[z])
  PROVE  Genuine([f EXCEPT ![i] = t], g) /\ IsTip([f EXCEPT ![i] = t], g)
         /\ Owner([f EXCEPT ![i] = t], g)
<1>1. PICK k : k = [f EXCEPT ![i] = t]
  OBVIOUS
<1>2. k[i] = t /\ \A j \in Idx : j # i => k[j] = f[j]
  BY <1>1
<1>3. ASSUME NEW j \in Idx, NEW n \in 2..Len(k[j]), k[j][n].kind = "record"
      PROVE  Commits(g, k[j][n])
  <2>1. CASE j = i /\ n = z
    BY <1>2, <2>1
  <2>2. CASE ~(j = i /\ n = z)
    <3>1. n \in 2..Len(f[j]) /\ k[j][n] = f[j][n]
      <4>1. CASE j = i
        <5>1. n \in 2..z /\ n # z
          BY <1>2, <1>3, <2>2, <4>1
        <5>2. n \in 2..(z - 1)
          BY <5>1
        <5> QED BY <1>2, <4>1, <5>1, <5>2
      <4>2. CASE j # i
        BY <1>2, <1>3, <4>2
      <4> QED BY <4>1, <4>2
    <3>2. HashOf(f[j][n]) \in Hash /\ Commits(h, f[j][n])
      <4>1. n \in 1..Len(f[j]) /\ f[j][n].kind = "record"
        BY <1>3, <3>1
      <4> QED BY <3>1, <4>1, RecordHashes DEF Genuine
    <3>3. Commits(g, f[j][n])
      BY <3>2, PrefixLaws DEF Commits
    <3> QED BY <3>1, <3>3
  <2> QED BY <2>1, <2>2
<1>4. Tip(t) = g
  <2>1. Ends(t) = z
    BY DEF Ends, LastChunk
  <2> QED BY <2>1 DEF Tip
<1>5. ASSUME NEW j \in Idx, HasHeader(k[j]), Topmost(k, j) PROVE g = Tip(k[j])
  <2>1. ~(j > i)
    BY <1>2, <1>5, IdxOrder DEF Topmost, HasHeader
  <2>2. ~(i > j)
    BY <1>2, <1>5 DEF Topmost, HasHeader
  <2>3. j = i
    BY <2>1, <2>2, IdxOrder
  <2> QED BY <1>2, <1>4, <2>3
<1>6. ~(\A j \in Idx : k[j] = << >>)
  BY <1>2 DEF HasHeader
<1>7. Owner(k, g)
  BY <1>2 DEF Owner
<1>8. Genuine(k, g) /\ IsTip(k, g)
  BY <1>3, <1>5, <1>6 DEF Genuine, IsTip
<1> QED BY <1>1, <1>7, <1>8

LEMMA FinishWriteLog ==
  ASSUME SignedInv, SignedInv', LogInv, SealStep, ChainStep, FinishWrite
  PROVE  LogInv' /\ Grows(chain, chain', NewDatum)
<1>1. PICK i, s, z, d, e, c :
        /\ i = cur.index /\ s = file[i] /\ z = Len(s) /\ d = NewDatum
        /\ e = cur.bytes_written + (IF pc = "rec_write" THEN RecordSize[arg] ELSE OwnSize)
        /\ c = Frame(d, cur.last_hash, cur.key_id, e)
  OBVIOUS
<1>2. PICK t : t = [s EXCEPT ![z] = c]
  OBVIOUS
<1>3. /\ pc \in Writing /\ pc' = AfterWrite[pc] /\ file' = [file EXCEPT ![i] = t]
      /\ cur' = [cur EXCEPT !.last_hash = HashOf(c), !.next_record_id = cur.next_record_id + 1,
                            !.bytes_written = c.end, !.last_ts = c.datum.ts_wall]
      /\ entries' = entries
  BY <1>1, <1>2, WriteSteps DEF FinishWrite
<1>4. /\ i \in Idx /\ s \in Seq(Chunk) /\ z \in Nat /\ file \in [Idx -> Seq(Chunk)]
      /\ cur \in WriterType /\ cur.last_hash \in Hash /\ cur.next_record_id \in Nat
  BY <1>1, CurTypes DEF SignedInv, SignedTypeOK
<1>5. pc \notin {"closed", "genesis"}
  BY <1>3 DEF Writing
<1>6. /\ OneLog(file, entries) /\ Topmost(file, i) /\ i \in entries /\ s[z].kind = "torn"
  BY <1>1, <1>3, <1>5 DEF LogInv, AtTop, SealStep, SignedInv, SignedStepInv, LastChunk
<1>7. /\ z - 1 >= 1 /\ s[1].kind = "header" /\ s[1].datum = HeaderDatum(i, cur.log_id, cur.key_id)
      /\ (\A m \in 2..(z-1) : s[m].kind = "record") =>
           cur.last_hash = HashOf(s[z-1]) /\ cur.next_record_id = (z - 1) - 1
  <2>1. Written = z - 1
    BY <1>1, <1>3, WriteSteps DEF Written, Writing
  <2> QED BY <1>1, <1>5, <2>1 DEF SignedInv, SignedWriterAgrees
<1>8. z >= 2 /\ 1 \in 1..z /\ z \in 1..z /\ z \in 2..z /\ HasHeader(s)
  <2>1. z >= 2
    BY <1>4, <1>7
  <2>2. s # << >>
    BY <1>1, <2>1
  <2> QED BY <1>4, <1>7, <2>1, <2>2 DEF HasHeader
<1>9. FileOK(s, i) /\ Tidy(s)
  BY <1>1, <1>4, <1>6 DEF OneLog
<1>10. Ends(s) = z - 1
  BY <1>1, <1>6 DEF Ends, LastChunk
<1>11. \A m \in 2..(z - 1) : s[m].kind = "record"
  BY <1>4, <1>8, <1>9, <1>10, EndsAt
<1>12. cur.last_hash = HashOf(s[z-1]) /\ cur.next_record_id = z - 2
  BY <1>4, <1>7, <1>11
<1>13. d \in Datum /\ d.segment_index = i /\ d.record_id = z - 2 /\ d.event # "header"
       /\ SameSigner(d, s[1].datum)
  <2>1. d \in Datum /\ d.segment_index = i /\ d.record_id = z - 2
    BY <1>1, <1>3, <1>12, NewDatumType
  <2>2. d.event # "header" /\ d.log_id = cur.log_id /\ d.key_id = cur.key_id
    BY <1>1 DEF NewDatum, Finalized, Sealed
  <2> QED BY <1>7, <2>1, <2>2 DEF SameSigner, HeaderDatum
<1>14. PICK h, g : h = chain /\ g = Append(HashOf(s[z - 1]), d)
  OBVIOUS
<1>15. h \in Hash /\ Orderly(h) /\ Genuine(file, h) /\ IsTip(file, h) /\ Owner(file, h)
  BY <1>14 DEF LogInv, ChainInv
<1>16. /\ g \in Hash /\ Orderly(g) /\ IsPrefixOf(h, g) /\ Len(g) > Len(h) /\ Owner(file, g)
       /\ Grows(h, g, d)
  <2>1. d.record_id = Ends(s) - 1
    BY <1>4, <1>10, <1>13
  <2>2. LET x == Append(HashOf(s[Ends(s)]), d) IN
        /\ x \in Hash /\ Orderly(x) /\ IsPrefixOf(h, x) /\ Len(x) > Len(h) /\ Owner(file, x)
        /\ Grows(h, x, d)
    BY <1>1, <1>4, <1>6, <1>8, <1>13, <1>15, <2>1, ChainGrows
  <2> QED BY <1>10, <1>14, <2>2
<1>17. c.kind = "record" /\ HashOf(c) = g /\ c.datum = d
  BY <1>1, <1>12, <1>14 DEF Frame, HashOf
<1>18. file' \in [Idx -> Seq(Chunk)] /\ file'[i] = t /\ t \in Seq(Chunk) /\ FileOK(t, i)
  <2>1. file' \in [Idx -> Seq(Chunk)] /\ FilesOK'
    BY DEF SignedInv, SignedTypeOK
  <2>2. file'[i] = t
    BY <1>3, <1>4
  <2> QED BY <1>4, <2>1, <2>2 DEF FilesOK
<1>19. Len(t) = z /\ t[z] = c /\ \A m \in 1..(z-1) : t[m] = s[m]
  <2>1. DOMAIN s = 1..z
    BY <1>1, <1>4
  <2>2. DOMAIN t = 1..z
    BY <1>2, <2>1
  <2>3. Len(t) = z
    BY <1>4, <1>18, <2>2
  <2> QED BY <1>2, <1>4, <1>8, <2>1, <2>3
<1>20. /\ t[1] = s[1] /\ HasHeader(t) /\ \A m \in 2..z : t[m].kind = "record"
  <2>1. 1 \in 1..(z - 1) /\ \A m \in 2..z : m = z \/ (m \in 2..(z-1) /\ m \in 1..(z-1))
    BY <1>4, <1>8
  <2>2. t[1] = s[1] /\ \A m \in 2..z : t[m].kind = "record"
    BY <1>11, <1>17, <1>19, <2>1
  <2>3. t # << >>
    BY <1>8, <1>19
  <2> QED BY <1>7, <2>2, <2>3 DEF HasHeader
<1>21. Tidy(t)
  BY <1>19, <1>20 DEF Tidy
<1>22. OneLog(file', entries') /\ Topmost(file', i)
  <2>1. HasHeader(file[i]) /\ t[1] = file[i][1]
    BY <1>1, <1>8, <1>20
  <2> QED BY <1>3, <1>4, <1>6, <1>18, <1>20, <1>21, <2>1, TopChange
<1>23. cur'.index = i /\ cur'.last_hash = g /\ cur'.next_record_id = z - 1
  BY <1>1, <1>3, <1>4, <1>12, <1>17 DEF WriterType
<1>24. chain' = g
  <2>1. z - 1 > 0
    BY <1>4, <1>8
  <2> QED BY <1>14, <1>16, <1>23, <2>1 DEF ChainStep
<1>25. AtTop'
  <2>1. pc' \notin {"closed", "genesis"}
    BY <1>3, WriteSteps
  <2>2. LastChunk(file'[cur'.index]).kind # "torn"
    BY <1>18, <1>19, <1>17, <1>23 DEF LastChunk
  <2> QED BY <1>22, <1>23, <2>1, <2>2 DEF AtTop
<1>26. Genuine(file', g) /\ IsTip(file', g) /\ Owner(file', g)
  <2>2. /\ HasHeader(file[i]) /\ t[1] = file[i][1] /\ Len(file[i]) = z /\ t[z].kind = "record"
        /\ g = HashOf(t[z])
        /\ \A n \in 2..(z - 1) : t[n] = file[i][n]
    BY <1>1, <1>8, <1>13, <1>17, <1>19, <1>20
  <2>1. Commits(g, t[z])
    BY <1>13, <1>16, <1>17, <1>19, PrefixLaws DEF Commits
  <2>3. Topmost(file, i) /\ HasHeader(t) /\ z >= 2 /\ Len(t) = z /\ IsPrefixOf(h, g)
        /\ Genuine(file, h) /\ Owner(file, g) /\ h \in Hash /\ g \in Hash
    BY <1>6, <1>8, <1>15, <1>16, <1>19, <1>20
  <2>4. /\ Genuine([file EXCEPT ![i] = t], g) /\ IsTip([file EXCEPT ![i] = t], g)
        /\ Owner([file EXCEPT ![i] = t], g)
    BY <1>4, <1>18, <2>1, <2>2, <2>3, ChainExtended
  <2> QED BY <1>3, <2>4
<1>27. ChainInv'
  BY <1>16, <1>23, <1>24, <1>26, PrefixLaws DEF ChainInv
<1>28. Grows(chain, chain', NewDatum)
  BY <1>1, <1>14, <1>16, <1>24
<1> QED BY <1>22, <1>25, <1>27, <1>28 DEF LogInv

LEMMA WriteHeaderLog ==
  ASSUME SignedInv, SignedInv', LogInv, SealStep, ChainStep, WriteHeader
  PROVE  LogInv' /\ chain' = chain
<1>1. PICK i, h, t :
        /\ i = (IF pc = "genesis" THEN 0 ELSE cur.index + 1)
        /\ h = SignedHeader(i, cur.log_id, cur.key_id, cur.last_hash) /\ t = << h >>
  OBVIOUS
<1>2. /\ pc \in {"genesis", "header"} /\ pc' \in {"ready", "rec"}
      /\ file' = [file EXCEPT ![i] = t] /\ cur' = WriterOn(i, t, cur.last_ts) /\ entries' = entries
  BY <1>1 DEF WriteHeader
<1>3. /\ cur.index \in Idx /\ file \in [Idx -> Seq(Chunk)] /\ OneLog(file, entries)
      /\ file' \in [Idx -> Seq(Chunk)] /\ FilesOK' /\ cur.last_hash \in Hash
  BY CurTypes DEF LogInv, SignedInv, SignedTypeOK
<1>4. i \in Idx
  BY <1>1, <1>2, <1>3 DEF SignedInv, SignedStepInv, Idx
<1>5. /\ h.kind = "header" /\ h.datum = HeaderDatum(i, cur.log_id, cur.key_id)
      /\ h.prev_hash = cur.last_hash
  BY <1>1 DEF SignedHeader
<1>6. t \in Seq(Chunk) /\ file'[i] = t /\ FileOK(t, i)
  <2>1. file'[i] = t
    BY <1>2, <1>3, <1>4
  <2> QED BY <1>3, <1>4, <2>1 DEF FilesOK
<1>7. Len(t) = 1 /\ t[1] = h /\ HasHeader(t) /\ Tidy(t)
  BY <1>1, <1>5 DEF HasHeader, Tidy
<1>8. Tip(t) = cur.last_hash /\ LastChunk(t).kind = "header"
  <2>1. LastChunk(t).kind = "header" /\ Ends(t) = 1
    BY <1>5, <1>7 DEF LastChunk, Ends
  <2> QED BY <1>5, <1>7, <2>1 DEF Tip
<1>9. /\ i \in entries /\ Topmost(file, i) /\ file[i] = << >>
      /\ cur.last_hash = chain
      /\ IF i = 0 THEN cur.last_hash = ZeroHash
         ELSE Whole(file[i - 1]) /\ Continues(h, file[i - 1])
      /\ chain # << >> => SameSigner(h.datum, chain[1])
  <2>1. CASE pc = "genesis"
    <3>1. /\ i = 0 /\ i \in entries /\ (\A j \in Idx : file[j] = << >>) /\ cur.last_hash = ZeroHash
          /\ chain = ZeroHash
      BY <1>1, <2>1 DEF SealStep, LogInv, AtTop, ChainInv, IsTip
    <3> QED BY <1>4, <3>1 DEF Topmost, ZeroHash
  <2>2. CASE pc = "header"
    <3>1. PICK j, s, z : j = cur.index /\ s = file[j] /\ z = Len(s)
      OBVIOUS
    <3>2. /\ i = j + 1 /\ j \in Idx /\ s \in Seq(Chunk) /\ z \in Nat /\ i \in entries
          /\ Topmost(file, j) /\ LastChunk(s).kind # "torn" /\ EndsWith(s, Finalized)
      BY <1>1, <1>3, <2>2, <3>1 DEF SealStep, LogInv, AtTop, Writing
    <3>3. Topmost(file, i) /\ file[i] = << >> /\ i # 0 /\ i - 1 = j
      <4>1. i > j /\ i # 0 /\ i - 1 = j /\ \A k \in Idx : k > i => k > j
        BY <3>2 DEF Idx
      <4> QED BY <1>4, <3>2, <4>1 DEF Topmost
    <3>4. /\ z >= 1 /\ s[1].kind = "header" /\ s[1].datum = HeaderDatum(j, cur.log_id, cur.key_id)
          /\ (\A m \in 2..z : s[m].kind = "record") => cur.last_hash = HashOf(s[z])
      <4>1. Written = z
        BY <2>2, <3>1, WriteSteps DEF Written, Writing
      <4> QED BY <2>2, <3>1, <4>1 DEF SignedInv, SignedWriterAgrees
    <3>5. HasHeader(s) /\ FileOK(s, j) /\ Tidy(s) /\ Ends(s) = z
      <4>1. s # << >>
        BY <3>2 DEF EndsWith
      <4> QED BY <1>3, <3>1, <3>2, <3>4, <4>1 DEF HasHeader, OneLog, Ends
    <3>6. \A m \in 2..z : s[m].kind = "record"
      BY <3>2, <3>5, EndsAt
    <3>7. z > 1
      <4>1. s[z].kind = "record"
        BY <3>1, <3>2 DEF EndsWith, LastChunk
      <4>2. z # 1
        BY <3>4, <4>1
      <4> QED BY <3>2, <3>4, <4>2
    <3>8. Whole(s) /\ cur.last_hash = HashOf(LastChunk(s)) /\ Tip(s) = HashOf(LastChunk(s))
      BY <3>1, <3>4, <3>5, <3>6, <3>7 DEF Whole, LastChunk, Tip
    <3>9. chain = Tip(s)
      BY <3>1, <3>2, <3>5 DEF LogInv, ChainInv, IsTip
    <3>10. SameSigner(h.datum, s[1].datum) /\ Continues(h, s)
      BY <1>5, <3>4, <3>8 DEF Continues, SameSigner, HeaderDatum
    <3>11. chain # << >> => SameSigner(s[1].datum, chain[1])
      BY <3>1, <3>2, <3>5 DEF LogInv, ChainInv, Owner
    <3> QED BY <3>1, <3>2, <3>3, <3>8, <3>9, <3>10, <3>11 DEF SameSigner
  <2> QED BY <1>2, <2>1, <2>2
<1>10. OneLog(file', entries') /\ Topmost(file', i)
  <2>1. ~HasHeader(file[i])
    BY <1>9 DEF HasHeader
  <2>2. IF i = 0 THEN t[1].prev_hash = ZeroHash
        ELSE Whole(file[i - 1]) /\ Continues(t[1], file[i - 1])
    BY <1>5, <1>7, <1>9
  <2> QED BY <1>2, <1>3, <1>4, <1>6, <1>7, <1>9, <2>1, <2>2, TopChange
<1>11. cur'.index = i /\ cur'.next_record_id = 0 /\ cur'.last_hash \in Hash
  <2>1. cur'.index = i /\ cur'.next_record_id = 0
    BY <1>2, <1>7 DEF WriterOn
  <2> QED BY <2>1 DEF SignedInv, SignedTypeOK, WriterType
<1>12. chain' = chain
  BY <1>11, ChainKept DEF LogInv, ChainInv
<1>13. AtTop'
  BY <1>2, <1>6, <1>8, <1>10, <1>11 DEF AtTop
<1>14. PICK k : k = file'
  OBVIOUS
<1>15. k[i] = t /\ \A j \in Idx : j # i => k[j] = file[j]
  BY <1>2, <1>3, <1>4, <1>14
<1>16. Genuine(k, chain)
  <2> SUFFICES ASSUME NEW j \in Idx, NEW n \in 2..Len(k[j]), k[j][n].kind = "record"
               PROVE  Commits(chain, k[j][n])
    BY DEF Genuine
  <2>1. j # i
    BY <1>7, <1>15
  <2> QED BY <1>15, <2>1 DEF LogInv, ChainInv, Genuine
<1>17. IsTip(k, chain)
  <2>1. ASSUME NEW j \in Idx, HasHeader(k[j]), Topmost(k, j) PROVE chain = Tip(k[j])
    <3>1. ~(j > i)
      BY <1>4, <1>10, <1>14, <2>1, IdxOrder DEF Topmost, HasHeader
    <3>2. ~(i > j)
      BY <1>4, <1>7, <1>15, <2>1 DEF Topmost, HasHeader
    <3>3. j = i
      BY <1>4, <3>1, <3>2, IdxOrder
    <3> QED BY <1>8, <1>9, <1>15, <3>3
  <2>2. ~(\A j \in Idx : k[j] = << >>)
    BY <1>4, <1>7, <1>15 DEF HasHeader
  <2> QED BY <2>1, <2>2 DEF IsTip
<1>18. Owner(k, chain)
  <2> SUFFICES ASSUME chain # << >>, NEW j \in Idx, HasHeader(k[j])
               PROVE  SameSigner(k[j][1].datum, chain[1])
    BY DEF Owner
  <2>1. CASE j = i
    BY <1>7, <1>9, <1>15, <2>1
  <2>2. CASE j # i
    BY <1>15, <2>2 DEF LogInv, ChainInv, Owner
  <2> QED BY <2>1, <2>2
<1>19. ChainInv'
  BY <1>11, <1>12, <1>14, <1>16, <1>17, <1>18 DEF LogInv, ChainInv
<1> QED BY <1>10, <1>12, <1>13, <1>19 DEF LogInv

LEMMA NextLogInv ==
  ASSUME FewSegments, NothingLost, SignedInv, SignedInv', SealStep, LogInv, SignedNext, ChainStep
  PROVE  LogInv' /\ (chain' = chain \/ (FinishWrite /\ Grows(chain, chain', NewDatum)))
<1>1. CASE \E k \in Keys : (\E l \in LogIds : OpenFresh(k, l)) \/ OpenRefused(k)
                           \/ RepairFails(k) \/ OpenAccepted(k)
  <2>1. PICK k \in Keys : (\E l \in LogIds : OpenFresh(k, l)) \/ OpenRefused(k)
                          \/ RepairFails(k) \/ OpenAccepted(k)
    BY <1>1
  <2> QED BY <2>1, OpenFreshLog, OpenFailsLog, OpenAcceptedLog
<1>2. CASE (\E v \in Inputs : AppendCall(v)) \/ SealCall \/ SyncFinalized \/ FlushFile
  <2>1. /\ pc \in {"ready", "fin_sync", "seal_sync"}
        /\ pc' \in {"fin", "rec", "seal", "create", "flush_dir", "seal_dir"}
        /\ UNCHANGED <<file, entries, cur>>
    BY <1>2 DEF AppendCall, SealCall, SyncFinalized, FlushFile, disk
  <2> QED BY <2>1, QuietLog DEF Writing
<1>3. CASE FlushDir
  <2>1. /\ pc \in {"flush_dir", "seal_dir"} /\ pc' = "ready" /\ UNCHANGED <<file, entries>>
        /\ cur' = [cur EXCEPT !.sealed = cur.sealed \/ pc = "seal_dir"]
    BY <1>3 DEF FlushDir
  <2>2. /\ cur'.index = cur.index /\ cur'.last_hash = cur.last_hash
        /\ cur'.next_record_id = cur.next_record_id
    BY <2>1 DEF SignedInv, SignedTypeOK, WriterType
  <2> QED BY <2>1, <2>2, QuietLog DEF Writing
<1>4. CASE BeginWrite \/ FinishWrite \/ WriteHeader
  BY <1>4, BeginWriteLog, FinishWriteLog, WriteHeaderLog
<1>5. CASE CreateSegment
  <2>1. PICK i : i = cur.index + 1
    OBVIOUS
  <2>2. /\ pc = "create" /\ pc' = "header" /\ cur' = cur /\ i \in Idx /\ i \notin entries
        /\ file' = [file EXCEPT ![i] = << >>] /\ entries' = entries \cup {i}
    BY <1>5, <2>1 DEF CreateSegment
  <2>3. file[i] = << >> /\ file \in [Idx -> Seq(Chunk)]
    BY <2>2, CurTypes DEF LogInv, OneLog
  <2>4. file' = file /\ entries \subseteq entries'
    BY <2>2, <2>3
  <2> QED BY <2>2, <2>4, QuietLog DEF Writing
<1>6. CASE CreateRefused \/ OperationFails
  <2>1. Fail /\ pc # "closed" /\ pc \notin Writing /\ (pc = "genesis" => arg = NoInput)
    <3>1. Fail /\ pc # "closed" /\ pc \notin Writing
      BY <1>6, WriteSteps DEF CreateRefused, OperationFails, FailsAt, Writing, NothingLost
    <3>2. pc = "genesis" => arg = NoInput
      BY DEF SignedInv, SignedStepInv, Appending
    <3> QED BY <3>1, <3>2
  <2>2. UNCHANGED <<file, entries>>
    BY <2>1 DEF Fail, disk
  <2>3. CASE pc' = "closed"
    <3>1. cur' = NoWriter
      BY <2>1, <2>3 DEF Fail
    <3>2. cur'.next_record_id = 0
      BY <3>1 DEF NoWriter
    <3> QED BY <2>2, <2>3, <3>2, QuietLog
  <2>4. CASE pc' # "closed"
    <3>1. pc' = "ready" /\ cur' = cur /\ pc # "genesis"
      BY <2>1, <2>4 DEF Fail
    <3> QED BY <2>1, <2>2, <3>1, QuietLog
  <2> QED BY <2>3, <2>4
<1>7. CASE Close \/ Kill
  <2>1. pc' = "closed" /\ cur' = NoWriter /\ UNCHANGED <<file, entries>>
    BY <1>7 DEF Close, Kill, disk
  <2>2. cur'.next_record_id = 0
    BY <2>1 DEF NoWriter
  <2> QED BY <2>1, <2>2, QuietLog
<1>8. CASE PowerLoss
  BY <1>8 DEF PowerLoss, NothingLost
<1> QED BY <1>1, <1>2, <1>3, <1>4, <1>5, <1>6, <1>7, <1>8 DEF SignedNext

-----------------------------------------------------------------------------
(* log.sealed in the chain.  A seal whose sync fails returns an error and     *)
(* leaves a writer that can still append: the theorem excludes that failure.  *)

NoFailedSync == "sync" \notin Faults

SealedChain(h) == h # << >> /\ h[Len(h)].event = Sealed

SealEnds ==
  /\ \A n \in 1..Len(chain) : chain[n].event = Sealed => n = Len(chain)
  /\ SealedChain(chain) => \/ pc \in {"closed", "seal_sync", "seal_dir"}
                           \/ pc \in {"ready", "flush_dir"} /\ cur.sealed

\* What the last chunk of the files says of the end of the chain.
LEMMA TipEvent ==
  ASSUME NEW i \in Idx, NEW s \in Seq(Chunk), HasHeader(s), FileOK(s, i), Tidy(s), Ends(s) > 1
  PROVE  /\ Tip(s) # << >> /\ Tip(s)[Len(Tip(s))] = LastChunk(Intact(s, i)).datum
         /\ Len(Intact(s, i)) > 1
<1>1. PICK z, t : z = Ends(s) /\ t = Intact(s, i)
  OBVIOUS
<1>2. z \in 1..Len(s) /\ z \in 2..z /\ s[z].kind = "record"
  <2>1. Ends(s) \in 1..Len(s) /\ \A n \in 2..Ends(s) : s[n].kind = "record"
    BY EndsAt
  <2> QED BY <1>1, <2>1
<1>3. Len(t) = z /\ t[z] = s[z]
  <2>1. Len(t) = z /\ \A n \in 1..z : t[n] = s[n]
    BY <1>1, IntactTrims
  <2> QED BY <1>2, <2>1
<1>4. s[z] \in Chunk
  BY <1>2
<1>5. HashOf(s[z]) # << >> /\ HashOf(s[z])[Len(HashOf(s[z]))] = s[z].datum
  BY <1>2, <1>4, HashOfLast
<1>6. Tip(s) = HashOf(s[z])
  BY <1>1 DEF Tip
<1> QED BY <1>1, <1>3, <1>5, <1>6 DEF LastChunk

LEMMA LatestTopmost ==
  ASSUME SignedInv, FewSegments, LogInv, NEW i, IsLatest(i)
  PROVE  i \in Idx /\ Topmost(file, i)
<1>1. i \in entries /\ i \in Idx /\ \A j \in entries : j <= i
  BY LatestSegment, CurTypes
<1>2. ASSUME NEW j \in Idx, j > i PROVE file[j] = << >>
  <2>1. j \notin entries
    BY <1>1, <1>2, IdxOrder
  <2> QED BY <2>1 DEF LogInv, OneLog
<1> QED BY <1>1, <1>2 DEF Topmost

\* An open accepts no log whose chain ends with log.sealed.
LEMMA SealedRefused ==
  ASSUME SignedInv, FewSegments, LogInv, NEW k, NEW i, IsLatest(i), OpenRefusal(i, k) = "none"
  PROVE  ~SealedChain(chain)
<1>1. HasHeader(file[i])
  BY OpenChecks
<1>2. i \in Idx /\ Topmost(file, i)
  BY LatestTopmost
<1>3. PICK s, z : s = file[i] /\ z = Ends(s)
  OBVIOUS
<1>4. s \in Seq(Chunk) /\ HasHeader(s) /\ FileOK(s, i) /\ Tidy(s) /\ chain = Tip(s)
  BY <1>1, <1>2, <1>3, CurTypes DEF LogInv, OneLog, ChainInv, IsTip
<1>5. /\ LastEvent(Intact(s, i)) # Sealed
      /\ Len(Intact(s, i)) = 1 /\ i > 0 => LastEvent(Intact(file[i-1], i - 1)) # Sealed
  <2>1. PICK l : l = file[0][1].datum.log_id
    OBVIOUS
  <2>2. ScanRefusal(file[i], i, l, k) = "none"
    BY <2>1 DEF OpenRefusal
  <2> QED BY <1>3, <2>1, <2>2 DEF OpenRefusal
<1>6. CASE z > 1
  <2>1. chain # << >> /\ chain[Len(chain)] = LastChunk(Intact(s, i)).datum
    BY <1>2, <1>3, <1>4, <1>6, TipEvent
  <2> QED BY <1>5, <2>1 DEF SealedChain, LastEvent
<1>7. CASE ~(z > 1)
  <2>1. z = 1 /\ Len(Intact(s, i)) = 1 /\ chain = s[1].prev_hash
    <3>1. z \in 1..Len(s) /\ Len(Intact(s, i)) = z
      BY <1>2, <1>3, <1>4, EndsAt, IntactTrims
    <3>2. z = 1
      BY <1>7, <3>1
    <3> QED BY <1>3, <1>4, <1>7, <3>1, <3>2 DEF Tip
  <2>2. Joined(file, i)
    BY <1>1, <1>2 DEF LogInv, OneLog
  <2>3. CASE i = 0
    BY <1>3, <2>1, <2>2, <2>3 DEF Joined, ZeroHash, SealedChain
  <2>4. CASE i # 0
    <3>1. i - 1 \in Idx /\ i - 1 < i /\ i > 0
      BY <1>2, <2>4, IdxBelow
    <3>2. PICK j, t : j = i - 1 /\ t = file[j]
      OBVIOUS
    <3>3. j \in Idx /\ t \in Seq(Chunk) /\ Whole(t) /\ FileOK(t, j) /\ Tidy(t)
      BY <1>1, <1>2, <3>1, <3>2, CurTypes DEF LogInv, OneLog
    <3>4. chain = HashOf(LastChunk(t))
      BY <1>3, <2>1, <2>2, <2>4, <3>2 DEF Joined, Continues
    <3>5. Ends(t) = Len(t) /\ Ends(t) > 1 /\ HasHeader(t)
      <4>1. Len(t) \in 2..Len(t)
        BY <3>3 DEF Whole
      <4>2. t[Len(t)].kind = "record"
        BY <3>3, <4>1 DEF Whole
      <4> QED BY <3>3, <4>2 DEF Whole, Ends, LastChunk
    <3>6. Tip(t) = chain
      BY <3>4, <3>5 DEF Tip, LastChunk
    <3>7. chain # << >> /\ chain[Len(chain)] = LastChunk(Intact(t, j)).datum
      BY <3>3, <3>5, <3>6, TipEvent
    <3>8. LastEvent(Intact(t, j)) # Sealed
      BY <1>5, <2>1, <3>1, <3>2
    <3> QED BY <3>7, <3>8 DEF SealedChain, LastEvent
  <2> QED BY <2>3, <2>4
<1> QED BY <1>6, <1>7

LEMMA NextSealEnds ==
  ASSUME FewSegments, NothingLost, NoFailedSync, SignedInv, SignedInv', SealStep, LogInv,
         SealEnds, SignedNext, ChainStep
  PROVE  SealEnds'
<1>0. LogInv' /\ (chain' = chain \/ (FinishWrite /\ Grows(chain, chain', NewDatum)))
  BY NextLogInv
<1>1. chain \in Hash /\ chain' \in Hash
  BY <1>0 DEF LogInv, ChainInv
<1>2. CASE FinishWrite /\ Grows(chain, chain', NewDatum)
  <2>1. PICK h, g, d : h = chain /\ g = chain' /\ d = NewDatum
    OBVIOUS
  <2>2. pc \in Writing /\ pc' = AfterWrite[pc]
    BY <1>2, WriteSteps DEF FinishWrite
  <2>3. h \in Hash /\ g \in Hash /\ Len(h) \in Nat /\ Len(g) \in Nat /\ Grows(h, g, d)
    BY <1>1, <1>2, <2>1, HashEntry
  <2>4. ASSUME NEW n \in 1..Len(h) PROVE h[n].event # Sealed
    <3>1. ~SealedChain(h)
      BY <2>1, <2>2 DEF SealEnds, Writing
    <3>2. h # << >>
      BY <2>3, <2>4
    <3>3. h[n].event = Sealed => n = Len(h)
      BY <2>1, <2>4 DEF SealEnds
    <3> QED BY <3>1, <3>2, <3>3 DEF SealedChain
  <2>5. ASSUME NEW n \in 1..Len(g), g[n].event = Sealed PROVE n = Len(g) /\ g[n] = d
    <3>1. ~(n <= Len(h))
      <4> SUFFICES ASSUME n <= Len(h) PROVE FALSE
        OBVIOUS
      <4>1. n \in 1..Len(h) /\ h[n] = g[n]
        BY <2>3 DEF Grows, IsPrefixOf
      <4> QED BY <2>4, <2>5, <4>1
    <3>2. n > Len(h)
      BY <2>3, <3>1
    <3> QED BY <2>3, <2>5, <3>2 DEF Grows, Sealed
  <2>6. SealedChain(g) => pc' = "seal_sync"
    <3> SUFFICES ASSUME SealedChain(g) PROVE pc' = "seal_sync"
      OBVIOUS
    <3>1. Len(g) \in 1..Len(g) /\ g[Len(g)].event = Sealed
      BY <2>3, HashEntry DEF SealedChain
    <3>2. d.event = Sealed
      BY <2>5, <3>1
    <3>3. pc = "seal_write"
      BY <2>1, <2>2, <3>2 DEF NewDatum, Finalized, Sealed, Writing
    <3> QED BY <2>2, <3>3, WriteSteps
  <2> QED BY <2>1, <2>5, <2>6 DEF SealEnds
<1>3. CASE chain' = chain /\ ~SealedChain(chain)
  BY <1>3 DEF SealEnds
<1>4. CASE chain' = chain /\ SealedChain(chain) /\ ~FinishWrite
  <2> SUFFICES \/ pc' \in {"closed", "seal_sync", "seal_dir"}
               \/ pc' \in {"ready", "flush_dir"} /\ cur'.sealed
    BY <1>4 DEF SealEnds
  <2>1. \/ pc \in {"closed", "seal_sync", "seal_dir"}
        \/ pc \in {"ready", "flush_dir"} /\ cur.sealed
    BY <1>4 DEF SealEnds
  <2>2. CASE \E k \in Keys : (\E l \in LogIds : OpenFresh(k, l)) \/ OpenRefused(k)
                             \/ RepairFails(k) \/ OpenAccepted(k)
    <3>1. PICK k \in Keys : (\E l \in LogIds : OpenFresh(k, l)) \/ OpenRefused(k)
                            \/ RepairFails(k) \/ OpenAccepted(k)
      BY <2>2
    <3>2. CASE \E l \in LogIds : OpenFresh(k, l)
      <4>1. entries = {}
        BY <3>2, LatestSegment DEF OpenFresh
      <4>2. \A j \in Idx : file[j] = << >>
        BY <4>1 DEF LogInv, OneLog
      <4> QED BY <1>4, <4>2 DEF LogInv, ChainInv, IsTip, ZeroHash, SealedChain
    <3>3. CASE OpenRefused(k) \/ RepairFails(k)
      BY <3>3 DEF OpenRefused, RepairFails, Scan
    <3>4. CASE OpenAccepted(k)
      <4>1. PICK i : OpenRefusal(i, k) = "none" /\ IsLatest(i)
        BY <3>4 DEF OpenAccepted, Scan
      <4> QED BY <1>4, <4>1, SealedRefused
    <3> QED BY <3>1, <3>2, <3>3, <3>4
  <2>3. CASE (\E v \in Inputs : AppendCall(v)) \/ SealCall
    BY <2>1, <2>3 DEF AppendCall, SealCall
  <2>4. CASE BeginWrite \/ SyncFinalized \/ CreateSegment \/ CreateRefused \/ WriteHeader
    BY <2>1, <2>4, WriteSteps DEF BeginWrite, SyncFinalized, CreateSegment, CreateRefused, WriteHeader
  <2>5. CASE FlushFile
    BY <2>1, <2>5 DEF FlushFile
  <2>6. CASE FlushDir
    <3>1. pc \in {"flush_dir", "seal_dir"} /\ pc' = "ready" /\ cur \in WriterType
          /\ cur' = [cur EXCEPT !.sealed = cur.sealed \/ pc = "seal_dir"]
      BY <2>6 DEF FlushDir, SignedInv, SignedTypeOK
    <3>2. cur'.sealed = (cur.sealed \/ pc = "seal_dir")
      BY <3>1 DEF WriterType
    <3> QED BY <2>1, <3>1, <3>2
  <2>7. CASE Close \/ Kill \/ PowerLoss
    BY <2>7 DEF Close, Kill, PowerLoss
  <2>8. CASE OperationFails
    <3>1. pc \in {"fin", "rec", "seal"} \cup Writing \cup {"genesis", "create", "header"}
      BY <2>8, WriteSteps DEF OperationFails, FailsAt, NoFailedSync
    <3> QED BY <2>1, <3>1 DEF Writing
  <2> QED BY <1>4, <2>2, <2>3, <2>4, <2>5, <2>6, <2>7, <2>8 DEF SignedNext
<1> QED
  <2>1. FinishWrite => Grows(chain, chain', NewDatum)
    BY FinishWriteLog
  <2> QED BY <1>0, <1>2, <1>3, <1>4, <2>1

-----------------------------------------------------------------------------
(* The walk: its fields, and the recursions over checks and over records. *)

Fields == DOMAIN Idle

IsWalk(w) == w = [y \in Fields |-> w[y]]

LEMMA FieldNames ==
  Fields = {"pc", "todo", "opts", "expected", "prev_final", "stopped", "seg0", "signer_ok",
            "trusted", "ordinal", "sealed", "last_ts", "last", "hadRecords", "noSuccessor",
            "complete", "seen", "violations", "anchored", "verdict", "header", "over", "p",
            "prev", "finalized", "warned"}
BY DEF Fields, Idle

LEMMA IdleWalk == IsWalk(Idle)
BY DEF IsWalk, Fields, Idle

\* v is w but for the fields in C.
Only(v, w, C) == IsWalk(v) /\ \A y \in Fields \ C : v[y] = w[y]

\* What a check can report.
Words == {"ok", "HeaderCorrupt", "LogIdMismatch", "KeyIdMismatch", "SegmentDiscontinuity",
          "UntrustedSigner", "TornTail", "BadRollover", "SignatureInvalid", "ChainBreak",
          "RetiredKey", "CheckpointMismatch", "ElidedStructural", "SealedLogExtended",
          "TimestampRegression", "CheckpointTruncated", "CheckpointForDifferentLog"}

LEMMA AppendSome ==
  ASSUME NEW S, NEW q \in Seq(S), NEW k \in S
  PROVE  Append(q, k) \in Seq(S) /\ Append(q, k) # << >> /\ Len(Append(q, k)) = Len(q) + 1
OBVIOUS

\* What the checks report: nothing only if none of them fires.
LEMMA KindsOf ==
  ASSUME NEW checks, Len(checks) \in Nat, \A j \in 1..Len(checks) : checks[j][2] \in Words
  PROVE  /\ Kinds(checks) \in Seq(Words)
         /\ Kinds(checks) = << >> => \A j \in 1..Len(checks) : ~checks[j][1]
<1> DEFINE N == Len(checks)
           Step(n, q) == IF checks[n][1] THEN Append(q, checks[n][2]) ELSE q
           F(g) == g = [n \in 0..N |-> IF n = 0 THEN << >> ELSE Step(n, g[n-1])]
           step == [x \in (1..N) \X Seq(Words) |-> Step(x[1], x[2])]
<1>0. N \in Nat /\ << >> \in Seq(Words)
  OBVIOUS
<1>1. ASSUME NEW n \in 1..N, NEW q \in Seq(Words)
      PROVE  Step(n, q) \in Seq(Words) /\ (Step(n, q) = << >> => q = << >> /\ ~checks[n][1])
  <2>1. PICK k : k = checks[n][2]
    OBVIOUS
  <2>2. k \in Words
    BY <2>1
  <2>3. Append(q, k) \in Seq(Words) /\ Append(q, k) # << >>
    BY <2>2, AppendSome
  <2> QED BY <2>1, <2>3
<1>2. step \in [(1..N) \X Seq(Words) -> Seq(Words)]
  <2> HIDE DEF Step
  <2> QED BY <1>1
<1>3. PICK g : Follows(g, N, Seq(Words), << >>, step)
  <2> HIDE DEF step, N
  <2> QED BY <1>0, <1>2, Recursion
<1>4. ASSUME NEW n \in 1..N PROVE g[n] = Step(n, g[n-1])
  <2>1. g[n] = step[<<n, g[n-1]>>] /\ g[n-1] \in Seq(Words)
    <3> HIDE DEF step, N
    <3> QED BY <1>0, <1>3, FollowsStep
  <2> HIDE DEF Step
  <2> QED BY <2>1
<1>5. F(g)
  <2>1. g \in [0..N -> Seq(Words)] /\ g[0] = << >>
    BY <1>3 DEF Follows
  <2> HIDE DEF Step
  <2> QED BY <1>4, <2>1
<1>6. PICK r : r = CHOOSE h : F(h)
  OBVIOUS
<1>7. Kinds(checks) = r[N]
  BY <1>6 DEF Kinds
<1>8. F(r)
  <2> HIDE DEF F
  <2> QED BY <1>5, <1>6
<1>9. r[0] = << >> /\ \A n \in 1..N : r[n] = Step(n, r[n-1])
  <2>1. r = [n \in 0..N |-> IF n = 0 THEN << >> ELSE Step(n, r[n-1])]
    BY <1>8
  <2>2. 0 \in 0..N /\ \A n \in 1..N : n \in 0..N /\ n # 0
    BY <1>0
  <2> HIDE DEF Step, N
  <2> QED BY <2>1, <2>2
<1> DEFINE T == {n \in 0..N : /\ r[n] \in Seq(Words)
                              /\ r[n] = << >> => \A j \in 1..n : ~checks[j][1]}
<1>10. 0 \in T
  <2>1. r[0] \in Seq(Words) /\ 0 \in 0..N /\ \A j \in 1..0 : FALSE
    BY <1>0, <1>9
  <2> QED BY <2>1
<1>11. ASSUME NEW n \in 0..(N-1), n \in T PROVE n + 1 \in T
  <2>1. n + 1 \in 1..N /\ (n + 1) - 1 = n /\ n + 1 \in 0..N
    BY <1>0
  <2>2. r[n + 1] = Step(n + 1, r[n]) /\ r[n] \in Seq(Words)
    <3> HIDE DEF Step
    <3> QED BY <1>9, <1>11, <2>1
  <2>3. r[n + 1] \in Seq(Words) /\ (r[n + 1] = << >> => r[n] = << >> /\ ~checks[n + 1][1])
    <3> HIDE DEF Step
    <3> QED BY <1>1, <2>1, <2>2
  <2>4. r[n + 1] = << >> => \A j \in 1..(n + 1) : ~checks[j][1]
    <3>1. \A j \in 1..(n + 1) : j \in 1..n \/ j = n + 1
      OBVIOUS
    <3> QED BY <1>11, <2>3, <3>1
  <2> QED BY <2>1, <2>3, <2>4
<1>12. \A n \in 0..N : n \in T
  <2> HIDE DEF T, N
  <2> QED BY <1>0, <1>10, <1>11, UpTo
<1>13. N \in T
  BY <1>0, <1>12
<1> QED BY <1>7, <1>13

\* The frames of a segment are walked one after the other.
WalksTo(a, w, n, s) ==
  /\ a[1] = w
  /\ \A m \in 2..Len(s) : a[m] = WalkRecord(n, a[m-1], s[m])

LEMMA WalkRecordsDef ==
  ASSUME NEW w, NEW n, NEW s, Len(s) \in Nat, Len(s) >= 1
  PROVE  \E a : WalksTo(a, w, n, s) /\ WalkRecords(w, n, s) = a[Len(s)]
<1> DEFINE N == Len(s)
           Step(m, v) == WalkRecord(n, v, s[m])
           F(f, x) == f = [m \in 1..x |-> IF m = 1 THEN w ELSE Step(m, f[m-1])]
           T == {x \in Nat : \E f : F(f, x)}
<1>0. N \in Nat
  OBVIOUS
<1>1. 0 \in T
  <2>1. F([m \in 1..0 |-> w], 0)
    <3> HIDE DEF Step
    <3> QED OBVIOUS
  <2> HIDE DEF F
  <2> QED BY <2>1
<1>2. ASSUME NEW x \in 0..(N-1), x \in T PROVE x + 1 \in T
  <2>1. PICK f : F(f, x)
    BY <1>2
  <2> DEFINE g == [m \in 1..(x+1) |-> IF m = x + 1 THEN (IF m = 1 THEN w ELSE Step(m, f[x])) ELSE f[m]]
  <2>2. ASSUME NEW m \in 1..(x+1) PROVE g[m] = IF m = 1 THEN w ELSE Step(m, g[m-1])
    <3>1. CASE m = x + 1
      <4>1. m = 1 \/ (m - 1 = x /\ x \in 1..(x + 1) /\ x # x + 1)
        BY <3>1
      <4>2. m # 1 => g[m-1] = f[x]
        <5> HIDE DEF Step
        <5> QED BY <4>1
      <4>3. g[m] = IF m = 1 THEN w ELSE Step(m, f[x])
        <5> HIDE DEF Step
        <5> QED BY <3>1
      <4> HIDE DEF Step, g
      <4> QED BY <4>2, <4>3
    <3>2. CASE m # x + 1
      <4>1. m \in 1..x /\ (m # 1 => m - 1 \in 1..(x + 1) /\ m - 1 # x + 1)
        BY <3>2
      <4>2. g[m] = f[m] /\ (m # 1 => g[m-1] = f[m-1])
        <5> HIDE DEF Step
        <5> QED BY <3>2, <4>1
      <4>3. f[m] = IF m = 1 THEN w ELSE Step(m, f[m-1])
        <5> HIDE DEF Step
        <5> QED BY <2>1, <4>1
      <4> HIDE DEF Step, g
      <4> QED BY <4>2, <4>3
    <3> QED BY <3>1, <3>2
  <2>3. F(g, x + 1)
    <3>1. g = [m \in 1..(x+1) |-> g[m]]
      OBVIOUS
    <3> HIDE DEF Step, g
    <3> QED BY <2>2, <3>1
  <2> HIDE DEF F, g
  <2> QED BY <2>3
<1>3. \A x \in 0..N : x \in T
  <2> HIDE DEF T, N
  <2> QED BY <1>0, <1>1, <1>2, UpTo
<1>4. PICK f : F(f, N)
  <2>1. N \in T
    BY <1>0, <1>3
  <2> QED BY <2>1
<1>5. PICK a : a = CHOOSE h : F(h, N)
  OBVIOUS
<1>6. WalkRecords(w, n, s) = a[N]
  BY <1>5 DEF WalkRecords
<1>7. F(a, N)
  <2> HIDE DEF F
  <2> QED BY <1>4, <1>5
<1>8. a[1] = w /\ \A m \in 2..N : a[m] = Step(m, a[m-1])
  <2>1. a = [m \in 1..N |-> IF m = 1 THEN w ELSE Step(m, a[m-1])]
    BY <1>7
  <2>2. 1 \in 1..N /\ \A m \in 2..N : m \in 1..N /\ m # 1
    BY <1>0
  <2> HIDE DEF Step, N
  <2> QED BY <2>1, <2>2
<1> QED BY <1>6, <1>8 DEF WalksTo

Finding == Words \X Int

\* The findings of a walk; one that stopped has some.
Sane(w) == IsWalk(w) /\ w.violations \in Seq(Finding) /\ (w.stopped => w.violations # << >>)

Clean(w) == w.violations = << >>

LEMMA AbandonWalk ==
  ASSUME NEW w, IsWalk(w)
  PROVE  /\ Only(Abandon(w), w, {"over", "prev_final"}) /\ Abandon(w).over = TRUE
<1>1. DOMAIN w = Fields
  BY DEF IsWalk
<1> QED BY <1>1, FieldNames DEF IsWalk, Abandon, Only

LEMMA ViolationWalk ==
  ASSUME NEW w, IsWalk(w), NEW n, NEW kinds
  PROVE  Only(Violation(w, n, kinds), w, {"violations", "stopped"})
<1>1. DOMAIN w = Fields
  BY DEF IsWalk
<1>2. PICK x : x = w.violations \o
                 (IF w.opts.forensic THEN [j \in 1..Len(kinds) |-> <<kinds[j], n>>]
                  ELSE <<Head([j \in 1..Len(kinds) |-> <<kinds[j], n>>])>>)
  OBVIOUS
<1>3. Violation(w, n, kinds) = w \/
      Violation(w, n, kinds) = [w EXCEPT !.violations = x, !.stopped = ~w.opts.forensic]
  BY <1>2 DEF Violation
<1> QED BY <1>1, <1>3, FieldNames DEF IsWalk, Only

LEMMA ConcatSome ==
  ASSUME NEW S, NEW a \in Seq(S), NEW b \in Seq(S)
  PROVE  /\ a \o b \in Seq(S) /\ Len(a \o b) = Len(a) + Len(b)
         /\ b # << >> => a \o b # << >>
         /\ \A j \in 1..Len(a) : (a \o b)[j] = a[j]
         /\ \A j \in 1..Len(b) : (a \o b)[Len(a) + j] = b[j]
<1>1. Len(a) \in Nat /\ Len(b) \in Nat /\ (b # << >> => Len(b) > 0)
  OBVIOUS
<1>2. a \o b \in Seq(S) /\ Len(a \o b) = Len(a) + Len(b)
  BY ConcatProperties, ZenonT(40)
<1>3. b # << >> => a \o b # << >>
  BY <1>1, <1>2
<1>4. \A j \in 1..Len(a) : (a \o b)[j] = a[j]
  BY <1>1, <1>2
<1>5. \A j \in 1..Len(b) : (a \o b)[Len(a) + j] = b[j]
  BY <1>1, <1>2
<1> QED BY <1>2, <1>3, <1>4, <1>5

\* A walk without findings has met no check that fired.
LEMMA ViolationFinds ==
  ASSUME NEW w, Sane(w), NEW n \in Int, NEW kinds \in Seq(Words)
  PROVE  /\ Sane(Violation(w, n, kinds))
         /\ Clean(Violation(w, n, kinds)) => Violation(w, n, kinds) = w /\ kinds = << >> /\ Clean(w)
<1>1. PICK v, found, x :
        /\ v = Violation(w, n, kinds) /\ found = [j \in 1..Len(kinds) |-> <<kinds[j], n>>]
        /\ x = IF w.opts.forensic THEN found ELSE <<Head(found)>>
  OBVIOUS
<1>2. CASE kinds = << >> \/ w.stopped
  <2>1. v = w
    BY <1>1, <1>2 DEF Violation
  <2> QED BY <1>1, <1>2, <2>1 DEF Sane, Clean
<1>3. CASE kinds # << >> /\ ~w.stopped
  <2>1. v = [w EXCEPT !.violations = w.violations \o x, !.stopped = ~w.opts.forensic]
    BY <1>1, <1>3 DEF Violation
  <2>2. found \in Seq(Finding) /\ found # << >>
    <3>1. Len(kinds) \in Nat /\ Len(kinds) # 0 /\ \A j \in 1..Len(kinds) : kinds[j] \in Words
      BY <1>3
    <3>2. \A j \in 1..Len(kinds) : <<kinds[j], n>> \in Finding
      BY <3>1 DEF Finding
    <3>3. found \in [1..Len(kinds) -> Finding] /\ found # << >>
      BY <1>1, <3>1, <3>2
    <3>4. PICK z : z = Len(kinds)
      OBVIOUS
    <3>5. z \in Nat /\ found \in [1..z -> Finding]
      BY <3>1, <3>3, <3>4
    <3>6. found \in Seq(Finding)
      BY <3>5, SeqDef
    <3> QED BY <3>3, <3>6
  <2>3. x \in Seq(Finding) /\ x # << >>
    <3>1. Head(found) \in Finding
      BY <2>2
    <3>2. PICK e : e = Head(found)
      OBVIOUS
    <3>3. <<e>> \in Seq(Finding) /\ <<e>> # << >>
      BY <3>1, <3>2
    <3> QED BY <1>1, <2>2, <3>2, <3>3
  <2>4. PICK y : y = w.violations \o x
    OBVIOUS
  <2>5. y \in Seq(Finding) /\ y # << >>
    BY <2>3, <2>4, ConcatSome DEF Sane
  <2>6. v.violations = y
    <3>1. "violations" \in DOMAIN w /\ "stopped" \in DOMAIN w
      BY FieldNames DEF Sane, IsWalk
    <3> QED BY <2>1, <2>4, <3>1
  <2>7. IsWalk(v)
    BY <1>1, ViolationWalk DEF Only, Sane
  <2> QED BY <1>1, <2>5, <2>6, <2>7 DEF Sane, Clean
<1> QED BY <1>2, <1>3

\* Only the fields in C change, and the findings are not among them.
LEMMA SaneOnly ==
  ASSUME NEW w, Sane(w), NEW v, NEW C, Only(v, w, C), "violations" \notin C, "stopped" \notin C
  PROVE  Sane(v) /\ (Clean(v) <=> Clean(w))
<1>1. v.violations = w.violations /\ v.stopped = w.stopped
  BY FieldNames DEF Only
<1> QED BY <1>1 DEF Sane, Only, Clean

LEMMA AcceptKinds ==
  ASSUME NEW w, NEW i, NEW p, NEW h
  PROVE  Accept(w, i, p, h) \in {"ok", "RetiredKey", "CheckpointMismatch"}
BY DEF Accept

\* What is known of a record no check of which fired.
Passes(w, n, c) ==
  /\ Signed(w, c) /\ c.body # "changed" /\ c.datum.key_id = w.header[1].datum.key_id
  /\ c.datum.segment_index = n /\ c.datum.record_id = w.p /\ c.prev_hash = w.prev
  /\ w.signer_ok => Accept(w, n, w.p, HashOf(c)) = "ok"
  /\ ~w.finalized /\ ~w.sealed

LEMMA RecordChecksOf ==
  ASSUME NEW w, NEW n, NEW c
  PROVE  /\ Kinds(RecordChecks(w, n, c)) \in Seq(Words)
         /\ Kinds(RecordChecks(w, n, c)) = << >> => Passes(w, n, c)
<1>1. PICK a, b : a = SignatureChecks(w, c) /\ b = PlaceChecks(w, n, c)
  OBVIOUS
<1>2. /\ Len(a) = 4 /\ a[2] = << ~Signed(w, c), "SignatureInvalid" >>
      /\ a[1] = << w.finalized, "BadRollover" >>
      /\ a[3] = << Signed(w, c) /\ c.body = "changed", "SignatureInvalid" >>
      /\ a[4] = << Signed(w, c) /\ c.datum.key_id # w.header[1].datum.key_id, "KeyIdMismatch" >>
      /\ a \in Seq({a[1], a[2], a[3], a[4]})
  BY <1>1 DEF SignatureChecks
<1>3. PICK trust : trust = IF w.signer_ok THEN Accept(w, n, w.p, HashOf(c)) ELSE "ok"
  OBVIOUS
<1>4. trust \in Words
  <2>1. Accept(w, n, w.p, HashOf(c)) \in {"ok", "RetiredKey", "CheckpointMismatch"}
    BY AcceptKinds
  <2> QED BY <1>3, <2>1 DEF Words
<1>5. /\ Len(b) = 6
      /\ b[1] = << <<c.datum.segment_index, c.datum.record_id, c.prev_hash>> # <<n, w.p, w.prev>>, "ChainBreak" >>
      /\ b[2] = << trust # "ok", trust >>
      /\ b[5] = << w.sealed, "SealedLogExtended" >>
      /\ b[3][2] = "ElidedStructural" /\ b[4][2] = "BadRollover" /\ b[6][2] = "TimestampRegression"
      /\ b \in Seq({b[1], b[2], b[3], b[4], b[5], b[6]})
  BY <1>1, <1>3 DEF PlaceChecks
<1>6. PICK S : S = {a[1], a[2], a[3], a[4], b[1], b[2], b[3], b[4], b[5], b[6]}
  OBVIOUS
<1>7. a \in Seq(S) /\ b \in Seq(S)
  BY <1>2, <1>5, <1>6
<1>8. \A j \in 1..4 : a[j][2] \in Words
  <2>1. a[1][2] \in Words /\ a[2][2] \in Words /\ a[3][2] \in Words /\ a[4][2] \in Words
    BY <1>2 DEF Words
  <2>2. \A j \in 1..4 : j = 1 \/ j = 2 \/ j = 3 \/ j = 4
    OBVIOUS
  <2> QED BY <2>1, <2>2
<1>9. \A j \in 1..6 : b[j][2] \in Words
  <2>1. /\ b[1][2] \in Words /\ b[2][2] \in Words /\ b[3][2] \in Words /\ b[4][2] \in Words
        /\ b[5][2] \in Words /\ b[6][2] \in Words
    BY <1>4, <1>5 DEF Words
  <2>2. \A j \in 1..6 : j = 1 \/ j = 2 \/ j = 3 \/ j = 4 \/ j = 5 \/ j = 6
    OBVIOUS
  <2> QED BY <2>1, <2>2
<1>10. CASE ~Signed(w, c)
  <2>1. RecordChecks(w, n, c) = a
    BY <1>1, <1>7, <1>10 DEF RecordChecks
  <2>2. a[2][1] /\ 2 \in 1..4
    <3>1. PICK x : x = a[2]
      OBVIOUS
    <3>2. x = << ~Signed(w, c), "SignatureInvalid" >>
      BY <1>2, <3>1
    <3>3. x[1]
      BY <1>10, <3>2
    <3> QED BY <3>1, <3>3
  <2>3. Kinds(a) \in Seq(Words) /\ (Kinds(a) = << >> => \A j \in 1..4 : ~a[j][1])
    <3>1. Len(a) = 4 /\ 4 \in Nat
      BY <1>2
    <3> QED BY <1>8, <3>1, KindsOf
  <2> QED BY <2>1, <2>2, <2>3
<1>11. CASE Signed(w, c)
  <2>1. PICK r : r = a \o b
    OBVIOUS
  <2>2. RecordChecks(w, n, c) = r
    BY <1>1, <1>11, <2>1 DEF RecordChecks
  <2>3. /\ Len(r) = 10 /\ (\A j \in 1..4 : r[j] = a[j]) /\ \A j \in 1..6 : r[4 + j] = b[j]
    <3>1. Len(a) = 4 /\ Len(b) = 6
      BY <1>2, <1>5
    <3>2. /\ Len(a \o b) = Len(a) + Len(b) /\ (\A j \in 1..Len(a) : (a \o b)[j] = a[j])
          /\ \A j \in 1..Len(b) : (a \o b)[Len(a) + j] = b[j]
      BY <1>7, ConcatSome
    <3> QED BY <2>1, <3>1, <3>2
  <2>4. \A j \in 1..10 : j \in 1..4 \/ (j - 4 \in 1..6 /\ 4 + (j - 4) = j)
    OBVIOUS
  <2>5. \A j \in 1..10 : r[j][2] \in Words
    BY <1>8, <1>9, <2>3, <2>4
  <2>6. /\ Kinds(r) \in Seq(Words) /\ (Kinds(r) = << >> => \A j \in 1..10 : ~r[j][1])
    <3>1. Len(r) = 10 /\ 10 \in Nat
      BY <2>3
    <3> QED BY <2>5, <3>1, KindsOf
  <2>7. ASSUME \A j \in 1..10 : ~r[j][1] PROVE Passes(w, n, c)
    <3>1. ~a[1][1] /\ ~a[3][1] /\ ~a[4][1]
      BY <2>3, <2>7
    <3>2. ~r[4 + 1][1] /\ ~r[4 + 2][1] /\ ~r[4 + 5][1]
      BY <2>7
    <3>3. ~b[1][1] /\ ~b[2][1] /\ ~b[5][1]
      BY <2>3, <3>2
    <3>4. /\ c.datum.segment_index = n /\ c.datum.record_id = w.p /\ c.prev_hash = w.prev
          /\ trust = "ok" /\ ~w.sealed
      <4>1. PICK x1, x2, x5 : x1 = b[1] /\ x2 = b[2] /\ x5 = b[5]
        OBVIOUS
      <4>2. x1 = << <<c.datum.segment_index, c.datum.record_id, c.prev_hash>> # <<n, w.p, w.prev>>, "ChainBreak" >>
            /\ ~x1[1]
        BY <1>5, <3>3, <4>1
      <4>3. x2 = << trust # "ok", trust >> /\ ~x2[1]
        BY <1>5, <3>3, <4>1
      <4>4. x5 = << w.sealed, "SealedLogExtended" >> /\ ~x5[1]
        BY <1>5, <3>3, <4>1
      <4>5. <<c.datum.segment_index, c.datum.record_id, c.prev_hash>> = <<n, w.p, w.prev>>
        BY <4>2
      <4>6. trust = "ok"
        BY <4>3
      <4>7. ~w.sealed
        BY <4>4
      <4> QED BY <4>5, <4>6, <4>7
    <3>5. ~w.finalized /\ c.body # "changed" /\ c.datum.key_id = w.header[1].datum.key_id
      <4>1. PICK x1, x3, x4 : x1 = a[1] /\ x3 = a[3] /\ x4 = a[4]
        OBVIOUS
      <4>2. x1 = << w.finalized, "BadRollover" >> /\ ~x1[1]
        BY <1>2, <3>1, <4>1
      <4>3. x3 = << Signed(w, c) /\ c.body = "changed", "SignatureInvalid" >> /\ ~x3[1]
        BY <1>2, <3>1, <4>1
      <4>4. x4 = << Signed(w, c) /\ c.datum.key_id # w.header[1].datum.key_id, "KeyIdMismatch" >> /\ ~x4[1]
        BY <1>2, <3>1, <4>1
      <4>5. ~w.finalized
        BY <4>2
      <4>6. ~(Signed(w, c) /\ c.body = "changed")
        BY <4>3
      <4>7. ~(Signed(w, c) /\ c.datum.key_id # w.header[1].datum.key_id)
        BY <4>4
      <4> QED BY <1>11, <4>5, <4>6, <4>7
    <3> QED BY <1>3, <1>11, <3>4, <3>5 DEF Passes
  <2> QED BY <2>2, <2>6, <2>7
<1> QED BY <1>10, <1>11

RecordFields == {"violations", "stopped", "over", "prev_final", "ordinal", "prev", "p",
                 "finalized", "trusted", "sealed", "last_ts", "seen", "last", "warned"}

LEMMA OnlyTrans ==
  ASSUME NEW u, NEW v, NEW w, NEW C, NEW D, Only(u, v, C), Only(v, w, D)
  PROVE  Only(u, w, C \cup D)
BY DEF Only

\* The record c is taken into the walk w.
Taken(v, w, n, c) ==
  /\ Only(v, w, RecordFields \ {"violations", "stopped", "over", "prev_final"})
  /\ v.ordinal = w.ordinal + 1 /\ v.p = w.p + 1 /\ v.prev = HashOf(c)
  /\ v.trusted => w.trusted \/ w.signer_ok
  /\ v.seen = IF <<n, w.p>> = <<saved.segment, saved.record_id>>
              THEN <<HashOf(c), w.ordinal + 1>> ELSE w.seen
  /\ v.last = <<[segment |-> n, record |-> w.p, hash |-> HashOf(c), event |-> c.datum.event]>>

\* A record whose findings, if any, do not stop the walk moves it on.
Moves(v, f, w, n, c) ==
  /\ Only(v, f, RecordFields \ {"violations", "stopped", "over", "prev_final", "ordinal"})
  /\ v.p = f.p + 1 /\ v.prev = HashOf(c)
  /\ v.trusted => f.trusted \/ w.signer_ok
  /\ v.seen = IF <<n, w.p>> = <<saved.segment, saved.record_id>>
              THEN <<HashOf(c), f.ordinal>> ELSE f.seen
  /\ v.last = <<[segment |-> n, record |-> w.p, hash |-> HashOf(c), event |-> c.datum.event]>>

\* The walk w with the next record counted, and what its checks report.
Counted(w) == [w EXCEPT !.ordinal = w.ordinal + 1]
Checked(w, n, c) == Violation(Counted(w), n, Kinds(RecordChecks(w, n, c)))

\* The walk w with segment n among those it warned of.
Noted(w, n) == [w EXCEPT !.warned = w.warned \cup {n}]

LEMMA NotedWalk ==
  ASSUME NEW w, IsWalk(w), NEW n
  PROVE  Only(Noted(w, n), w, {"warned"})
<1>1. DOMAIN w = Fields
  BY DEF IsWalk
<1> QED BY <1>1, FieldNames DEF Only, IsWalk, Noted

\* One frame: the walk is over, or does not look behind the attested head, or
\* takes the record, or has a finding.
LEMMA WalkRecordCases ==
  ASSUME NEW w, IsWalk(w), NEW n, NEW c
  PROVE  LET v == WalkRecord(n, w, c)
             f == Checked(w, n, c)
             t == Violation(w, n, <<"TornTail">>) IN
         \/ v = w
         \/ v = Abandon(w)
         \/ v = Abandon(Noted(w, n))
         \/ v = Abandon(t)
         \/ c.kind = "record" /\ f.stopped /\ v = Abandon(f)
         \/ c.kind = "record" /\ ~Signed(w, c) /\ Only(v, f, {"prev", "p", "finalized"})
         \/ c.kind = "record" /\ Signed(w, c) /\ Moves(v, f, w, n, c)
<1>1. PICK v, f, t :
        /\ v = WalkRecord(n, w, c) /\ f = Checked(w, n, c)
        /\ t = Violation(w, n, <<"TornTail">>)
  OBVIOUS
<1>2. CASE w.over
  BY <1>1, <1>2 DEF WalkRecord, Checked, Counted
<1>3. CASE ~w.over /\ c.kind # "record"
  BY <1>1, <1>3 DEF WalkRecord, FramingProblem, Noted
<1>4. CASE ~w.over /\ c.kind = "record" /\ f.stopped
  BY <1>1, <1>4 DEF WalkRecord, Checked, Counted
<1>5. CASE ~w.over /\ c.kind = "record" /\ ~f.stopped
  <2>2. IsWalk(Counted(w))
    BY DEF IsWalk, Counted
  <2>3. IsWalk(f) /\ DOMAIN f = Fields
    BY <1>1, <2>2, ViolationWalk DEF Only, IsWalk, Checked
  <2>4. PICK o : o = [f EXCEPT !.prev = HashOf(c), !.p = f.p + 1, !.finalized = FALSE]
    OBVIOUS
  <2>5. /\ Only(o, f, {"prev", "p", "finalized"}) /\ o.prev = HashOf(c) /\ o.p = f.p + 1
    BY <2>3, <2>4, FieldNames DEF Only, IsWalk
  <2>6. CASE ~Signed(w, c)
    <3>1. v = o
      BY <1>1, <1>5, <2>4, <2>6 DEF WalkRecord, Checked, Counted
    <3> QED BY <1>1, <1>5, <2>5, <2>6, <3>1
  <2>7. CASE Signed(w, c)
    <3>1. PICK tr, fi, se, sn, la :
            /\ tr = (o.trusted \/ (w.signer_ok /\ Accept(w, n, w.p, HashOf(c)) = "ok"))
            /\ fi = (c.datum.event = Finalized)
            /\ se = (o.sealed \/ c.datum.event = Sealed)
            /\ sn = IF <<n, w.p>> = <<saved.segment, saved.record_id>>
                    THEN <<HashOf(c), f.ordinal>> ELSE o.seen
            /\ la = <<[segment |-> n, record |-> w.p, hash |-> HashOf(c), event |-> c.datum.event]>>
      OBVIOUS
    <3>2. v = [o EXCEPT !.trusted = tr, !.finalized = fi, !.sealed = se,
                        !.last_ts = c.datum.ts_wall, !.seen = sn, !.last = la]
      BY <1>1, <1>5, <2>4, <2>7, <3>1 DEF WalkRecord, Checked, Counted
    <3>3. DOMAIN o = Fields /\ IsWalk(o)
      BY <2>5 DEF Only, IsWalk
    <3>4. /\ Only(v, o, {"trusted", "finalized", "sealed", "last_ts", "seen", "last"})
          /\ v.trusted = tr /\ v.seen = sn /\ v.last = la
      BY <3>2, <3>3, FieldNames DEF Only, IsWalk
    <3>5. v.prev = o.prev /\ v.p = o.p /\ o.trusted = f.trusted /\ o.seen = f.seen
      BY <2>5, <3>4, FieldNames DEF Only
    <3>6. tr => f.trusted \/ w.signer_ok
      BY <3>1, <3>5
    <3>7. Only(v, f, RecordFields \ {"violations", "stopped", "over", "prev_final", "ordinal"})
      BY <2>5, <3>4 DEF Only, RecordFields
    <3>8. Moves(v, f, w, n, c)
      BY <2>5, <3>1, <3>4, <3>5, <3>6, <3>7 DEF Moves
    <3> QED BY <1>1, <1>5, <2>7, <3>8
  <2> QED BY <2>6, <2>7
<1> QED BY <1>1, <1>2, <1>3, <1>4, <1>5

LEMMA CountWalk ==
  ASSUME NEW w, IsWalk(w)
  PROVE  Only(Counted(w), w, {"ordinal"}) /\ Counted(w).ordinal = w.ordinal + 1
<1>1. DOMAIN w = Fields
  BY DEF IsWalk
<1> QED BY <1>1, FieldNames DEF Only, IsWalk, Counted

LEMMA WalkRecordOnly ==
  ASSUME NEW w, IsWalk(w), NEW n, NEW c
  PROVE  Only(WalkRecord(n, w, c), w, RecordFields)
<1>1. PICK v, g, f, t :
        /\ v = WalkRecord(n, w, c) /\ g = Counted(w)
        /\ f = Checked(w, n, c)
        /\ t = Violation(w, n, <<"TornTail">>)
  OBVIOUS
<1>2. Only(g, w, {"ordinal"}) /\ IsWalk(g)
  BY <1>1, CountWalk DEF Only
<1>3. /\ Only(f, g, {"violations", "stopped"}) /\ Only(t, w, {"violations", "stopped"})
      /\ IsWalk(f) /\ IsWalk(t)
  BY <1>1, <1>2, ViolationWalk DEF Only, Checked
<1>13. PICK o : o = Noted(w, n)
  OBVIOUS
<1>14. Only(o, w, {"warned"}) /\ IsWalk(o)
  BY <1>13, NotedWalk DEF Only
<1>15. Only(Abandon(o), o, {"over", "prev_final"})
  BY <1>14, AbandonWalk
<1>4. /\ Only(Abandon(w), w, {"over", "prev_final"}) /\ Only(Abandon(f), f, {"over", "prev_final"})
      /\ Only(Abandon(t), t, {"over", "prev_final"})
  BY <1>3, AbandonWalk
<1>5. Only(f, w, {"violations", "stopped", "ordinal"})
  BY <1>2, <1>3 DEF Only
<1>6. \/ v = w \/ v = Abandon(w) \/ v = Abandon(t) \/ v = Abandon(f) \/ v = Abandon(o)
      \/ Only(v, f, {"prev", "p", "finalized"})
      \/ Only(v, f, RecordFields \ {"violations", "stopped", "over", "prev_final", "ordinal"})
  BY <1>1, <1>13, WalkRecordCases DEF Moves
<1>7. CASE v = w
  BY <1>1, <1>7 DEF Only
<1>8. CASE v = Abandon(w)
  BY <1>1, <1>4, <1>8 DEF Only, RecordFields
<1>9. CASE v = Abandon(t)
  BY <1>1, <1>3, <1>4, <1>9 DEF Only, RecordFields
<1>10. CASE v = Abandon(f)
  BY <1>1, <1>4, <1>5, <1>10 DEF Only, RecordFields
<1>11. CASE Only(v, f, {"prev", "p", "finalized"})
  BY <1>1, <1>5, <1>11 DEF Only, RecordFields
<1>12. CASE Only(v, f, RecordFields \ {"violations", "stopped", "over", "prev_final", "ordinal"})
  BY <1>1, <1>5, <1>12 DEF Only, RecordFields
<1>16. CASE v = Abandon(o)
  BY <1>1, <1>14, <1>15, <1>16 DEF Only, RecordFields
<1> QED BY <1>6, <1>7, <1>8, <1>9, <1>10, <1>11, <1>12, <1>16

\* A walk that is still without findings takes the record, or leaves it.
LEMMA WalkRecordClean ==
  ASSUME NEW w, Sane(w), NEW n \in Int, NEW c
  PROVE  LET v == WalkRecord(n, w, c) IN
         /\ Sane(v)
         /\ Clean(v) => /\ Clean(w)
                        /\ \/ Only(v, w, {"over", "prev_final", "warned"})
                           \/ c.kind = "record" /\ Passes(w, n, c) /\ Taken(v, w, n, c)
<1>0. IsWalk(w)
  BY DEF Sane
<1>1. PICK v, g, q, f, t :
        /\ v = WalkRecord(n, w, c) /\ g = Counted(w)
        /\ q = Kinds(RecordChecks(w, n, c)) /\ f = Checked(w, n, c)
        /\ t = Violation(w, n, <<"TornTail">>)
  OBVIOUS
<1>2. Only(g, w, {"ordinal"}) /\ g.ordinal = w.ordinal + 1 /\ Sane(g) /\ (Clean(g) <=> Clean(w))
  <2>1. Only(g, w, {"ordinal"}) /\ g.ordinal = w.ordinal + 1
    BY <1>0, <1>1, CountWalk
  <2>2. "violations" \notin {"ordinal"} /\ "stopped" \notin {"ordinal"}
    OBVIOUS
  <2> QED BY <2>1, <2>2, SaneOnly
<1>3. q \in Seq(Words) /\ (q = << >> => Passes(w, n, c))
  BY <1>1, RecordChecksOf
<1>4. Sane(f) /\ (Clean(f) => f = g /\ q = << >> /\ Clean(g))
  BY <1>1, <1>2, <1>3, ViolationFinds DEF Checked
<1>5. Sane(t) /\ ~Clean(t)
  <2>1. <<"TornTail">> \in Seq(Words) /\ <<"TornTail">> # << >>
    BY DEF Words
  <2> QED BY <1>1, <2>1, ViolationFinds
<1>6. ASSUME NEW x, Sane(x)
      PROVE  Sane(Abandon(x)) /\ (Clean(Abandon(x)) <=> Clean(x))
  <2>1. Only(Abandon(x), x, {"over", "prev_final"})
    BY <1>6, AbandonWalk DEF Sane
  <2>2. "violations" \notin {"over", "prev_final"} /\ "stopped" \notin {"over", "prev_final"}
    OBVIOUS
  <2> QED BY <1>6, <2>1, <2>2, SaneOnly
<1>7. \/ v = w
      \/ v = Abandon(w)
      \/ v = Abandon(Noted(w, n))
      \/ v = Abandon(t)
      \/ v = Abandon(f) /\ f.stopped
      \/ ~Signed(w, c) /\ Only(v, f, {"prev", "p", "finalized"})
      \/ c.kind = "record" /\ Signed(w, c) /\ Moves(v, f, w, n, c)
  BY <1>0, <1>1, WalkRecordCases
<1>8. CASE v = w
  <2>1. Only(w, w, {"over", "prev_final", "warned"})
    BY <1>0 DEF Only
  <2> QED BY <1>1, <1>8, <2>1
<1>9. CASE v = Abandon(w)
  <2>1. Only(v, w, {"over", "prev_final"})
    BY <1>0, <1>9, AbandonWalk
  <2>2. Only(v, w, {"over", "prev_final", "warned"})
    BY <2>1 DEF Only
  <2> QED BY <1>1, <1>6, <1>9, <2>2
<1>14. CASE v = Abandon(Noted(w, n))
  <2>1. PICK o : o = Noted(w, n)
    OBVIOUS
  <2>2. Only(o, w, {"warned"}) /\ IsWalk(o)
    BY <1>0, <2>1, NotedWalk DEF Only
  <2>3. Only(v, o, {"over", "prev_final"})
    BY <1>14, <2>1, <2>2, AbandonWalk
  <2>4. Only(v, w, {"over", "prev_final", "warned"})
    BY <2>2, <2>3 DEF Only
  <2>5. "violations" \notin {"over", "prev_final", "warned"}
        /\ "stopped" \notin {"over", "prev_final", "warned"}
    OBVIOUS
  <2>6. Sane(v) /\ (Clean(v) <=> Clean(w))
    BY <2>4, <2>5, SaneOnly
  <2> QED BY <1>1, <2>4, <2>6
<1>10. CASE v = Abandon(t)
  BY <1>1, <1>5, <1>6, <1>10
<1>11. CASE v = Abandon(f) /\ f.stopped
  <2>1. ~Clean(f)
    BY <1>4, <1>11 DEF Sane, Clean
  <2> QED BY <1>1, <1>4, <1>6, <1>11, <2>1
<1>12. CASE ~Signed(w, c) /\ Only(v, f, {"prev", "p", "finalized"})
  <2>1. "violations" \notin {"prev", "p", "finalized"} /\ "stopped" \notin {"prev", "p", "finalized"}
    OBVIOUS
  <2>2. Sane(v) /\ (Clean(v) <=> Clean(f))
    BY <1>4, <1>12, <2>1, SaneOnly
  <2>3. ~Clean(f)
    BY <1>3, <1>4, <1>12 DEF Passes
  <2> QED BY <1>1, <2>2, <2>3
<1>13. CASE c.kind = "record" /\ Signed(w, c) /\ Moves(v, f, w, n, c)
  <2>1. PICK C : C = RecordFields \ {"violations", "stopped", "over", "prev_final", "ordinal"}
    OBVIOUS
  <2>2. "violations" \notin C /\ "stopped" \notin C
    BY <2>1
  <2>3. Sane(v) /\ (Clean(v) <=> Clean(f))
    BY <1>4, <1>13, <2>1, <2>2, SaneOnly DEF Moves
  <2>4. ASSUME Clean(f) PROVE Taken(v, w, n, c) /\ Passes(w, n, c) /\ Clean(w)
    <3>1. f = g /\ Clean(w) /\ Passes(w, n, c)
      BY <1>2, <1>3, <1>4, <2>4
    <3>2. Only(v, w, RecordFields \ {"violations", "stopped", "over", "prev_final"})
      BY <1>2, <1>13, <3>1 DEF Only, RecordFields, Moves
    <3>3. g.p = w.p /\ g.trusted = w.trusted /\ g.seen = w.seen /\ g.ordinal = w.ordinal + 1
      BY <1>2, FieldNames DEF Only
    <3>4. v.ordinal = g.ordinal
      BY <1>13, <3>1, FieldNames DEF Only, Moves, RecordFields
    <3> QED BY <1>13, <3>1, <3>2, <3>3, <3>4 DEF Taken, Moves
  <2> QED BY <1>1, <1>13, <2>3, <2>4
<1> QED BY <1>7, <1>8, <1>9, <1>10, <1>11, <1>12, <1>13, <1>14

-----------------------------------------------------------------------------
(* What a walk without findings has established.                             *)

\* A record under the chain's own key is one the chain commits to.
Vouches(c, h) ==
  c.kind = "record" =>
    /\ h # << >>
    /\ c.sig = h[1].key_id => /\ HashOf(c) \in Hash /\ HashOf(c) # << >>
                              /\ HashOf(c)[Len(HashOf(c))] = c.datum
                              /\ Commits(h, c)

\* (segment, record) positions, and whether one is before another.
IsPlace(i, p) == i \in Nat /\ p \in Nat
Before(i, p, j, q) == i < j \/ (i = j /\ p < q)

\* The hash h of a record at a place, with this event, is in the chain.
CommittedAt(h, i, p, event) ==
  /\ h \in Hash /\ h # << >> /\ IsPrefixOf(h, chain)
  /\ h[Len(h)].segment_index = i /\ h[Len(h)].record_id = p
  /\ h[Len(h)].event = event /\ event # "header"

Committed(l) == CommittedAt(l.hash, l.segment, l.record, l.event)

\* The log is read as its writer left it, or names its key.
Authentic(w) == edited = "none" \/ w.seg0[1].datum.key_id = chain[1].key_id

\* The last record taken.
SoundLast(w) ==
  w.last # << >> =>
    /\ IsPlace(w.last[1].segment, w.last[1].record) /\ chain # << >> /\ w.seg0 # << >>
    /\ Authentic(w) => Committed(w.last[1])
    /\ edited = "none" => SameSigner(w.seg0[1].datum, chain[1])

\* The saved head has been passed when it was seen.
SoundSeen(w) ==
  w.seen # << >> => /\ w.last # << >>
                    /\ ~Before(w.last[1].segment, w.last[1].record,
                               saved.segment, saved.record_id)

SoundTrust(w) ==
  /\ w.trusted => w.signer_ok /\ w.last # << >>
  /\ w.signer_ok => w.seg0[1].datum.key_id \in w.opts.pinned

\* The records of a retired or revoked key end at the head its statement names.
SoundEnd(w) ==
  /\ w.signer_ok /\ w.last # << >>
  /\ saved.kind = "statement" /\ saved.key_id = w.seg0[1].datum.key_id
  => /\ saved.log_id = w.seg0[1].datum.log_id
     /\ ~After(w.last[1].segment, w.last[1].record, saved)
     /\ w.seen # << >> => w.seen[1] = saved.record_hash

Sound(w) == SoundLast(w) /\ SoundSeen(w) /\ SoundTrust(w) /\ SoundEnd(w)

\* The walk is at place p of segment n.
StandsAt(w, n, p) ==
  /\ IsPlace(n, p)
  /\ w.last # << >> => Before(w.last[1].segment, w.last[1].record, n, p)

\* The header of the segment being read.
HeaderFits(w) ==
  /\ w.seg0 # << >>
  /\ SameSigner(w.header[1].datum, w.seg0[1].datum)
  /\ edited = "none" /\ chain # << >> => SameSigner(w.header[1].datum, chain[1])

\* In segment n, and between the segments.
InSegment(w, n) == Sound(w) /\ StandsAt(w, n, w.p) /\ HeaderFits(w)
Reading(w, n) == Sane(w) /\ (Clean(w) => InSegment(w, n))

Between(w) ==
  /\ Sane(w)
  /\ Clean(w) => /\ Sound(w) /\ StandsAt(w, w.expected, 0)
                 /\ w.expected > 0 => w.seg0 # << >>

SavedInts == IsPlace(saved.segment, saved.record_id)

\* A record without findings is taken soundly.
LEMMA TakenSound ==
  ASSUME SavedInts, chain \in Hash, NEW w, NEW n \in Nat, InSegment(w, n),
         NEW c, c.kind = "record", Vouches(c, chain), Passes(w, n, c), NEW v, Taken(v, w, n, c)
  PROVE  InSegment(v, n)
<1>1. PICK l : l = [segment |-> n, record |-> w.p, hash |-> HashOf(c), event |-> c.datum.event]
  OBVIOUS
<1>2. /\ v.last = <<l>> /\ v.p = w.p + 1 /\ v.last # << >> /\ v.last[1] = l
      /\ l.segment = n /\ l.record = w.p /\ l.hash = HashOf(c) /\ l.event = c.datum.event
      /\ v.trusted => w.trusted \/ w.signer_ok
      /\ v.seen = IF <<n, w.p>> = <<saved.segment, saved.record_id>>
                  THEN <<HashOf(c), w.ordinal + 1>> ELSE w.seen
  BY <1>1 DEF Taken
<1>3. v.header = w.header /\ v.seg0 = w.seg0 /\ v.signer_ok = w.signer_ok /\ v.opts = w.opts
  BY FieldNames DEF Taken, Only, RecordFields
<1>4. IsPlace(n, w.p) /\ w.p \in Nat
  BY DEF InSegment, StandsAt, IsPlace
<1>5. StandsAt(v, n, v.p)
  BY <1>2, <1>4 DEF StandsAt, IsPlace, Before
<1>6. HeaderFits(v)
  BY <1>3 DEF InSegment, HeaderFits
<1>7. chain # << >>
  BY DEF Vouches
<1>8. SoundLast(v)
  <2>1. ASSUME Authentic(v) PROVE Committed(l)
    <3>1. w.header[1].datum.key_id = chain[1].key_id
      BY <1>3, <1>7, <2>1 DEF Authentic, InSegment, HeaderFits, SameSigner
    <3>2. c.sig = chain[1].key_id
      BY <3>1 DEF Passes, Signed
    <3>3. /\ HashOf(c) \in Hash /\ HashOf(c) # << >> /\ HashOf(c)[Len(HashOf(c))] = c.datum
          /\ IsPrefixOf(HashOf(c), chain) /\ c.datum.event # "header"
      BY <3>2 DEF Vouches, Commits
    <3>4. c.datum.segment_index = n /\ c.datum.record_id = w.p
      BY DEF Passes
    <3> QED BY <1>2, <3>3, <3>4 DEF Committed, CommittedAt
  <2>2. edited = "none" => SameSigner(v.seg0[1].datum, chain[1])
    BY <1>3, <1>7 DEF InSegment, HeaderFits, SameSigner
  <2>3. v.seg0 # << >>
    BY <1>6 DEF HeaderFits
  <2> QED BY <1>2, <1>4, <1>7, <2>1, <2>2, <2>3 DEF SoundLast
<1>9. SoundSeen(v)
  <2>1. saved.segment \in Nat /\ saved.record_id \in Nat
    BY DEF SavedInts, IsPlace
  <2>2. CASE <<n, w.p>> = <<saved.segment, saved.record_id>>
    <3>1. n = saved.segment /\ w.p = saved.record_id
      BY <2>2
    <3>2. ~Before(n, w.p, saved.segment, saved.record_id)
      BY <1>4, <2>1, <3>1 DEF Before
    <3> QED BY <1>2, <3>2 DEF SoundSeen
  <2>3. CASE <<n, w.p>> # <<saved.segment, saved.record_id>> /\ w.seen # << >>
    <3>1. PICK i, p : i = w.last[1].segment /\ p = w.last[1].record
      OBVIOUS
    <3>2. w.last # << >> /\ ~Before(i, p, saved.segment, saved.record_id)
      BY <2>3, <3>1 DEF InSegment, Sound, SoundSeen
    <3>3. i \in Nat /\ p \in Nat /\ Before(i, p, n, w.p)
      BY <3>1, <3>2 DEF InSegment, StandsAt, Sound, SoundLast, IsPlace
    <3>4. ~Before(n, w.p, saved.segment, saved.record_id)
      BY <1>4, <2>1, <3>2, <3>3 DEF Before
    <3> QED BY <1>2, <3>4 DEF SoundSeen
  <2>4. CASE <<n, w.p>> # <<saved.segment, saved.record_id>> /\ w.seen = << >>
    BY <1>2, <2>4 DEF SoundSeen
  <2> QED BY <2>2, <2>3, <2>4
<1>10. SoundTrust(v)
  BY <1>2, <1>3 DEF InSegment, Sound, SoundTrust
<1>11. SoundEnd(v)
  <2> SUFFICES ASSUME v.signer_ok, saved.kind = "statement",
                      saved.key_id = v.seg0[1].datum.key_id
               PROVE  /\ saved.log_id = v.seg0[1].datum.log_id
                      /\ ~After(n, w.p, saved)
                      /\ v.seen # << >> => v.seen[1] = saved.record_hash
    BY <1>2 DEF SoundEnd
  <2>1. /\ w.signer_ok /\ saved.key_id = w.header[1].datum.key_id
        /\ w.header[1].datum.log_id = v.seg0[1].datum.log_id
    BY <1>3 DEF InSegment, HeaderFits, SameSigner
  <2>2. Accept(w, n, w.p, HashOf(c)) = "ok"
    BY <2>1 DEF Passes
  <2>3. /\ saved.log_id = w.header[1].datum.log_id /\ ~After(n, w.p, saved)
        /\ <<n, w.p>> = <<saved.segment, saved.record_id>> => HashOf(c) = saved.record_hash
    BY <2>1, <2>2 DEF Accept
  <2>4. v.seen # << >> => v.seen[1] = saved.record_hash
    <3>1. CASE <<n, w.p>> = <<saved.segment, saved.record_id>>
      <4>1. PICK h : h = HashOf(c)
        OBVIOUS
      <4>2. v.seen[1] = h
        BY <1>2, <3>1, <4>1
      <4> QED BY <2>3, <3>1, <4>1, <4>2
    <3>2. CASE <<n, w.p>> # <<saved.segment, saved.record_id>>
      <4>1. v.seen = w.seen
        BY <1>2, <3>2
      <4>2. w.seen # << >> => w.last # << >>
        BY DEF InSegment, Sound, SoundSeen
      <4> QED BY <1>3, <2>1, <4>1, <4>2 DEF InSegment, Sound, SoundEnd
    <3> QED BY <3>1, <3>2
  <2> QED BY <2>1, <2>3, <2>4
<1> QED BY <1>5, <1>6, <1>8, <1>9, <1>10, <1>11 DEF InSegment, Sound

\* Fields that nothing here looks at.
LEMMA SoundOnly ==
  ASSUME NEW w, NEW v, NEW C, Only(v, w, C),
         C \cap {"last", "seen", "trusted", "signer_ok", "opts", "seg0"} = {}
  PROVE  /\ Sound(w) => Sound(v)
         /\ \A n, p : StandsAt(w, n, p) => StandsAt(v, n, p)
<1>1. /\ v.last = w.last /\ v.seen = w.seen /\ v.trusted = w.trusted
      /\ v.signer_ok = w.signer_ok /\ v.opts = w.opts /\ v.seg0 = w.seg0
  BY FieldNames DEF Only
<1>2. Sound(w) => Sound(v)
  BY <1>1 DEF Sound, SoundLast, SoundSeen, SoundTrust, SoundEnd, Authentic
<1>3. \A n, p : StandsAt(w, n, p) => StandsAt(v, n, p)
  BY <1>1 DEF StandsAt
<1> QED BY <1>2, <1>3

LEMMA WalkRecordReads ==
  ASSUME SavedInts, chain \in Hash, NEW w, NEW n \in Nat, Reading(w, n),
         NEW c, Vouches(c, chain)
  PROVE  Reading(WalkRecord(n, w, c), n)
<1>1. PICK v : v = WalkRecord(n, w, c)
  OBVIOUS
<1>2. Sane(w) /\ n \in Int
  BY DEF Reading
<1>3. /\ Sane(v)
      /\ Clean(v) => /\ Clean(w)
                     /\ \/ Only(v, w, {"over", "prev_final", "warned"})
                        \/ c.kind = "record" /\ Passes(w, n, c) /\ Taken(v, w, n, c)
  BY <1>1, <1>2, WalkRecordClean
<1>4. ASSUME Clean(v) PROVE InSegment(v, n)
  <2>1. InSegment(w, n)
    BY <1>3, <1>4 DEF Reading
  <2>2. CASE Only(v, w, {"over", "prev_final", "warned"})
    <3>1. {"over", "prev_final", "warned"}
            \cap {"last", "seen", "trusted", "signer_ok", "opts", "seg0"} = {}
      OBVIOUS
    <3>2. (Sound(w) => Sound(v)) /\ \A m, p : StandsAt(w, m, p) => StandsAt(v, m, p)
      BY <2>2, <3>1, SoundOnly
    <3>3. v.p = w.p /\ v.header = w.header /\ v.seg0 = w.seg0
      BY <2>2, FieldNames DEF Only
    <3> QED BY <2>1, <3>2, <3>3 DEF InSegment, HeaderFits
  <2>3. CASE c.kind = "record" /\ Passes(w, n, c) /\ Taken(v, w, n, c)
    BY <2>1, <2>3, TakenSound
  <2> QED BY <1>3, <1>4, <2>2, <2>3
<1> QED BY <1>1, <1>3, <1>4 DEF Reading

\* The records of a segment.
LEMMA WalkRecordsOnly ==
  ASSUME NEW w, IsWalk(w), NEW n, NEW s, Len(s) \in Nat, Len(s) >= 1
  PROVE  Only(WalkRecords(w, n, s), w, RecordFields)
<1>1. PICK a : WalksTo(a, w, n, s) /\ WalkRecords(w, n, s) = a[Len(s)]
  BY WalkRecordsDef
<1>2. PICK N : N = Len(s)
  OBVIOUS
<1>3. N \in Nat /\ N >= 1 /\ a[1] = w /\ \A m \in 2..N : a[m] = WalkRecord(n, a[m-1], s[m])
  BY <1>1, <1>2 DEF WalksTo
<1>4. Only(a[N], w, RecordFields)
  <2> DEFINE T == {m \in 0..(N-1) : Only(a[m+1], w, RecordFields)}
  <2>1. 0 \in T
    <3>1. 0 \in 0..(N-1) /\ a[0+1] = w
      BY <1>3
    <3> QED BY <3>1 DEF Only
  <2>2. ASSUME NEW m \in 0..((N-1)-1), m \in T PROVE m + 1 \in T
    <3>1. PICK u, v : u = a[m+1] /\ v = a[(m+1)+1]
      OBVIOUS
    <3>2. m + 1 \in 0..(N-1) /\ (m+1)+1 \in 2..N /\ ((m+1)+1)-1 = m+1
      BY <1>3
    <3>3. v = WalkRecord(n, u, s[(m+1)+1]) /\ Only(u, w, RecordFields)
      BY <1>3, <2>2, <3>1, <3>2
    <3>4. Only(v, u, RecordFields)
      BY <3>3, WalkRecordOnly DEF Only
    <3>5. Only(v, w, RecordFields)
      BY <3>3, <3>4 DEF Only
    <3> QED BY <3>1, <3>2, <3>5
  <2>3. N - 1 \in Nat
    BY <1>3
  <2>4. \A m \in 0..(N-1) : m \in T
    <3> HIDE DEF T
    <3> QED BY <2>1, <2>2, <2>3, UpTo
  <2>5. N - 1 \in 0..(N-1) /\ (N-1)+1 = N
    BY <1>3
  <2>6. N - 1 \in T
    <3> HIDE DEF T
    <3> QED BY <2>4, <2>5
  <2> QED BY <2>5, <2>6
<1> QED BY <1>1, <1>2, <1>4

LEMMA WalkRecordsReads ==
  ASSUME SavedInts, chain \in Hash, NEW w, NEW n \in Nat, Reading(w, n),
         NEW s, Len(s) \in Nat, Len(s) >= 1, \A m \in 2..Len(s) : Vouches(s[m], chain)
  PROVE  Reading(WalkRecords(w, n, s), n)
<1>1. PICK a : WalksTo(a, w, n, s) /\ WalkRecords(w, n, s) = a[Len(s)]
  BY WalkRecordsDef
<1>2. PICK N : N = Len(s)
  OBVIOUS
<1>3. N \in Nat /\ N >= 1 /\ a[1] = w /\ \A m \in 2..N : a[m] = WalkRecord(n, a[m-1], s[m])
  BY <1>1, <1>2 DEF WalksTo
<1>4. Reading(a[N], n)
  <2> DEFINE T == {m \in 0..(N-1) : Reading(a[m+1], n)}
  <2>1. 0 \in T
    <3>1. 0 \in 0..(N-1) /\ a[0+1] = w
      BY <1>3
    <3> QED BY <3>1
  <2>2. ASSUME NEW m \in 0..((N-1)-1), m \in T PROVE m + 1 \in T
    <3>1. PICK u, v, c : u = a[m+1] /\ v = a[(m+1)+1] /\ c = s[(m+1)+1]
      OBVIOUS
    <3>2. m + 1 \in 0..(N-1) /\ (m+1)+1 \in 2..N /\ ((m+1)+1)-1 = m+1
      BY <1>3
    <3>3. v = WalkRecord(n, u, c) /\ Reading(u, n) /\ Vouches(c, chain)
      BY <1>2, <1>3, <2>2, <3>1, <3>2
    <3>4. Reading(v, n)
      BY <3>3, WalkRecordReads
    <3> QED BY <3>1, <3>2, <3>4
  <2>3. N - 1 \in Nat
    BY <1>3
  <2>4. \A m \in 0..(N-1) : m \in T
    <3> HIDE DEF T
    <3> QED BY <2>1, <2>2, <2>3, UpTo
  <2>5. N - 1 \in 0..(N-1) /\ (N-1)+1 = N
    BY <1>3
  <2>6. N - 1 \in T
    <3> HIDE DEF T
    <3> QED BY <2>4, <2>5
  <2> QED BY <2>5, <2>6
<1> QED BY <1>1, <1>2, <1>4

\* The steps of a segment around its records.
LEMMA ContinuityOnly ==
  ASSUME NEW w, IsWalk(w), NEW n
  PROVE  LET v == Continuity(w, n) IN
         /\ Only(v, w, {"violations", "stopped", "expected", "over", "p", "finalized", "prev_final"})
         /\ v.expected = n + 1 /\ v.over = FALSE /\ v.p = 0
<1>1. PICK q : q = IF n # w.expected \/ (n > 0 /\ ~w.hadRecords)
                   THEN <<"SegmentDiscontinuity">> ELSE << >>
  OBVIOUS
<1>2. PICK u : u = Violation(w, n, q)
  OBVIOUS
<1>9. PICK x : x = IF n # w.expected \/ (n > 0 /\ ~w.hadRecords) THEN << >> ELSE u.prev_final
  OBVIOUS
<1>3. Only(u, w, {"violations", "stopped"}) /\ DOMAIN u = Fields
  <2>1. Only(u, w, {"violations", "stopped"})
    BY <1>2, ViolationWalk
  <2> QED BY <2>1 DEF Only, IsWalk
<1>4. PICK v : v = Continuity(w, n)
  OBVIOUS
<1>5. v = [u EXCEPT !.expected = n + 1, !.over = FALSE, !.p = 0, !.finalized = FALSE,
                    !.prev_final = x]
  BY <1>1, <1>2, <1>9, <1>4 DEF Continuity
<1>6. /\ Only(v, u, {"expected", "over", "p", "finalized", "prev_final"})
      /\ v.expected = n + 1 /\ v.over = FALSE /\ v.p = 0
  BY <1>3, <1>5, FieldNames DEF Only, IsWalk
<1> QED BY <1>3, <1>4, <1>6 DEF Only

LEMMA ContinuityClean ==
  ASSUME NEW w, Sane(w), NEW n \in Nat
  PROVE  /\ Sane(Continuity(w, n))
         /\ Clean(Continuity(w, n)) => /\ Clean(w) /\ n = w.expected
                                       /\ Only(Continuity(w, n), w,
                                               {"expected", "over", "p", "finalized", "prev_final"})
<1>1. PICK q : q = IF n # w.expected \/ (n > 0 /\ ~w.hadRecords)
                   THEN <<"SegmentDiscontinuity">> ELSE << >>
  OBVIOUS
<1>2. PICK u : u = Violation(w, n, q)
  OBVIOUS
<1>11. PICK x : x = IF n # w.expected \/ (n > 0 /\ ~w.hadRecords) THEN << >> ELSE u.prev_final
  OBVIOUS
<1>3. q \in Seq(Words) /\ (q = << >> => n = w.expected)
  <2>1. <<"SegmentDiscontinuity">> \in Seq(Words) /\ << >> \in Seq(Words)
        /\ <<"SegmentDiscontinuity">> # << >>
    BY DEF Words
  <2> QED BY <1>1, <2>1
<1>4. Sane(u) /\ (Clean(u) => u = w /\ q = << >> /\ Clean(w))
  BY <1>2, <1>3, ViolationFinds
<1>5. PICK v : v = Continuity(w, n)
  OBVIOUS
<1>6. v = [u EXCEPT !.expected = n + 1, !.over = FALSE, !.p = 0, !.finalized = FALSE,
                    !.prev_final = x]
  BY <1>1, <1>2, <1>11, <1>5 DEF Continuity
<1>7. DOMAIN u = Fields
  BY <1>4 DEF Sane, IsWalk
<1>8. Only(v, u, {"expected", "over", "p", "finalized", "prev_final"})
  BY <1>6, <1>7, FieldNames DEF Only, IsWalk
<1>9. "violations" \notin {"expected", "over", "p", "finalized", "prev_final"}
      /\ "stopped" \notin {"expected", "over", "p", "finalized", "prev_final"}
  OBVIOUS
<1>10. Sane(v) /\ (Clean(v) <=> Clean(u))
  BY <1>4, <1>8, <1>9, SaneOnly
<1> QED BY <1>3, <1>4, <1>5, <1>8, <1>10

LEMMA RefusalWord ==
  ASSUME NEW w, NEW s, NEW n
  PROVE  HeaderRefusal(w, s, n) = "none" \/ HeaderRefusal(w, s, n) \in Words
BY DEF HeaderRefusal, Words

\* A header that is not refused is one, and names the signer of segment 0.
LEMMA HeaderAccepted ==
  ASSUME NEW w, NEW s, NEW n, HeaderRefusal(w, s, n) = "none"
  PROVE  /\ HasHeader(s)
         /\ n > 0 /\ w.seg0 # << >> => SameSigner(s[1].datum, w.seg0[1].datum)
BY DEF HeaderRefusal, HeaderBroken, SameSigner

TrustFields == {"seg0", "violations", "stopped", "over", "prev_final", "signer_ok"}

LEMMA AbandonSane ==
  ASSUME NEW w, Sane(w)
  PROVE  Sane(Abandon(w)) /\ (Clean(Abandon(w)) <=> Clean(w))
<1>1. Only(Abandon(w), w, {"over", "prev_final"})
  BY AbandonWalk DEF Sane
<1>2. "violations" \notin {"over", "prev_final"} /\ "stopped" \notin {"over", "prev_final"}
  OBVIOUS
<1> QED BY <1>1, <1>2, SaneOnly

\* Trust in segment 0: nothing found only if the signer is pinned, or nobody is.
LEMMA Segment0TrustWalk ==
  ASSUME NEW w, IsWalk(w), NEW h
  PROVE  LET v == Segment0Trust(w, h) IN
         /\ Only(v, w, TrustFields)
         /\ Sane(w) => /\ Sane(v)
                       /\ Clean(v) => /\ Clean(w) /\ Only(v, w, {"seg0", "signer_ok"})
                                      /\ v.seg0 = <<h>>
                                      /\ v.signer_ok => h.datum.key_id \in w.opts.pinned
<1>1. PICK g, q, u, x, y, v :
        /\ g = [w EXCEPT !.seg0 = <<h>>]
        /\ q = Kinds(<< << w.opts.expect \in LogIds /\ w.opts.expect # h.datum.log_id,
                           "LogIdMismatch" >> >>)
        /\ u = Violation(g, 0, q)
        /\ x = [u EXCEPT !.violations = Append(u.violations, <<"UntrustedSigner", 0>>), !.stopped = TRUE]
        /\ y = [u EXCEPT !.signer_ok = u.opts.pinned # {}]
        /\ v = Segment0Trust(w, h)
  OBVIOUS
<1>2. v = IF u.stopped THEN Abandon(u)
          ELSE IF u.opts.pinned # {} /\ h.datum.key_id \notin u.opts.pinned THEN Abandon(x)
          ELSE y
  BY <1>1 DEF Segment0Trust
<1>3. DOMAIN w = Fields
  BY DEF IsWalk
<1>4. Only(g, w, {"seg0"}) /\ g.seg0 = <<h>> /\ IsWalk(g)
  BY <1>1, <1>3, FieldNames DEF Only, IsWalk
<1>5. Only(u, g, {"violations", "stopped"}) /\ IsWalk(u) /\ DOMAIN u = Fields
  BY <1>1, <1>4, ViolationWalk DEF Only, IsWalk
<1>6. Only(x, u, {"violations", "stopped"}) /\ IsWalk(x)
  BY <1>1, <1>5, FieldNames DEF Only, IsWalk
<1>7. Only(y, u, {"signer_ok"}) /\ y.signer_ok = (u.opts.pinned # {})
  BY <1>1, <1>5, FieldNames DEF Only, IsWalk
<1>8. Only(Abandon(u), u, {"over", "prev_final"}) /\ Only(Abandon(x), x, {"over", "prev_final"})
  BY <1>5, <1>6, AbandonWalk
<1>9. Only(v, w, TrustFields)
  <2>1. Only(Abandon(u), w, TrustFields)
    BY <1>4, <1>5, <1>8 DEF Only, TrustFields
  <2>2. Only(Abandon(x), w, TrustFields)
    BY <1>4, <1>5, <1>6, <1>8 DEF Only, TrustFields
  <2>3. Only(y, w, TrustFields)
    BY <1>4, <1>5, <1>7 DEF Only, TrustFields
  <2> QED BY <1>2, <2>1, <2>2, <2>3
<1>10. ASSUME Sane(w)
       PROVE  /\ Sane(v)
              /\ Clean(v) => /\ Clean(w) /\ Only(v, w, {"seg0", "signer_ok"})
                             /\ v.seg0 = <<h>>
                             /\ v.signer_ok => h.datum.key_id \in w.opts.pinned
  <2>1. Sane(g) /\ (Clean(g) <=> Clean(w))
    <3>1. "violations" \notin {"seg0"} /\ "stopped" \notin {"seg0"}
      OBVIOUS
    <3> QED BY <1>4, <1>10, <3>1, SaneOnly
  <2>2. q \in Seq(Words)
    <3>1. PICK c : c = << << w.opts.expect \in LogIds /\ w.opts.expect # h.datum.log_id,
                             "LogIdMismatch" >> >>
      OBVIOUS
    <3>2. Len(c) = 1 /\ c[1][2] = "LogIdMismatch" /\ \A j \in 1..1 : j = 1
      BY <3>1
    <3>3. Len(c) \in Nat /\ \A j \in 1..Len(c) : c[j][2] \in Words
      BY <3>2 DEF Words
    <3> QED BY <1>1, <3>1, <3>3, KindsOf
  <2>3. Sane(u) /\ (Clean(u) => u = g /\ Clean(g))
    <3>1. u = Violation(g, 0, q) /\ 0 \in Int /\ Sane(g)
      BY <1>1, <2>1
    <3> QED BY <2>2, <3>1, ViolationFinds
  <2>4. CASE u.stopped
    <3>1. ~Clean(u)
      BY <2>3, <2>4 DEF Sane, Clean
    <3> QED BY <1>2, <2>3, <2>4, <3>1, AbandonSane
  <2>5. CASE ~u.stopped /\ u.opts.pinned # {} /\ h.datum.key_id \notin u.opts.pinned
    <3>1. <<"UntrustedSigner", 0>> \in Finding
      BY DEF Finding, Words
    <3>2. PICK e, z : e = <<"UntrustedSigner", 0>> /\ z = Append(u.violations, e)
      OBVIOUS
    <3>3. z \in Seq(Finding) /\ z # << >>
      BY <2>3, <3>1, <3>2, AppendSome DEF Sane
    <3>4. x.violations = z
      BY <1>1, <1>5, <3>2, FieldNames DEF IsWalk
    <3>5. Sane(x) /\ ~Clean(x)
      BY <1>6, <3>3, <3>4 DEF Sane, Clean
    <3> QED BY <1>2, <2>5, <3>5, AbandonSane
  <2>6. CASE ~u.stopped /\ ~(u.opts.pinned # {} /\ h.datum.key_id \notin u.opts.pinned)
    <3>1. v = y
      BY <1>2, <2>6
    <3>2. "violations" \notin {"signer_ok"} /\ "stopped" \notin {"signer_ok"}
      OBVIOUS
    <3>3. Sane(v) /\ (Clean(v) <=> Clean(u))
      BY <1>7, <2>3, <3>1, <3>2, SaneOnly
    <3>4. ASSUME Clean(u)
          PROVE  /\ Clean(w) /\ Only(v, w, {"seg0", "signer_ok"}) /\ v.seg0 = <<h>>
                 /\ v.signer_ok => h.datum.key_id \in w.opts.pinned
      <4>1. u = g /\ Clean(w)
        BY <2>1, <2>3, <3>4
      <4>2. Only(v, w, {"seg0", "signer_ok"})
        BY <1>4, <1>7, <3>1, <4>1 DEF Only
      <4>3. v.seg0 = <<h>> /\ g.opts = w.opts
        BY <1>4, <1>7, <3>1, <4>1, FieldNames DEF Only
      <4> QED BY <1>7, <2>6, <3>1, <4>1, <4>2, <4>3
    <3> QED BY <3>3, <3>4
  <2> QED BY <2>4, <2>5, <2>6
<1> QED BY <1>1, <1>9, <1>10

EndFields == {"hadRecords", "prev_final", "noSuccessor", "over", "violations", "stopped"}

LEMMA SegmentEndWalk ==
  ASSUME NEW w, IsWalk(w), NEW n, NEW isLast
  PROVE  LET v == SegmentEnd(w, n, isLast) IN
         /\ Only(v, w, EndFields)
         /\ Sane(w) /\ n \in Int => Sane(v) /\ (Clean(v) => Clean(w))
<1>1. PICK empty, g, x, y, v :
        /\ empty = (w.p = 0 /\ n > 0 /\ isLast)
        /\ g = [w EXCEPT !.hadRecords = w.p > 0, !.prev_final = <<w.prev>>]
        /\ x = Violation(g, n, <<"SealedLogExtended">>)
        /\ y = [g EXCEPT !.noSuccessor =
                  \/ g.noSuccessor
                  \/ empty /\ w.last # << >> /\ w.last[1].event = Finalized
                  \/ w.finalized /\ isLast]
        /\ v = SegmentEnd(w, n, isLast)
  OBVIOUS
<1>2. v = w \/ v = Abandon(x) \/ v = y
  BY <1>1 DEF SegmentEnd
<1>3. DOMAIN w = Fields
  BY DEF IsWalk
<1>4. Only(g, w, {"hadRecords", "prev_final"}) /\ IsWalk(g) /\ DOMAIN g = Fields
  BY <1>1, <1>3, FieldNames DEF Only, IsWalk
<1>5. Only(x, g, {"violations", "stopped"}) /\ IsWalk(x)
  <2>1. x = Violation(g, n, <<"SealedLogExtended">>)
    BY <1>1
  <2>2. Only(x, g, {"violations", "stopped"})
    BY <1>4, <2>1, ViolationWalk
  <2> QED BY <2>2 DEF Only
<1>6. Only(y, g, {"noSuccessor"})
  BY <1>1, <1>4, FieldNames DEF Only, IsWalk
<1>7. Only(Abandon(x), x, {"over", "prev_final"})
  BY <1>5, AbandonWalk
<1>8. Only(v, w, EndFields)
  <2>1. Only(w, w, EndFields)
    BY DEF Only
  <2>2. Only(Abandon(x), w, EndFields)
    BY <1>4, <1>5, <1>7 DEF Only, EndFields
  <2>3. Only(y, w, EndFields)
    BY <1>4, <1>6 DEF Only, EndFields
  <2> QED BY <1>2, <2>1, <2>2, <2>3
<1>9. ASSUME Sane(w), n \in Int PROVE Sane(v) /\ (Clean(v) => Clean(w))
  <2>1. Sane(g) /\ (Clean(g) <=> Clean(w))
    <3>1. "violations" \notin {"hadRecords", "prev_final"} /\ "stopped" \notin {"hadRecords", "prev_final"}
      OBVIOUS
    <3> QED BY <1>4, <1>9, <3>1, SaneOnly
  <2>2. Sane(x) /\ ~Clean(x)
    <3>1. PICK q : q = <<"SealedLogExtended">>
      OBVIOUS
    <3>2. q \in Seq(Words) /\ q # << >>
      BY <3>1 DEF Words
    <3>3. x = Violation(g, n, q)
      BY <1>1, <3>1
    <3> QED BY <1>9, <2>1, <3>2, <3>3, ViolationFinds
  <2>3. Sane(y) /\ (Clean(y) <=> Clean(g))
    <3>1. "violations" \notin {"noSuccessor"} /\ "stopped" \notin {"noSuccessor"}
      OBVIOUS
    <3> QED BY <1>6, <2>1, <3>1, SaneOnly
  <2>4. Sane(Abandon(x)) /\ ~Clean(Abandon(x))
    BY <2>2, AbandonSane
  <2> QED BY <1>2, <1>9, <2>1, <2>3, <2>4
<1> QED BY <1>1, <1>8, <1>9

\* What the walk of a segment leaves alone.
Framing == {"pc", "todo", "opts", "verdict", "complete", "anchored"}
SegmentFields == Fields \ Framing

\* Segment 0 of a walk without findings: nothing was taken before it.
LEMMA FirstSegment ==
  ASSUME NEW w, Between(w), Clean(w), w.expected = 0
  PROVE  w.last = << >> /\ w.seen = << >> /\ ~w.trusted
<1>1. Sound(w) /\ StandsAt(w, 0, 0)
  BY DEF Between
<1>2. w.last = << >>
  <2> SUFFICES ASSUME w.last # << >> PROVE FALSE
    OBVIOUS
  <2>1. PICK i, p : i = w.last[1].segment /\ p = w.last[1].record
    OBVIOUS
  <2>2. i \in Nat /\ p \in Nat /\ Before(i, p, 0, 0)
    BY <1>1, <2>1 DEF Sound, SoundLast, StandsAt, IsPlace
  <2> QED BY <2>2 DEF Before
<1> QED BY <1>1, <1>2 DEF Sound, SoundSeen, SoundTrust

\* What is known of the file of a segment.
FileFits(s) ==
  /\ \A m \in 2..Len(s) : Vouches(s[m], chain)
  /\ edited = "none" /\ chain # << >> /\ HasHeader(s) => SameSigner(s[1].datum, chain[1])

\* A walk with the header of segment n in hand.
Started(x, s) == [x EXCEPT !.header = <<s[1]>>, !.prev = HashOf(s[1])]

LEMMA StartedWalk ==
  ASSUME NEW x, IsWalk(x), NEW s
  PROVE  /\ Only(Started(x, s), x, {"header", "prev"})
         /\ Started(x, s).header = <<s[1]>>
<1>1. DOMAIN x = Fields
  BY DEF IsWalk
<1>2. PICK y, h, p : y = Started(x, s) /\ h = <<s[1]>> /\ p = HashOf(s[1])
  OBVIOUS
<1>3. y = [x EXCEPT !.header = h, !.prev = p]
  BY <1>2 DEF Started
<1> QED BY <1>1, <1>2, <1>3, FieldNames DEF Only, IsWalk

\* The walk as it starts on the records of segment n.
LEMMA StartSound ==
  ASSUME NEW w, Between(w), NEW n \in Nat, NEW s, FileFits(s),
         NEW v, v = Continuity(w, n), HeaderRefusal(v, s, n) = "none",
         NEW x, x = (IF n = 0 THEN Segment0Trust(v, s[1]) ELSE v), Clean(x)
  PROVE  InSegment(Started(x, s), n) /\ x.over = FALSE
<1>1. /\ Sane(v) /\ IsWalk(v) /\ IsWalk(w)
      /\ Clean(v) => /\ Clean(w) /\ n = w.expected
                     /\ Only(v, w, {"expected", "over", "p", "finalized", "prev_final"})
  BY ContinuityClean DEF Between, Sane
<1>2. v.over = FALSE /\ v.p = 0
  BY <1>1, ContinuityOnly
<1>3. PICK h : h = s[1]
  OBVIOUS
<1>4. /\ HasHeader(s)
      /\ n > 0 /\ v.seg0 # << >> => SameSigner(h.datum, v.seg0[1].datum)
  BY <1>3, HeaderAccepted
<1>5. /\ Clean(v)
      /\ n = 0 => /\ Only(x, v, {"seg0", "signer_ok"}) /\ x.seg0 = <<h>>
                  /\ x.signer_ok => h.datum.key_id \in v.opts.pinned
  <2>1. CASE n = 0
    <3>1. x = Segment0Trust(v, h)
      BY <1>3, <2>1
    <3> QED BY <1>1, <3>1, Segment0TrustWalk
  <2> QED BY <2>1
<1>6. PICK y : y = Started(x, s)
  OBVIOUS
<1>7. IsWalk(x)
  BY <1>1, <1>5 DEF Only
<1>8. Only(y, x, {"header", "prev"}) /\ y.header = <<h>>
  BY <1>3, <1>6, <1>7, StartedWalk
<1>9. Clean(w) /\ n = w.expected /\ Only(v, w, {"expected", "over", "p", "finalized", "prev_final"})
  BY <1>1, <1>5
<1>10. {"expected", "over", "p", "finalized", "prev_final"}
         \cap {"last", "seen", "trusted", "signer_ok", "opts", "seg0"} = {}
  OBVIOUS
<1>11. Sound(v) /\ StandsAt(v, n, 0)
  <2>1. Sound(w) /\ StandsAt(w, n, 0)
    BY <1>9 DEF Between
  <2> QED BY <1>9, <1>10, <2>1, SoundOnly
<1>12. x.over = FALSE /\ x.p = 0 /\ x.last = v.last
  BY <1>2, <1>5, FieldNames DEF Only
<1>13. Sound(x) /\ x.seg0 # << >> /\ SameSigner(h.datum, x.seg0[1].datum)
  <2>1. CASE n = 0
    <3>1. w.last = << >> /\ w.seen = << >> /\ ~w.trusted
      BY <1>9, <2>1, FirstSegment
    <3>2. v.last = w.last /\ v.seen = w.seen /\ v.trusted = w.trusted
      BY <1>9, FieldNames DEF Only
    <3>3. x.last = v.last /\ x.seen = v.seen /\ x.trusted = v.trusted /\ x.opts = v.opts
      BY <1>5, <2>1, FieldNames DEF Only
    <3>4. x.seg0 = <<h>> /\ x.seg0[1] = h /\ x.seg0 # << >> /\ (x.signer_ok => h.datum.key_id \in v.opts.pinned)
      BY <1>5, <2>1
    <3>5. x.last = << >> /\ x.seen = << >> /\ ~x.trusted
      BY <3>1, <3>2, <3>3
    <3>6. SoundLast(x) /\ SoundSeen(x) /\ SoundEnd(x)
      BY <3>5 DEF SoundLast, SoundSeen, SoundEnd
    <3>7. SoundTrust(x)
      BY <3>3, <3>4, <3>5 DEF SoundTrust
    <3> QED BY <3>4, <3>6, <3>7 DEF Sound, SameSigner
  <2>2. CASE n # 0
    <3>1. x = v /\ n > 0
      BY <2>2
    <3>2. w.seg0 # << >> /\ v.seg0 = w.seg0
      BY <1>9, <3>1, FieldNames DEF Between, Only
    <3> QED BY <1>4, <1>11, <3>1, <3>2
  <2> QED BY <2>1, <2>2
<1>14. Sound(y) /\ StandsAt(y, n, 0)
  <2>1. {"header", "prev"} \cap {"last", "seen", "trusted", "signer_ok", "opts", "seg0"} = {}
    OBVIOUS
  <2>2. StandsAt(x, n, 0)
    BY <1>11, <1>12 DEF StandsAt
  <2> QED BY <1>8, <1>13, <2>1, <2>2, SoundOnly
<1>15. y.p = 0 /\ y.seg0 = x.seg0
  BY <1>8, <1>12, FieldNames DEF Only
<1>16. HeaderFits(y)
  <2>1. y.header[1] = h
    BY <1>8
  <2>2. edited = "none" /\ chain # << >> => SameSigner(h.datum, chain[1])
    BY <1>3, <1>4 DEF FileFits
  <2> QED BY <1>13, <1>15, <2>1, <2>2 DEF HeaderFits
<1> QED BY <1>6, <1>12, <1>14, <1>15, <1>16 DEF InSegment

\* How the walk of a segment ends: r from the walk v behind the continuity check
\* and x behind the trust in segment 0.
SegmentGoes(r, v, x, s, n, isLast) ==
  \/ v.stopped /\ r = v
  \/ /\ HeaderRefusal(v, s, n) # "none"
     /\ r = Abandon(Violation(v, n, <<HeaderRefusal(v, s, n)>>))
  \/ HeaderRefusal(v, s, n) = "none" /\ x.over /\ r = x
  \/ /\ HeaderRefusal(v, s, n) = "none"
     /\ r = SegmentEnd(WalkRecords(Started(x, s), n, s), n, isLast)

LEMMA SegmentCases ==
  ASSUME NEW w, NEW n, NEW s, NEW isLast,
         NEW v, v = Continuity(w, n),
         NEW x, x = (IF n = 0 THEN Segment0Trust(v, s[1]) ELSE v),
         NEW r, r = WalkSegment(w, n, s, isLast)
  PROVE  SegmentGoes(r, v, x, s, n, isLast)
BY DEF WalkSegment, Started, SegmentGoes

LEMMA WalkSegmentOnly ==
  ASSUME NEW w, IsWalk(w), NEW n \in Nat, NEW X, NEW s \in Seq(X), NEW isLast
  PROVE  Only(WalkSegment(w, n, s, isLast), w, SegmentFields)
<1>1. PICK v : v = Continuity(w, n)
  OBVIOUS
<1>2. PICK x : x = (IF n = 0 THEN Segment0Trust(v, s[1]) ELSE v)
  OBVIOUS
<1>3. PICK r : r = WalkSegment(w, n, s, isLast)
  OBVIOUS
<1>4. Only(v, w, SegmentFields) /\ IsWalk(v)
  <2>1. Only(v, w, {"violations", "stopped", "expected", "over", "p", "finalized", "prev_final"})
    BY <1>1, ContinuityOnly
  <2> QED BY <2>1, FieldNames DEF Only, SegmentFields, Framing
<1>5. Only(x, w, SegmentFields) /\ IsWalk(x)
  <2>1. CASE n = 0
    <3>1. Only(x, v, TrustFields)
      BY <1>2, <1>4, <2>1, Segment0TrustWalk
    <3> QED BY <1>4, <3>1, FieldNames DEF Only, SegmentFields, Framing, TrustFields
  <2>2. CASE n # 0
    BY <1>2, <1>4, <2>2
  <2> QED BY <2>1, <2>2
<1>6. CASE r = Abandon(Violation(v, n, <<HeaderRefusal(v, s, n)>>))
  <2>1. PICK q : q = <<HeaderRefusal(v, s, n)>>
    OBVIOUS
  <2>2. PICK u : u = Violation(v, n, q)
    OBVIOUS
  <2>3. Only(u, v, {"violations", "stopped"}) /\ IsWalk(u)
    BY <1>4, <2>2, ViolationWalk DEF Only
  <2>4. r = Abandon(u)
    BY <1>6, <2>1, <2>2
  <2>5. Only(r, u, {"over", "prev_final"})
    BY <2>3, <2>4, AbandonWalk
  <2> QED BY <1>3, <1>4, <2>3, <2>5, FieldNames DEF Only, SegmentFields, Framing
<1>7. CASE /\ HeaderRefusal(v, s, n) = "none"
           /\ r = SegmentEnd(WalkRecords(Started(x, s), n, s), n, isLast)
  <2>1. Len(s) \in Nat /\ Len(s) >= 1
    <3>1. HasHeader(s)
      BY <1>7, HeaderAccepted
    <3> QED BY <3>1 DEF HasHeader
  <2>2. PICK y : y = Started(x, s)
    OBVIOUS
  <2>3. Only(y, x, {"header", "prev"}) /\ IsWalk(y)
    <3>1. Only(y, x, {"header", "prev"})
      BY <1>5, <2>2, StartedWalk
    <3> QED BY <3>1 DEF Only
  <2>4. PICK z : z = WalkRecords(y, n, s)
    OBVIOUS
  <2>5. Only(z, y, RecordFields) /\ IsWalk(z)
    <3>1. Only(z, y, RecordFields)
      BY <2>1, <2>3, <2>4, WalkRecordsOnly
    <3> QED BY <3>1 DEF Only
  <2>6. Only(r, z, EndFields)
    BY <1>7, <2>2, <2>4, <2>5, SegmentEndWalk
  <2>7. Only(z, x, SegmentFields)
    BY <2>3, <2>5, FieldNames DEF Only, SegmentFields, Framing, RecordFields
  <2>8. Only(r, x, SegmentFields)
    BY <2>6, <2>7, FieldNames DEF Only, SegmentFields, Framing, EndFields
  <2> QED BY <1>3, <1>5, <2>8 DEF Only
<1>8. SegmentGoes(r, v, x, s, n, isLast)
  BY <1>1, <1>2, <1>3, SegmentCases
<1> QED BY <1>3, <1>4, <1>5, <1>6, <1>7, <1>8 DEF SegmentGoes

LEMMA WalkSegmentBetween ==
  ASSUME SavedInts, chain \in Hash, NEW w, Between(w), NEW n \in Nat,
         NEW X, NEW s \in Seq(X), FileFits(s), NEW isLast
  PROVE  Between(WalkSegment(w, n, s, isLast))
<1>1. PICK v : v = Continuity(w, n)
  OBVIOUS
<1>2. PICK x : x = (IF n = 0 THEN Segment0Trust(v, s[1]) ELSE v)
  OBVIOUS
<1>3. PICK r : r = WalkSegment(w, n, s, isLast)
  OBVIOUS
<1>4. Sane(w) /\ IsWalk(w)
  BY DEF Between, Sane
<1>5. Sane(v) /\ IsWalk(v)
  <2>1. Sane(v)
    BY <1>1, <1>4, ContinuityClean
  <2> QED BY <2>1 DEF Sane
<1>6. v.expected = n + 1
  BY <1>1, <1>4, ContinuityOnly
<1>7. Sane(x) /\ IsWalk(x) /\ x.expected = n + 1
  <2>1. CASE n = 0
    <3>1. x = Segment0Trust(v, s[1])
      BY <1>2, <2>1
    <3>2. Only(x, v, TrustFields) /\ Sane(x)
      BY <1>5, <3>1, Segment0TrustWalk
    <3>3. x.expected = v.expected
      BY <3>2, FieldNames DEF Only, TrustFields
    <3> QED BY <1>6, <3>2, <3>3 DEF Sane
  <2>2. CASE n # 0
    BY <1>2, <1>5, <1>6, <2>2
  <2> QED BY <2>1, <2>2
<1>8. ASSUME NEW y, Sane(y), ~Clean(y) PROVE Between(y)
  BY <1>8 DEF Between
<1>9. CASE v.stopped /\ r = v
  <2>1. ~Clean(v)
    BY <1>5, <1>9 DEF Sane, Clean
  <2> QED BY <1>3, <1>5, <1>8, <1>9, <2>1
<1>10. CASE /\ HeaderRefusal(v, s, n) # "none"
            /\ r = Abandon(Violation(v, n, <<HeaderRefusal(v, s, n)>>))
  <2>1. PICK q : q = <<HeaderRefusal(v, s, n)>>
    OBVIOUS
  <2>2. q \in Seq(Words) /\ q # << >>
    <3>1. PICK e : e = HeaderRefusal(v, s, n)
      OBVIOUS
    <3>2. e \in Words
      BY <1>10, <3>1, RefusalWord
    <3> QED BY <2>1, <3>1, <3>2
  <2>3. PICK u : u = Violation(v, n, q)
    OBVIOUS
  <2>4. Sane(u) /\ ~Clean(u)
    BY <1>5, <2>2, <2>3, ViolationFinds
  <2>5. r = Abandon(u)
    BY <1>10, <2>1, <2>3
  <2> QED BY <1>3, <1>8, <2>4, <2>5, AbandonSane
<1>11. CASE HeaderRefusal(v, s, n) = "none" /\ x.over /\ r = x
  <2>1. ~Clean(x)
    BY <1>1, <1>2, <1>11, StartSound
  <2> QED BY <1>3, <1>7, <1>8, <1>11, <2>1
<1>12. CASE /\ HeaderRefusal(v, s, n) = "none"
            /\ r = SegmentEnd(WalkRecords(Started(x, s), n, s), n, isLast)
  <2>1. Len(s) \in Nat /\ Len(s) >= 1
    <3>1. HasHeader(s)
      BY <1>12, HeaderAccepted
    <3> QED BY <3>1 DEF HasHeader
  <2>2. PICK y : y = Started(x, s)
    OBVIOUS
  <2>3. Only(y, x, {"header", "prev"}) /\ Sane(y) /\ (Clean(y) <=> Clean(x))
    <3>1. Only(y, x, {"header", "prev"})
      BY <1>7, <2>2, StartedWalk
    <3>2. "violations" \notin {"header", "prev"} /\ "stopped" \notin {"header", "prev"}
      OBVIOUS
    <3> QED BY <1>7, <3>1, <3>2, SaneOnly
  <2>4. Reading(y, n)
    <3>1. Clean(x) => InSegment(y, n)
      BY <1>1, <1>2, <1>12, <2>2, StartSound
    <3> QED BY <2>3, <3>1 DEF Reading
  <2>5. PICK z : z = WalkRecords(y, n, s)
    OBVIOUS
  <2>6. Reading(z, n)
    <3>1. \A m \in 2..Len(s) : Vouches(s[m], chain)
      BY DEF FileFits
    <3> QED BY <2>1, <2>4, <2>5, <3>1, WalkRecordsReads
  <2>7. r = SegmentEnd(z, n, isLast)
    BY <1>12, <2>2, <2>5
  <2>8. Only(r, z, EndFields) /\ Sane(r) /\ (Clean(r) => Clean(z))
    <3>1. IsWalk(z) /\ Sane(z) /\ n \in Int
      BY <2>6 DEF Reading, Sane
    <3> QED BY <2>7, <3>1, SegmentEndWalk
  <2>9. Only(z, y, RecordFields)
    <3>1. IsWalk(y)
      BY <2>3 DEF Sane
    <3> QED BY <2>1, <2>5, <3>1, WalkRecordsOnly
  <2>10. r.expected = n + 1
    <3>1. r.expected = z.expected
      BY <2>8, FieldNames DEF Only, EndFields
    <3>2. z.expected = y.expected
      BY <2>9, FieldNames DEF Only, RecordFields
    <3>3. y.expected = x.expected
      BY <2>3, FieldNames DEF Only
    <3> QED BY <1>7, <3>1, <3>2, <3>3
  <2>11. ASSUME Clean(r)
         PROVE  Sound(r) /\ StandsAt(r, n + 1, 0)
    <3>1. InSegment(z, n)
      BY <2>6, <2>8, <2>11 DEF Reading
    <3>2. EndFields \cap {"last", "seen", "trusted", "signer_ok", "opts", "seg0"} = {}
      BY DEF EndFields
    <3>3. (Sound(z) => Sound(r)) /\ \A m, p : StandsAt(z, m, p) => StandsAt(r, m, p)
      BY <2>8, <3>2, SoundOnly
    <3>4. Sound(r) /\ StandsAt(r, n, z.p)
      BY <3>1, <3>3 DEF InSegment
    <3>5. r.last # << >> => Before(r.last[1].segment, r.last[1].record, n + 1, 0)
      <4> SUFFICES ASSUME r.last # << >>
                   PROVE  Before(r.last[1].segment, r.last[1].record, n + 1, 0)
        OBVIOUS
      <4>1. PICK i, p : i = r.last[1].segment /\ p = r.last[1].record
        OBVIOUS
      <4>2. i \in Nat /\ p \in Nat /\ Before(i, p, n, z.p)
        BY <3>4, <4>1 DEF Sound, SoundLast, IsPlace, StandsAt
      <4>3. i < n + 1
        BY <4>2 DEF Before
      <4> QED BY <4>1, <4>3 DEF Before
    <3>6. IsPlace(n + 1, 0)
      BY DEF IsPlace
    <3> QED BY <3>4, <3>5, <3>6 DEF StandsAt
  <2>12. ASSUME Clean(r) PROVE r.seg0 # << >>
    <3>1. z.seg0 # << >>
      BY <2>6, <2>8, <2>12 DEF Reading, InSegment, HeaderFits
    <3>2. r.seg0 = z.seg0
      BY <2>8, FieldNames DEF Only, EndFields
    <3> QED BY <3>1, <3>2
  <2> QED BY <1>3, <2>8, <2>10, <2>11, <2>12 DEF Between
<1>13. SegmentGoes(r, v, x, s, n, isLast)
  BY <1>1, <1>2, <1>3, SegmentCases
<1> QED BY <1>9, <1>10, <1>11, <1>12, <1>13 DEF SegmentGoes

-----------------------------------------------------------------------------
(* The end of a verification. *)

LEMMA AddViolationWalk ==
  ASSUME NEW w, IsWalk(w), NEW kind
  PROVE  /\ Only(AddViolation(w, kind), w, {"violations"})
         /\ Sane(w) /\ SavedInts /\ kind \in Words
              => Sane(AddViolation(w, kind)) /\ ~Clean(AddViolation(w, kind))
<1>1. DOMAIN w = Fields
  BY DEF IsWalk
<1>2. PICK e : e = <<kind, saved.segment>>
  OBVIOUS
<1>3. PICK z : z = Append(w.violations, e)
  OBVIOUS
<1>4. PICK v : v = AddViolation(w, kind)
  OBVIOUS
<1>5. v = [w EXCEPT !.violations = z]
  BY <1>2, <1>3, <1>4 DEF AddViolation
<1>6. Only(v, w, {"violations"}) /\ v.violations = z
  BY <1>1, <1>5, FieldNames DEF Only, IsWalk
<1>7. ASSUME Sane(w), SavedInts, kind \in Words PROVE Sane(v) /\ ~Clean(v)
  <2>1. e \in Finding
    BY <1>2, <1>7 DEF Finding, SavedInts, IsPlace
  <2>2. z \in Seq(Finding) /\ z # << >>
    BY <1>3, <1>7, <2>1, AppendSome DEF Sane
  <2> QED BY <1>6, <2>2 DEF Sane, Clean, Only
<1> QED BY <1>4, <1>6, <1>7

\* What the check of a head does to a walk: nothing, or it has a finding.
Finds(v, w) == v = w \/ \E kind \in Words : v = AddViolation(w, kind)

LEMMA FindsWalk ==
  ASSUME NEW w, NEW v, Finds(v, w)
  PROVE  /\ IsWalk(w) => Only(v, w, {"violations"})
         /\ Sane(w) /\ SavedInts => Sane(v) /\ (Clean(v) => v = w)
<1>1. CASE v = w
  BY <1>1 DEF Only
<1>2. ASSUME NEW kind \in Words, v = AddViolation(w, kind)
      PROVE  /\ IsWalk(w) => Only(v, w, {"violations"})
             /\ Sane(w) /\ SavedInts => Sane(v) /\ (Clean(v) => v = w)
  <2>1. IsWalk(w) => Only(v, w, {"violations"})
    BY <1>2, AddViolationWalk
  <2>2. ASSUME Sane(w), SavedInts PROVE Sane(v) /\ ~Clean(v)
    <3>1. IsWalk(w)
      BY <2>2 DEF Sane
    <3> QED BY <1>2, <2>2, <3>1, AddViolationWalk
  <2> QED BY <2>1, <2>2
<1> QED BY <1>1, <1>2 DEF Finds

LEMMA HeadWords ==
  {"CheckpointMismatch", "CheckpointTruncated", "CheckpointForDifferentLog"} \subseteq Words
BY DEF Words

LEMMA HeadChecks ==
  ASSUME NEW w
  PROVE  /\ Finds(CheckCheckpoints(w), w) /\ Finds(CheckStatementHeads(w), w)
         /\ Finds(CheckAttested(w), w)
<1>1. Finds(PositionCheck(w), w)
  BY HeadWords DEF PositionCheck, Finds
<1>2. Finds(CheckCheckpoints(w), w)
  BY <1>1, HeadWords DEF CheckCheckpoints, Finds
<1>3. Finds(CheckStatementHeads(w), w)
  BY HeadWords DEF CheckStatementHeads, Finds
<1>4. Finds(CheckAttested(w), w)
  BY <1>1, HeadWords DEF CheckAttested, Finds
<1> QED BY <1>2, <1>3, <1>4

\* The saved head has been seen.
HeadMet(w) ==
  /\ saved.kind \in {"checkpoint", "attested"} /\ w.seg0 # << >> => w.seen # << >>
  /\ saved.kind = "statement" /\ w.signer_ok /\ SameKey(w) /\ SameLog(w) => w.seen # << >>

LEMMA HeadsSeen ==
  ASSUME SavedInts, NEW w, Sane(w), Clean(w),
         CheckCheckpoints(w) = w, CheckStatementHeads(w) = w, CheckAttested(w) = w
  PROVE  HeadMet(w)
<1>1. \A kind \in Words : AddViolation(w, kind) # w
  <2> SUFFICES ASSUME NEW kind \in Words PROVE AddViolation(w, kind) # w
    OBVIOUS
  <2>1. ~Clean(AddViolation(w, kind))
    BY AddViolationWalk DEF Sane
  <2> QED BY <2>1
<1>2. PICK x, y, z : /\ x = AddViolation(w, "CheckpointMismatch")
                     /\ y = AddViolation(w, "CheckpointTruncated")
                     /\ z = AddViolation(w, "CheckpointForDifferentLog")
  OBVIOUS
<1>3. x # w /\ y # w /\ z # w
  BY <1>1, <1>2, HeadWords
<1>4. HeadFound(w) => w.seen # << >>
  BY DEF HeadFound
<1>5. PositionCheck(w) = w => w.seen # << >>
  BY <1>2, <1>3, <1>4 DEF PositionCheck, Clean
<1>6. saved.kind = "checkpoint" /\ w.seg0 # << >> => w.seen # << >>
  BY <1>2, <1>3, <1>5 DEF CheckCheckpoints
<1>7. saved.kind = "attested" /\ w.seg0 # << >> => w.seen # << >>
  BY <1>2, <1>3, <1>5 DEF CheckAttested
<1>8. saved.kind = "statement" /\ w.signer_ok /\ SameKey(w) /\ SameLog(w) => w.seen # << >>
  BY <1>2, <1>3 DEF CheckStatementHeads, Clean
<1> QED BY <1>6, <1>7, <1>8 DEF HeadMet

\* What a verdict rests on.
Judgement(w) ==
  w.verdict \in {"Verified", "SelfConsistent"} =>
    Sound(w) /\ HeadMet(w) /\ (w.verdict = "Verified" => w.trusted)

Verdicts == {"Error", "Violation", "Verified", "SelfConsistent"}

JudgedFields == {"complete", "pc", "violations", "anchored", "verdict"}

LEMMA FinishWalk ==
  ASSUME NEW w, IsWalk(w)
  PROVE  LET v == Finish(w) IN
         /\ Only(v, w, {"pc", "anchored", "verdict"}) /\ v.pc = "done" /\ v.verdict \in Verdicts
         /\ v.verdict \in {"Verified", "SelfConsistent"} => Clean(w)
         /\ v.verdict = "Verified" => w.trusted
<1>1. DOMAIN w = Fields
  BY DEF IsWalk
<1>2. PICK v : v = Finish(w)
  OBVIOUS
<1>3. PICK a : a = \/ saved.kind = "attested" /\ HeadFound(w)
                   \/ /\ ~w.noSuccessor
                      /\ \/ w.last # << >> /\ w.last[1].event = Sealed
                         \/ saved.kind = "checkpoint" /\ HeadFound(w) /\ AnchorsLast(w)
  OBVIOUS
<1>4. PICK d : d = IF w.violations # << >> THEN "Violation"
                   ELSE IF w.trusted THEN "Verified" ELSE "SelfConsistent"
  OBVIOUS
<1>5. v = [w EXCEPT !.pc = "done", !.anchored = a, !.verdict = d]
  BY <1>2, <1>3, <1>4, Zenon DEF Finish
<1>6. Only(v, w, {"pc", "anchored", "verdict"}) /\ v.pc = "done" /\ v.verdict = d
  BY <1>1, <1>5, FieldNames DEF Only, IsWalk
<1>7. /\ d \in Verdicts /\ (d \in {"Verified", "SelfConsistent"} => Clean(w))
      /\ d = "Verified" => w.trusted
  BY <1>4 DEF Verdicts, Clean
<1> QED BY <1>2, <1>6, <1>7

\* The walk as its end judges it.
Ended(w) == [w EXCEPT !.complete = ~w.stopped]
Weighed(w) == CheckAttested(CheckStatementHeads(CheckCheckpoints(w)))

LEMMA EndedWalk ==
  ASSUME NEW w, IsWalk(w)
  PROVE  Only(Ended(w), w, {"complete"})
<1>1. DOMAIN w = Fields
  BY DEF IsWalk
<1> QED BY <1>1, FieldNames DEF Only, IsWalk, Ended

LEMMA WeighedWalk ==
  ASSUME NEW w, IsWalk(w)
  PROVE  /\ Only(Weighed(w), w, {"violations"})
         /\ Sane(w) /\ SavedInts /\ Clean(Weighed(w)) => Weighed(w) = w /\ HeadMet(w)
<1>1. PICK a, b, c : a = CheckCheckpoints(w) /\ b = CheckStatementHeads(a) /\ c = CheckAttested(b)
  OBVIOUS
<1>2. Finds(a, w) /\ Finds(b, a) /\ Finds(c, b) /\ Weighed(w) = c
  BY <1>1, HeadChecks DEF Weighed
<1>3. Only(a, w, {"violations"}) /\ IsWalk(a)
  <2>1. Only(a, w, {"violations"})
    BY <1>2, FindsWalk
  <2> QED BY <2>1 DEF Only
<1>4. Only(b, a, {"violations"}) /\ IsWalk(b)
  <2>1. Only(b, a, {"violations"})
    BY <1>2, <1>3, FindsWalk
  <2> QED BY <2>1 DEF Only
<1>5. Only(c, b, {"violations"})
  BY <1>2, <1>4, FindsWalk
<1>6. Only(c, w, {"violations"})
  BY <1>3, <1>4, <1>5 DEF Only
<1>7. ASSUME Sane(w), SavedInts, Clean(c) PROVE c = w /\ HeadMet(w)
  <2>1. Sane(a) /\ (Clean(a) => a = w)
    BY <1>2, <1>7, FindsWalk
  <2>2. Sane(b) /\ (Clean(b) => b = a)
    BY <1>2, <1>7, <2>1, FindsWalk
  <2>3. Clean(c) => c = b
    BY <1>2, <1>7, <2>2, FindsWalk
  <2>4. a = w /\ b = w /\ c = w
    BY <1>7, <2>1, <2>2, <2>3
  <2> QED BY <1>1, <1>7, <2>4, HeadsSeen
<1> QED BY <1>2, <1>6, <1>7

LEMMA VerifyEndWalk ==
  ASSUME IsWalk(walk), VerifyEnd
  PROVE  /\ Only(walk', walk, JudgedFields) /\ walk'.pc = "done" /\ walk'.verdict \in Verdicts
         /\ Between(walk) /\ SavedInts => Judgement(walk')
<1>1. PICK w, x, y, r : w = walk /\ x = Ended(w) /\ y = Weighed(x) /\ r = walk'
  OBVIOUS
<1>2. IsWalk(w)
  BY <1>1
<1>3. Only(x, w, {"complete"}) /\ IsWalk(x) /\ DOMAIN x = Fields
  <2>1. Only(x, w, {"complete"})
    BY <1>1, <1>2, EndedWalk
  <2> QED BY <2>1 DEF Only, IsWalk
<1>4. Only(y, x, {"violations"}) /\ IsWalk(y)
  <2>1. Only(y, x, {"violations"})
    BY <1>1, <1>3, WeighedWalk
  <2> QED BY <2>1 DEF Only
<1>5. r = [x EXCEPT !.pc = "done", !.verdict = "Error"] \/ r = Finish(y)
  BY <1>1, Zenon DEF VerifyEnd, Ended, Weighed
<1>6. CASE r = [x EXCEPT !.pc = "done", !.verdict = "Error"]
  <2>1. Only(r, x, {"pc", "verdict"}) /\ r.pc = "done" /\ r.verdict = "Error"
    BY <1>3, <1>6, FieldNames DEF Only, IsWalk
  <2>2. Only(r, w, JudgedFields)
    BY <1>3, <2>1 DEF Only, JudgedFields
  <2>3. Judgement(r) /\ r.verdict \in Verdicts
    BY <2>1 DEF Judgement, Verdicts
  <2> QED BY <1>1, <2>1, <2>2, <2>3
<1>7. CASE r = Finish(y)
  <2>1. /\ Only(r, y, {"pc", "anchored", "verdict"}) /\ r.pc = "done" /\ r.verdict \in Verdicts
        /\ r.verdict \in {"Verified", "SelfConsistent"} => Clean(y)
        /\ r.verdict = "Verified" => y.trusted
    BY <1>4, <1>7, FinishWalk
  <2>2. Only(r, w, JudgedFields)
    BY <1>3, <1>4, <2>1 DEF Only, JudgedFields
  <2>3. ASSUME Between(w), SavedInts, r.verdict \in {"Verified", "SelfConsistent"}
        PROVE  Sound(r) /\ HeadMet(r) /\ (r.verdict = "Verified" => r.trusted)
    <3>1. Sane(x) /\ (Clean(x) <=> Clean(w))
      <4>1. "violations" \notin {"complete"} /\ "stopped" \notin {"complete"}
        OBVIOUS
      <4> QED BY <1>3, <2>3, <4>1, SaneOnly DEF Between
    <3>2. y = x /\ HeadMet(x) /\ Clean(x)
      BY <1>1, <1>3, <2>1, <2>3, <3>1, WeighedWalk
    <3>3. Sound(w)
      BY <2>3, <3>1, <3>2 DEF Between
    <3>4. JudgedFields \cap {"last", "seen", "trusted", "signer_ok", "opts", "seg0"} = {}
      BY DEF JudgedFields
    <3>5. Sound(r)
      BY <2>2, <3>3, <3>4, SoundOnly
    <3>6. r.seg0 = x.seg0 /\ r.seen = x.seen /\ r.signer_ok = x.signer_ok /\ r.trusted = x.trusted
      BY <2>1, <3>2, FieldNames DEF Only
    <3>7. HeadMet(r)
      BY <3>2, <3>6 DEF HeadMet, SameKey, SameLog
    <3> QED BY <2>1, <3>2, <3>5, <3>6, <3>7
  <2> QED BY <1>1, <2>1, <2>2, <2>3 DEF Judgement
<1> QED BY <1>5, <1>6, <1>7

\* What is known of the saved head: it is one of the chain's.
SavedInv ==
  /\ SavedInts
  /\ saved.kind \in HeadKinds \cup {"none"}
  /\ saved.kind # "none" =>
       /\ chain # << >> /\ saved.log_id = chain[1].log_id /\ saved.key_id = chain[1].key_id
       /\ \E event : CommittedAt(saved.record_hash, saved.segment, saved.record_id, event)

ChainOK == chain \in Hash /\ Orderly(chain)

\* Of two records of the chain, the one at the later place has the longer hash.
LEMMA PlacesOfHashes ==
  ASSUME ChainOK, NEW a, NEW b, NEW i \in Nat, NEW p \in Nat, NEW j \in Nat, NEW q \in Nat,
         NEW e, NEW f, CommittedAt(a, i, p, e), CommittedAt(b, j, q, f)
  PROVE  Before(i, p, j, q) \/ IsPrefixOf(b, a)
<1>1. PICK m, n : m = Len(a) /\ n = Len(b)
  OBVIOUS
<1>2. a \in Hash /\ b \in Hash /\ chain \in Hash
  BY DEF CommittedAt, ChainOK
<1>3. m \in Nat /\ n \in Nat /\ m \in 1..m /\ n \in 1..n /\ Len(chain) \in Nat
  BY <1>1, <1>2, HashEntry DEF CommittedAt
<1>4. /\ m <= Len(chain) /\ \A x \in 1..m : a[x] = chain[x]
      /\ n <= Len(chain) /\ \A x \in 1..n : b[x] = chain[x]
  BY <1>1 DEF CommittedAt, IsPrefixOf
<1>5. CASE m < n
  <2>1. Precedes(chain[m], chain[n])
    <3>1. m \in 1..Len(chain) /\ n \in 1..Len(chain)
      BY <1>3, <1>4
    <3> QED BY <1>5, <3>1 DEF ChainOK, Orderly
  <2>2. /\ chain[m].segment_index = i /\ chain[m].record_id = p /\ chain[m].event = e
        /\ chain[n].segment_index = j /\ chain[n].record_id = q /\ e # "header"
    BY <1>1, <1>3, <1>4 DEF CommittedAt
  <2> QED BY <2>1, <2>2 DEF Precedes, Before
<1>6. CASE ~(m < n)
  BY <1>1, <1>3, <1>4, <1>6 DEF IsPrefixOf
<1> QED BY <1>5, <1>6

LEMMA SamePlace ==
  ASSUME ChainOK, NEW a, NEW b, NEW i \in Nat, NEW p \in Nat, NEW e, NEW f,
         CommittedAt(a, i, p, e), CommittedAt(b, i, p, f)
  PROVE  a = b
<1>1. a \in Hash /\ b \in Hash
  BY DEF CommittedAt
<1>2. ~Before(i, p, i, p)
  BY DEF Before
<1>3. IsPrefixOf(a, b) /\ IsPrefixOf(b, a)
  BY <1>2, PlacesOfHashes
<1>4. Len(a) <= Len(b) /\ Len(b) <= Len(a) /\ Len(a) \in Nat /\ Len(b) \in Nat
  BY <1>1, <1>3, HashEntry DEF IsPrefixOf
<1>5. Len(a) = Len(b)
  BY <1>4
<1> QED BY <1>1, <1>3, <1>5, PrefixLaws

\* A verified log under honest pins was signed with the chain's key.
LEMMA VerifiedCommitted ==
  ASSUME Judgement(walk), walk.verdict = "Verified", walk.last # << >>, HonestPins
  PROVE  /\ walk.seg0[1].datum.key_id = chain[1].key_id
         /\ Committed(walk.last[1]) /\ Sound(walk) /\ HeadMet(walk) /\ walk.signer_ok
<1>1. Sound(walk) /\ HeadMet(walk) /\ walk.trusted
  BY DEF Judgement
<1>2. walk.signer_ok /\ walk.seg0[1].datum.key_id \in walk.opts.pinned
  BY <1>1 DEF Sound, SoundTrust
<1>3. walk.seg0[1].datum.key_id = chain[1].key_id
  BY <1>2 DEF HonestPins
<1>4. Committed(walk.last[1])
  BY <1>1, <1>3 DEF Sound, SoundLast, Authentic
<1> QED BY <1>1, <1>2, <1>3, <1>4

JudgeInv ==
  /\ walk.pc = "walk" => Between(walk)
  /\ walk.pc = "done" => Judgement(walk)

LEMMA WrittenFollows == JudgeInv => VerifiedIsWritten
<1> SUFFICES ASSUME JudgeInv, Judged({"Verified"}), HonestPins
             PROVE  IsPrefixOf(walk.last[1].hash, chain)
  BY DEF VerifiedIsWritten
<1>1. Judgement(walk) /\ walk.verdict = "Verified" /\ walk.last # << >>
  BY DEF JudgeInv, Judged
<1> QED BY <1>1, VerifiedCommitted DEF Committed, CommittedAt

\* log.sealed is in the chain only at its end.
SealLast == \A n \in 1..Len(chain) : chain[n].event = Sealed => n = Len(chain)

LEMMA WholeFollows == JudgeInv /\ ChainOK /\ SealLast => SealedIsWhole
<1> SUFFICES ASSUME JudgeInv, ChainOK, SealLast, Judged({"Verified"}), HonestPins,
                    walk.last[1].event = Sealed
             PROVE  walk.last[1].hash = chain
  BY DEF SealedIsWhole
<1>1. Judgement(walk) /\ walk.verdict = "Verified" /\ walk.last # << >>
  BY DEF JudgeInv, Judged
<1>2. PICK h : h = walk.last[1].hash
  OBVIOUS
<1>3. h \in Hash /\ h # << >> /\ IsPrefixOf(h, chain) /\ h[Len(h)].event = Sealed
  BY <1>1, <1>2, VerifiedCommitted DEF Committed, CommittedAt
<1>4. chain \in Hash /\ Len(h) \in 1..Len(h) /\ Len(h) \in Nat /\ Len(chain) \in Nat
  BY <1>3, HashEntry DEF ChainOK
<1>5. Len(h) \in 1..Len(chain) /\ chain[Len(h)] = h[Len(h)]
  BY <1>3, <1>4 DEF IsPrefixOf
<1>6. Len(h) = Len(chain)
  BY <1>3, <1>5 DEF SealLast
<1> QED BY <1>2, <1>3, <1>4, <1>6, PrefixLaws

LEMMA HeadFollows == JudgeInv /\ ChainOK /\ SavedInv => SavedHeadHolds
<1> SUFFICES ASSUME JudgeInv, ChainOK, SavedInv, Judged({"Verified"}), HonestPins,
                    saved.kind # "none"
             PROVE  /\ IsPrefixOf(saved.record_hash, walk.last[1].hash)
                    /\ saved.kind = "statement" => walk.last[1].hash = saved.record_hash
  BY DEF SavedHeadHolds
<1>1. Judgement(walk) /\ walk.verdict = "Verified" /\ walk.last # << >>
  BY DEF JudgeInv, Judged
<1>2. PICK l, h, g : l = walk.last[1] /\ h = l.hash /\ g = saved.record_hash
  OBVIOUS
<1>3. PICK i, p, j, q : /\ i = l.segment /\ p = l.record
                        /\ j = saved.segment /\ q = saved.record_id
  OBVIOUS
<1>4. /\ walk.seg0[1].datum.key_id = chain[1].key_id /\ walk.signer_ok
      /\ Committed(l) /\ Sound(walk) /\ HeadMet(walk)
  BY <1>1, <1>2, VerifiedCommitted
<1>5. CommittedAt(h, i, p, l.event) /\ i \in Nat /\ p \in Nat /\ walk.seg0 # << >>
  BY <1>1, <1>2, <1>3, <1>4 DEF Committed, Sound, SoundLast, IsPlace
<1>6. PICK event : CommittedAt(g, j, q, event)
  BY <1>2, <1>3 DEF SavedInv
<1>7. j \in Nat /\ q \in Nat /\ saved.key_id = walk.seg0[1].datum.key_id
  BY <1>3, <1>4 DEF SavedInv, SavedInts, IsPlace
<1>8. saved.kind = "statement" =>
        /\ saved.log_id = walk.seg0[1].datum.log_id /\ ~After(i, p, saved)
  BY <1>1, <1>2, <1>3, <1>4, <1>7 DEF Sound, SoundEnd
<1>9. walk.seen # << >>
  <2>1. saved.kind \in {"checkpoint", "attested", "statement"}
    BY VerifyAssumption DEF SavedInv
  <2> QED BY <1>4, <1>5, <1>7, <1>8, <2>1 DEF HeadMet, SameKey, SameLog
<1>10. ~Before(i, p, j, q)
  BY <1>2, <1>3, <1>4, <1>9 DEF Sound, SoundSeen
<1>11. IsPrefixOf(g, h)
  BY <1>5, <1>6, <1>7, <1>10, PlacesOfHashes
<1>12. saved.kind = "statement" => h = g
  <2> SUFFICES ASSUME saved.kind = "statement" PROVE h = g
    OBVIOUS
  <2>1. i = j /\ p = q
    BY <1>3, <1>5, <1>7, <1>8, <1>10 DEF After, Before
  <2> QED BY <1>5, <1>6, <2>1, SamePlace
<1> QED BY <1>2, <1>11, <1>12

-----------------------------------------------------------------------------
(* Changes from outside. *)

\* What a file can hold after one.
EditedChunk ==
  [kind : {"header"}, datum : Datum, prev_hash : Hash, end : Nat]
    \cup [kind : {"record"}, datum : Datum, prev_hash : Hash, sig : Keys \cup {Forged},
          body : BodyStates, end : Nat]
    \cup {Torn}

Resigned(c, k) ==
  LET r == [c EXCEPT !.datum.key_id = k, !.prev_hash = UnderKey(@, k)] IN
  IF c.kind = "torn" THEN c
  ELSE IF c.kind = "header" THEN r ELSE [r EXCEPT !.sig = k]

\* A change of a chunk in S is in T.
Editable(S, T) ==
  /\ S \subseteq Chunk /\ S \subseteq T
  /\ \A c \in S : c.kind = "record" =>
       /\ \A how \in {"changed", "elided"} : [c EXCEPT !.body = how] \in T
       /\ \A e \in {"app", Sealed} : [c EXCEPT !.sig = Forged, !.datum.event = e] \in T
  /\ \A i \in Idx, l \in LogIds, k \in Keys, h \in Hash : SignedHeader(i, l, k, h) \in T
  /\ \A c \in S, k \in Keys : Resigned(c, k) \in T
  /\ Torn \in T

LEMMA SeqSubset ==
  ASSUME NEW S, NEW T, S \subseteq T, NEW s \in Seq(S)
  PROVE  s \in Seq(T)
<1>1. PICK n \in Nat : s \in [1..n -> S]
  BY SeqDef
<1>2. s \in [1..n -> T]
  BY <1>1
<1> QED BY <1>2, SeqDef

LEMMA PutAt ==
  ASSUME NEW T, NEW s \in Seq(T), NEW j \in 1..Len(s), NEW c \in T
  PROVE  [s EXCEPT ![j] = c] \in Seq(T)
OBVIOUS

LEMMA SubSeqIn ==
  ASSUME NEW T, NEW s \in Seq(T), NEW m \in Nat \ {0}, NEW n \in Nat, n <= Len(s)
  PROVE  SubSeq(s, m, n) \in Seq(T)
<1>1. PICK t : t = SubSeq(s, m, n)
  OBVIOUS
<1>2. t = [x \in 1..(n - m + 1) |-> s[x + m - 1]]
  BY <1>1
<1>3. CASE m <= n
  <2>1. n - m + 1 \in Nat /\ \A x \in 1..(n - m + 1) : x + m - 1 \in 1..Len(s)
    BY <1>3
  <2>2. \A x \in 1..(n - m + 1) : s[x + m - 1] \in T
    BY <2>1
  <2>3. PICK z : z = n - m + 1
    OBVIOUS
  <2>4. z \in Nat /\ t \in [1..z -> T]
    BY <1>2, <2>1, <2>2, <2>3
  <2> QED BY <1>1, <2>4, SeqDef
<1>4. CASE ~(m <= n)
  BY <1>1, <1>4
<1> QED BY <1>3, <1>4

LEMMA EditKeeps ==
  ASSUME NEW S, NEW T, Editable(S, T), file \in [Idx -> Seq(S)], entries \subseteq Idx,
         NEW kind \in Edits, Edit(kind)
  PROVE  file' \in [Idx -> Seq(T)] /\ entries' \subseteq Idx
<1>1. PICK f : f = file
  OBVIOUS
<1>2. \A i \in Idx : f[i] \in Seq(S) /\ f[i] \in Seq(T) /\ Len(f[i]) \in Nat
  <2>1. S \subseteq T /\ \A i \in Idx : f[i] \in Seq(S)
    BY <1>1 DEF Editable
  <2> QED BY <2>1, SeqSubset
<1>3. ASSUME NEW i \in Idx, NEW s \in Seq(T), file' = [file EXCEPT ![i] = s]
      PROVE  file' \in [Idx -> Seq(T)]
  <2>1. f \in [Idx -> Seq(T)]
    BY <1>1, <1>2
  <2> QED BY <1>1, <1>3, <2>1
<1>4. ASSUME NEW i \in Idx, NEW s \in Seq(T), Put(i, s)
      PROVE  file' \in [Idx -> Seq(T)] /\ entries' \subseteq Idx
  BY <1>3, <1>4 DEF Put
<1>5. ASSUME NEW r \in Records
      PROVE  /\ r[1] \in Idx /\ r[1] \in entries /\ r[2] \in 1..Len(f[r[1]])
             /\ r[2] \in 2..Len(f[r[1]])
             /\ f[r[1]][r[2]] \in S /\ f[r[1]][r[2]].kind = "record"
  <2>1. /\ r \in entries \X (2..(MaxChunks + 1)) /\ r[2] <= Len(f[r[1]])
        /\ f[r[1]][r[2]].kind = "record"
    BY <1>1 DEF Records
  <2>2. PICK i, j : i = r[1] /\ j = r[2]
    OBVIOUS
  <2>3. i \in entries /\ j \in 2..(MaxChunks + 1) /\ i \in Idx
    BY <2>1, <2>2
  <2>4. f[i] \in Seq(S) /\ Len(f[i]) \in Nat
    BY <1>2, <2>3
  <2>5. j \in 1..Len(f[i]) /\ j \in 2..Len(f[i])
    BY <2>1, <2>2, <2>3, <2>4
  <2>6. f[i][j] \in S
    BY <2>4, <2>5
  <2> QED BY <2>1, <2>2, <2>3, <2>5, <2>6
<1>6. CASE EditBody
  <2>1. PICK r \in Records, how \in {"changed", "elided"} :
          Put(r[1], [file[r[1]] EXCEPT ![r[2]].body = how])
    BY <1>6 DEF EditBody
  <2>2. PICK i, j, c, s : i = r[1] /\ j = r[2] /\ c = f[i][j] /\ s = f[i]
    OBVIOUS
  <2>3. i \in Idx /\ j \in 1..Len(s) /\ c \in S /\ c.kind = "record" /\ s \in Seq(T)
    BY <1>2, <1>5, <2>2
  <2>4. PICK d : d = [c EXCEPT !.body = how]
    OBVIOUS
  <2>5. d \in T
    BY <2>3, <2>4 DEF Editable
  <2>6. [s EXCEPT ![j] = d] \in Seq(T)
    BY <2>3, <2>5, PutAt
  <2>7. Put(i, [s EXCEPT ![j] = d])
    BY <1>1, <2>1, <2>2, <2>4
  <2> QED BY <1>4, <2>3, <2>6, <2>7
<1>7. CASE EditEnvelope
  <2>1. PICK r \in Records, e \in {"app", Sealed} :
          Put(r[1], [file[r[1]] EXCEPT ![r[2]].sig = Forged, ![r[2]].datum.event = e])
    BY <1>7 DEF EditEnvelope
  <2>2. PICK i, j, c, s : i = r[1] /\ j = r[2] /\ c = f[i][j] /\ s = f[i]
    OBVIOUS
  <2>3. i \in Idx /\ j \in 1..Len(s) /\ c \in S /\ c.kind = "record" /\ s \in Seq(T)
        /\ j \in DOMAIN s /\ s[j] = c
    BY <1>2, <1>5, <2>2
  <2>4. PICK d : d = [c EXCEPT !.sig = Forged, !.datum.event = e]
    OBVIOUS
  <2>5. d \in T
    BY <2>3, <2>4 DEF Editable
  <2>6. [s EXCEPT ![j] = d] \in Seq(T)
    BY <2>3, <2>5, PutAt
  <2>7. Put(i, [s EXCEPT ![j].sig = Forged, ![j].datum.event = e])
    BY <1>1, <2>1, <2>2
  <2>8. [s EXCEPT ![j].sig = Forged, ![j].datum.event = e] = [s EXCEPT ![j] = d]
    <3>1. PICK b, u : b = [c EXCEPT !.sig = Forged] /\ u = [s EXCEPT ![j] = b]
      OBVIOUS
    <3>2. [s EXCEPT ![j].sig = Forged] = u
      BY <2>3, <3>1
    <3>3. u[j] = b /\ DOMAIN u = DOMAIN s
      BY <2>3, <3>1
    <3>4. [s EXCEPT ![j].sig = Forged, ![j].datum.event = e] = [u EXCEPT ![j].datum.event = e]
      BY <3>2
    <3>5. d = [b EXCEPT !.datum.event = e]
      BY <2>4, <3>1
    <3>6. [u EXCEPT ![j].datum.event = e] = [u EXCEPT ![j] = d]
      BY <3>3, <3>5
    <3>7. [u EXCEPT ![j] = d] = [s EXCEPT ![j] = d]
      BY <3>1
    <3> QED BY <3>4, <3>6, <3>7
  <2> QED BY <1>4, <2>3, <2>6, <2>7, <2>8
<1>8. CASE RemoveRecord
  <2>1. PICK r \in Records : Put(r[1], WithoutNth(file[r[1]], r[2]))
    BY <1>8 DEF RemoveRecord
  <2>2. PICK i, j, s : i = r[1] /\ j = r[2] /\ s = f[i]
    OBVIOUS
  <2>3. i \in Idx /\ j \in 2..Len(s) /\ s \in Seq(T)
    BY <1>2, <1>5, <2>2
  <2>4. PICK a, b : a = SubSeq(s, 1, j - 1) /\ b = SubSeq(s, j + 1, Len(s))
    OBVIOUS
  <2>5. a \in Seq(T) /\ b \in Seq(T)
    <3>1. j - 1 \in Nat /\ j - 1 <= Len(s) /\ j + 1 \in Nat \ {0} /\ Len(s) \in Nat
          /\ Len(s) <= Len(s) /\ 1 \in Nat \ {0}
      BY <2>3
    <3> QED BY <2>3, <2>4, <3>1, SubSeqIn
  <2>6. a \o b \in Seq(T)
    BY <2>5, ConcatProperties, ZenonT(40)
  <2>7. Put(i, a \o b)
    BY <1>1, <2>1, <2>2, <2>4 DEF WithoutNth
  <2> QED BY <1>4, <2>3, <2>6, <2>7
<1>9. CASE ReplayRecord
  <2>1. PICK r \in Records, i \in entries : Put(i, Append(file[i], file[r[1]][r[2]]))
    BY <1>9 DEF ReplayRecord
  <2>2. PICK c : c = f[r[1]][r[2]]
    OBVIOUS
  <2>3. c \in T
    BY <1>5, <2>2 DEF Editable
  <2>4. PICK s : s = f[i]
    OBVIOUS
  <2>5. i \in Idx /\ s \in Seq(T)
    BY <1>2, <2>4
  <2>6. Append(s, c) \in Seq(T)
    BY <2>3, <2>5
  <2> QED BY <1>1, <1>4, <2>1, <2>2, <2>4, <2>5, <2>6
<1>10. CASE CutSegment
  <2>1. PICK i \in entries : \E n \in 0..(Len(file[i]) - 1) : Put(i, SubSeq(file[i], 1, n))
    BY <1>10 DEF CutSegment
  <2>2. PICK s : s = f[i]
    OBVIOUS
  <2>3. i \in Idx /\ s \in Seq(T)
    BY <1>2, <2>2
  <2>4. PICK n \in 0..(Len(s) - 1) : Put(i, SubSeq(s, 1, n))
    BY <1>1, <2>1, <2>2
  <2>5. SubSeq(s, 1, n) \in Seq(T)
    <3>1. n \in Nat /\ n <= Len(s) /\ 1 \in Nat \ {0}
      BY <2>3
    <3> QED BY <2>3, <3>1, SubSeqIn
  <2> QED BY <1>4, <2>3, <2>4, <2>5
<1>15. CASE TearSegment
  <2>1. PICK i \in entries :
          \E n \in 2..(Len(file[i]) + 1) :
            Put(i, SubSeq(file[i], 1, n - 1) \o <<Torn>> \o SubSeq(file[i], n + 1, Len(file[i])))
    BY <1>15 DEF TearSegment
  <2>2. PICK s : s = f[i]
    OBVIOUS
  <2>3. i \in Idx /\ s \in Seq(T)
    BY <1>2, <2>2
  <2>4. PICK n \in 2..(Len(s) + 1) :
          Put(i, SubSeq(s, 1, n - 1) \o <<Torn>> \o SubSeq(s, n + 1, Len(s)))
    BY <1>1, <2>1, <2>2
  <2>5. PICK a, b, u : a = SubSeq(s, 1, n - 1) /\ b = SubSeq(s, n + 1, Len(s)) /\ u = <<Torn>>
    OBVIOUS
  <2>6. a \in Seq(T)
    <3>1. n - 1 \in Nat /\ n - 1 <= Len(s) /\ 1 \in Nat \ {0}
      BY <2>3
    <3> QED BY <2>3, <2>5, <3>1, SubSeqIn
  <2>7. b \in Seq(T)
    <3>1. n + 1 \in Nat \ {0} /\ Len(s) \in Nat /\ Len(s) <= Len(s)
      BY <2>3
    <3> QED BY <2>3, <2>5, <3>1, SubSeqIn
  <2>8. u \in Seq(T)
    <3>1. Torn \in T
      BY DEF Editable
    <3> HIDE DEF Torn
    <3> QED BY <2>5, <3>1
  <2>9. a \o u \in Seq(T)
    BY <2>6, <2>8, ConcatProperties, ZenonT(40)
  <2>10. (a \o u) \o b \in Seq(T)
    BY <2>7, <2>9, ConcatProperties, ZenonT(40)
  <2>11. Put(i, (a \o u) \o b)
    BY <2>4, <2>5
  <2> QED BY <1>4, <2>3, <2>10, <2>11
<1>11. CASE DeleteSegment
  <2>1. PICK i \in entries : entries' = entries \ {i} /\ file' = [file EXCEPT ![i] = << >>]
    BY <1>11 DEF DeleteSegment
  <2>2. i \in Idx /\ << >> \in Seq(T)
    OBVIOUS
  <2> QED BY <1>3, <2>1, <2>2
<1>12. CASE ForgeHeader
  <2>1. PICK i \in entries \cup {j \in Idx : j - 1 \in entries}, k \in Keys, l \in LogIds :
          \E prev \in {ZeroHash, IF i > 0 /\ HasHeader(file[i-1])
                                   /\ LastChunk(file[i-1]).kind # "torn"
                                 THEN HashOf(LastChunk(file[i-1])) ELSE ZeroHash} :
            /\ file' = [file EXCEPT ![i] = << SignedHeader(i, l, k, prev) >> \o SubSeq(@, 2, Len(@))]
            /\ entries' = entries \cup {i}
    BY <1>12 DEF ForgeHeader
  <2>2. i \in Idx
    OBVIOUS
  <2>3. PICK prev : /\ \/ prev = ZeroHash
                       \/ /\ i > 0 /\ HasHeader(f[i-1]) /\ LastChunk(f[i-1]).kind # "torn"
                          /\ prev = HashOf(LastChunk(f[i-1]))
                    /\ file' = [file EXCEPT ![i] = << SignedHeader(i, l, k, prev) >>
                                                     \o SubSeq(f[i], 2, Len(f[i]))]
                    /\ entries' = entries \cup {i}
    BY <1>1, <2>1, <2>2
  <2>4. prev \in Hash
    <3>1. CASE prev = ZeroHash
      BY <3>1 DEF ZeroHash, Hash
    <3>2. CASE /\ i > 0 /\ HasHeader(f[i-1]) /\ LastChunk(f[i-1]).kind # "torn"
               /\ prev = HashOf(LastChunk(f[i-1]))
      <4>1. PICK s : s = f[i-1]
        OBVIOUS
      <4>2. s \in Seq(S) /\ s # << >> /\ i - 1 \in Idx
        BY <1>2, <2>2, <3>2, <4>1, IdxBelow DEF HasHeader
      <4>3. s[Len(s)] \in Chunk /\ s[Len(s)].kind # "torn"
        <5>1. Len(s) \in 1..Len(s)
          BY <4>2
        <5>2. s[Len(s)] \in S
          BY <4>2, <5>1
        <5> QED BY <3>2, <4>1, <5>2 DEF Editable, LastChunk
      <4>4. s[Len(s)].kind \in {"header", "record"}
        BY <4>3 DEF Chunk, Torn
      <4> QED BY <3>2, <4>1, <4>3, <4>4, HashOfLast DEF LastChunk
    <3> QED BY <2>3, <3>1, <3>2
  <2>5. PICK c, t, s : c = SignedHeader(i, l, k, prev) /\ s = f[i] /\ t = SubSeq(s, 2, Len(s))
    OBVIOUS
  <2>6. c \in T /\ <<c>> \in Seq(T)
    <3>1. c \in T
      BY <2>2, <2>4, <2>5 DEF Editable
    <3> QED BY <3>1
  <2>7. t \in Seq(T)
    <3>1. s \in Seq(T) /\ 2 \in Nat \ {0} /\ Len(s) \in Nat /\ Len(s) <= Len(s)
      BY <1>2, <2>2, <2>5
    <3> QED BY <2>5, <3>1, SubSeqIn
  <2>8. <<c>> \o t \in Seq(T)
    BY <2>6, <2>7, ConcatProperties, ZenonT(40)
  <2>9. file' = [file EXCEPT ![i] = <<c>> \o t]
    BY <2>3, <2>5
  <2> QED BY <1>3, <2>2, <2>3, <2>8, <2>9
<1>13. CASE ResignLog
  <2>1. PICK k \in Keys :
          /\ file' = [i \in Idx |-> [n \in 1..Len(file[i]) |-> Resigned(file[i][n], k)]]
          /\ entries' = entries
    BY <1>13 DEF ResignLog, Resigned
  <2>2. ASSUME NEW i \in Idx PROVE [n \in 1..Len(f[i]) |-> Resigned(f[i][n], k)] \in Seq(T)
    <3>1. PICK s, z : s = f[i] /\ z = Len(s)
      OBVIOUS
    <3>2. s \in Seq(S) /\ z \in Nat
      BY <1>2, <3>1
    <3>3. \A n \in 1..z : s[n] \in S
      BY <3>1, <3>2
    <3>4. \A n \in 1..z : Resigned(s[n], k) \in T
      BY <3>3 DEF Editable
    <3>5. [n \in 1..z |-> Resigned(s[n], k)] \in [1..z -> T]
      <4> HIDE DEF Resigned
      <4> QED BY <3>4
    <3>6. PICK t : t = [n \in 1..z |-> Resigned(s[n], k)]
      OBVIOUS
    <3>7. t \in Seq(T)
      <4>1. t \in [1..z -> T]
        BY <3>5, <3>6
      <4> QED BY <3>2, <4>1, SeqDef
    <3> HIDE DEF Resigned
    <3> QED BY <3>1, <3>6, <3>7
  <2> QED BY <1>1, <2>1, <2>2
<1>14. \/ EditBody \/ EditEnvelope \/ RemoveRecord \/ ReplayRecord
       \/ CutSegment \/ TearSegment \/ DeleteSegment \/ ForgeHeader \/ ResignLog
  <2>1. kind \in {"body", "envelope", "remove", "replay", "cut", "tear", "segment", "header",
                  "resign"}
    BY VerifyAssumption
  <2> QED BY <2>1 DEF Edit
<1> QED BY <1>6, <1>7, <1>8, <1>9, <1>10, <1>11, <1>12, <1>13, <1>14, <1>15

GenuineChunks(h) == {c \in Chunk : c.kind = "record" => h # << >> /\ Commits(h, c)}
VouchedChunks(h) == {c \in EditedChunk : Vouches(c, h)}

LEMMA ChunkShapes ==
  ASSUME NEW c \in Chunk
  PROVE  /\ c \in EditedChunk
         /\ c.kind = "header" =>
              /\ c = [kind |-> "header", datum |-> c.datum, prev_hash |-> c.prev_hash, end |-> c.end]
              /\ c.datum \in Datum /\ c.prev_hash \in Hash /\ c.end \in Nat
         /\ c.kind = "record" =>
              /\ c = [kind |-> "record", datum |-> c.datum, prev_hash |-> c.prev_hash,
                      sig |-> c.sig, body |-> c.body, end |-> c.end]
              /\ c.datum \in Datum /\ c.prev_hash \in Hash /\ c.end \in Nat
              /\ c.sig \in Keys /\ c.body \in BodyStates
         /\ c.kind \in {"header", "record", "torn"}
BY DEF Chunk, EditedChunk, Torn

LEMMA DatumChange ==
  ASSUME NEW d \in Datum
  PROVE  /\ \A e \in {"app", Sealed} : [d EXCEPT !.event = e] \in Datum
         /\ \A k \in Keys : [d EXCEPT !.key_id = k] \in Datum
         /\ [d EXCEPT !.key_id = d.key_id] = d
BY DEF Datum, Structural

LEMMA UnderKeyHash ==
  ASSUME NEW h \in Hash, NEW k \in Keys
  PROVE  /\ UnderKey(h, k) \in Hash
         /\ (\A n \in 1..Len(h) : h[n].key_id = k) => UnderKey(h, k) = h
<1>1. PICK z : z = Len(h)
  OBVIOUS
<1>2. z \in Nat /\ h \in [1..z -> Datum] /\ \A n \in 1..z : h[n] \in Datum
  <2>1. h \in Seq(Datum)
    BY DEF Hash
  <2> QED BY <1>1, <2>1
<1>3. PICK u : u = UnderKey(h, k)
  OBVIOUS
<1>4. u = [n \in 1..z |-> [h[n] EXCEPT !.key_id = k]]
  BY <1>1, <1>3 DEF UnderKey
<1>5. u \in Hash
  <2>1. \A n \in 1..z : [h[n] EXCEPT !.key_id = k] \in Datum
    BY <1>2, DatumChange
  <2>2. u \in [1..z -> Datum]
    BY <1>4, <2>1
  <2> QED BY <1>2, <2>2, SeqDef DEF Hash
<1>6. ASSUME \A n \in 1..z : h[n].key_id = k PROVE u = h
  <2>1. \A n \in 1..z : [h[n] EXCEPT !.key_id = k] = h[n]
    <3> SUFFICES ASSUME NEW n \in 1..z PROVE [h[n] EXCEPT !.key_id = k] = h[n]
      OBVIOUS
    <3>1. PICK d : d = h[n]
      OBVIOUS
    <3>2. d \in Datum /\ d.key_id = k
      BY <1>2, <1>6, <3>1
    <3>3. [d EXCEPT !.key_id = k] = d
      BY <3>2, DatumChange
    <3> QED BY <3>1, <3>3
  <2> QED BY <1>2, <1>4, <2>1
<1> QED BY <1>1, <1>3, <1>5, <1>6

LEMMA ResignedShape ==
  ASSUME NEW c \in Chunk, NEW k \in Keys
  PROVE  /\ Resigned(c, k) \in EditedChunk
         /\ Resigned(c, k).kind = c.kind
         /\ c.kind = "record" =>
              /\ Resigned(c, k).sig = k
              /\ Resigned(c, k).datum = [c.datum EXCEPT !.key_id = k]
              /\ Resigned(c, k).prev_hash = UnderKey(c.prev_hash, k)
<1>1. PICK r : r = Resigned(c, k)
  OBVIOUS
<1>2. PICK u, d : u = UnderKey(c.prev_hash, k) /\ d = [c.datum EXCEPT !.key_id = k]
  OBVIOUS
<1>3. CASE c.kind = "torn"
  BY <1>1, <1>3, ChunkShapes DEF Resigned
<1>4. CASE c.kind = "header"
  <2>1. u \in Hash /\ d \in Datum /\ c.end \in Nat
    BY <1>2, <1>4, ChunkShapes, UnderKeyHash, DatumChange
  <2>2. r = [c EXCEPT !.datum = d, !.prev_hash = u]
    BY <1>1, <1>2, <1>4 DEF Resigned
  <2>3. r = [kind |-> "header", datum |-> d, prev_hash |-> u, end |-> c.end]
    <3>1. PICK a, b, e : c = [kind |-> "header", datum |-> a, prev_hash |-> b, end |-> e]
      BY <1>4, ChunkShapes
    <3>2. c.end = e
      BY <3>1
    <3>3. r = [kind |-> "header", datum |-> d, prev_hash |-> u, end |-> e]
      BY <2>2, <3>1
    <3> QED BY <3>2, <3>3
  <2> QED BY <1>1, <1>4, <2>1, <2>3 DEF EditedChunk
<1>5. CASE c.kind = "record"
  <2>1. u \in Hash /\ d \in Datum /\ c.end \in Nat /\ c.body \in BodyStates
    BY <1>2, <1>5, ChunkShapes, UnderKeyHash, DatumChange
  <2>2. r = [[c EXCEPT !.datum = d, !.prev_hash = u] EXCEPT !.sig = k]
    BY <1>1, <1>2, <1>5 DEF Resigned
  <2>3. r = [kind |-> "record", datum |-> d, prev_hash |-> u, sig |-> k,
             body |-> c.body, end |-> c.end]
    <3>1. PICK a, b, g, y, e : c = [kind |-> "record", datum |-> a, prev_hash |-> b,
                                    sig |-> g, body |-> y, end |-> e]
      BY <1>5, ChunkShapes
    <3>2. c.end = e /\ c.body = y
      BY <3>1
    <3>3. r = [kind |-> "record", datum |-> d, prev_hash |-> u, sig |-> k, body |-> y, end |-> e]
      BY <2>2, <3>1
    <3> QED BY <3>2, <3>3
  <2> QED BY <1>1, <1>2, <1>5, <2>1, <2>3 DEF EditedChunk
<1> QED BY <1>3, <1>4, <1>5, ChunkShapes

LEMMA BodyShape ==
  ASSUME NEW c \in Chunk, c.kind = "record", NEW how \in {"changed", "elided"}
  PROVE  LET d == [c EXCEPT !.body = how] IN
         d \in EditedChunk /\ d.kind = "record" /\ HashOf(d) = HashOf(c) /\ d.datum = c.datum
           /\ d.sig = c.sig
<1>1. PICK d : d = [c EXCEPT !.body = how]
  OBVIOUS
<1>2. d = [kind |-> "record", datum |-> c.datum, prev_hash |-> c.prev_hash, sig |-> c.sig,
           body |-> how, end |-> c.end]
  BY <1>1, ChunkShapes
<1>3. c.datum \in Datum /\ c.prev_hash \in Hash /\ c.end \in Nat /\ c.sig \in Keys
      /\ how \in BodyStates
  BY ChunkShapes DEF BodyStates
<1> QED BY <1>1, <1>2, <1>3 DEF EditedChunk, HashOf

LEMMA EnvelopeShape ==
  ASSUME NEW c \in Chunk, c.kind = "record", NEW e \in {"app", Sealed}
  PROVE  LET d == [c EXCEPT !.sig = Forged, !.datum.event = e] IN
         d \in EditedChunk /\ d.kind = "record" /\ d.sig = Forged
<1>1. PICK d, x : d = [c EXCEPT !.sig = Forged, !.datum.event = e]
                  /\ x = [c.datum EXCEPT !.event = e]
  OBVIOUS
<1>2. d = [kind |-> "record", datum |-> x, prev_hash |-> c.prev_hash, sig |-> Forged,
           body |-> c.body, end |-> c.end]
  <2>1. c = [kind |-> "record", datum |-> c.datum, prev_hash |-> c.prev_hash,
             sig |-> c.sig, body |-> c.body, end |-> c.end]
    BY ChunkShapes
  <2>2. d = [c EXCEPT !.sig = Forged, !.datum = x]
    BY <1>1
  <2> QED BY <2>1, <2>2
<1>3. x \in Datum /\ c.prev_hash \in Hash /\ c.end \in Nat /\ c.body \in BodyStates
  BY <1>1, ChunkShapes, DatumChange
<1> QED BY <1>1, <1>2, <1>3 DEF EditedChunk

LEMMA HeaderChunk ==
  ASSUME NEW i \in Idx, NEW l \in LogIds, NEW k \in Keys, NEW h \in Hash
  PROVE  SignedHeader(i, l, k, h) \in EditedChunk /\ SignedHeader(i, l, k, h).kind = "header"
<1>1. SignedHeader(i, l, k, h) \in Chunk /\ SignedHeader(i, l, k, h).kind = "header"
  BY HeaderType DEF SignedHeader
<1> QED BY <1>1, ChunkShapes

LEMMA EditableTypes == Editable(Chunk, EditedChunk)
<1>1. Chunk \subseteq EditedChunk
  BY ChunkShapes
<1>2. \A c \in Chunk : c.kind = "record" =>
        /\ \A how \in {"changed", "elided"} : [c EXCEPT !.body = how] \in EditedChunk
        /\ \A e \in {"app", Sealed} : [c EXCEPT !.sig = Forged, !.datum.event = e] \in EditedChunk
  BY BodyShape, EnvelopeShape
<1>3. \A i \in Idx, l \in LogIds, k \in Keys, h \in Hash : SignedHeader(i, l, k, h) \in EditedChunk
  BY HeaderChunk
<1>4. \A c \in Chunk, k \in Keys : Resigned(c, k) \in EditedChunk
  BY ResignedShape
<1>5. Torn \in EditedChunk
  BY <1>1, TornType
<1> QED BY <1>1, <1>2, <1>3, <1>4, <1>5 DEF Editable

\* What the chain commits to vouches for itself.
LEMMA GenuineVouches ==
  ASSUME ChainOK, NEW c \in GenuineChunks(chain)
  PROVE  c \in VouchedChunks(chain)
<1>1. c \in Chunk /\ (c.kind = "record" => chain # << >> /\ Commits(chain, c))
  BY DEF GenuineChunks
<1>2. c.kind = "record" => /\ HashOf(c) \in Hash /\ HashOf(c) # << >>
                           /\ HashOf(c)[Len(HashOf(c))] = c.datum
  BY <1>1, HashOfLast
<1>3. Vouches(c, chain)
  BY <1>1, <1>2 DEF Vouches
<1> QED BY <1>1, <1>3, ChunkShapes DEF VouchedChunks

LEMMA EditableVouched == ChainOK => Editable(GenuineChunks(chain), VouchedChunks(chain))
<1> SUFFICES ASSUME ChainOK PROVE Editable(GenuineChunks(chain), VouchedChunks(chain))
  OBVIOUS
<1>1. GenuineChunks(chain) \subseteq Chunk /\ GenuineChunks(chain) \subseteq VouchedChunks(chain)
  BY GenuineVouches DEF GenuineChunks
<1>2. chain \in Hash /\ (chain # << >> => chain[1].key_id \in Keys /\ 1 \in 1..Len(chain))
  BY HashEntry DEF ChainOK, Datum
<1>3. ASSUME NEW c \in GenuineChunks(chain), c.kind = "record", NEW how \in {"changed", "elided"}
      PROVE  [c EXCEPT !.body = how] \in VouchedChunks(chain)
  <2>1. PICK d : d = [c EXCEPT !.body = how]
    OBVIOUS
  <2>2. c \in Chunk /\ c \in VouchedChunks(chain)
    BY <1>1
  <2>3. d \in EditedChunk /\ d.kind = "record" /\ HashOf(d) = HashOf(c) /\ d.datum = c.datum
        /\ d.sig = c.sig
    BY <1>3, <2>1, <2>2, BodyShape
  <2>4. Vouches(d, chain)
    BY <1>3, <2>2, <2>3 DEF VouchedChunks, Vouches, Commits
  <2> QED BY <2>1, <2>3, <2>4 DEF VouchedChunks
<1>4. ASSUME NEW c \in GenuineChunks(chain), c.kind = "record", NEW e \in {"app", Sealed}
      PROVE  [c EXCEPT !.sig = Forged, !.datum.event = e] \in VouchedChunks(chain)
  <2>1. PICK d : d = [c EXCEPT !.sig = Forged, !.datum.event = e]
    OBVIOUS
  <2>2. d \in EditedChunk /\ d.kind = "record" /\ d.sig = Forged
    <3>1. c \in Chunk
      BY <1>1
    <3> QED BY <1>4, <2>1, <3>1, EnvelopeShape
  <2>3. chain # << >> /\ Forged \notin Keys
    BY <1>4, VerifyAssumption DEF GenuineChunks
  <2>4. Vouches(d, chain)
    BY <1>2, <2>2, <2>3 DEF Vouches
  <2> QED BY <2>1, <2>2, <2>4 DEF VouchedChunks
<1>5. ASSUME NEW i \in Idx, NEW l \in LogIds, NEW k \in Keys, NEW h \in Hash
      PROVE  SignedHeader(i, l, k, h) \in VouchedChunks(chain)
  BY HeaderChunk DEF VouchedChunks, Vouches
<1>6. ASSUME NEW c \in GenuineChunks(chain), NEW k \in Keys
      PROVE  Resigned(c, k) \in VouchedChunks(chain)
  <2>1. PICK r : r = Resigned(c, k)
    OBVIOUS
  <2>2. c \in Chunk /\ c \in VouchedChunks(chain)
    BY <1>1
  <2>3. /\ r \in EditedChunk /\ r.kind = c.kind
        /\ c.kind = "record" =>
             /\ r.sig = k /\ r.datum = [c.datum EXCEPT !.key_id = k]
             /\ r.prev_hash = UnderKey(c.prev_hash, k)
    BY <2>1, <2>2, ResignedShape
  <2>4. CASE c.kind # "record"
    BY <2>1, <2>3, <2>4 DEF VouchedChunks, Vouches
  <2>5. CASE c.kind = "record"
    <3>1. chain # << >> /\ Commits(chain, c)
      BY <2>5 DEF GenuineChunks
    <3>2. CASE k # chain[1].key_id
      <4>1. Vouches(r, chain)
        BY <2>3, <2>5, <3>1, <3>2 DEF Vouches
      <4> QED BY <2>1, <2>3, <4>1 DEF VouchedChunks
    <3>3. CASE k = chain[1].key_id
      <4>1. PICK h, g, d, z : h = HashOf(c) /\ g = c.prev_hash /\ d = c.datum /\ z = Len(g)
        OBVIOUS
      <4>2. g \in Hash /\ d \in Datum /\ h = Append(g, d) /\ h \in Hash
        BY <2>2, <2>5, <4>1, ChunkShapes, HashOfLast DEF HashOf
      <4>3. z \in Nat /\ Len(h) = z + 1 /\ h[z + 1] = d /\ \A n \in 1..z : h[n] = g[n]
        BY <4>1, <4>2, PrefixAppend
      <4>4. \A n \in 1..(z + 1) : h[n] = chain[n] /\ n \in 1..Len(chain)
        <5>1. Len(h) <= Len(chain) /\ Len(chain) \in Nat /\ \A n \in 1..Len(h) : h[n] = chain[n]
          BY <1>2, <3>1, <4>1, HashEntry DEF Commits, IsPrefixOf
        <5> QED BY <4>3, <5>1
      <4>5. \A n \in 1..(z + 1) : h[n].key_id = k
        BY <3>3, <4>4 DEF ChainOK, Orderly, SameSigner
      <4>6. UnderKey(g, k) = g
        <5>1. \A n \in 1..Len(g) : g[n].key_id = k
          BY <4>1, <4>3, <4>5
        <5> QED BY <4>2, <5>1, UnderKeyHash
      <4>7. [d EXCEPT !.key_id = k] = d
        <5>1. d.key_id = k
          BY <4>3, <4>5
        <5> QED BY <4>2, <5>1, DatumChange
      <4>8. r.datum = c.datum /\ r.prev_hash = c.prev_hash /\ c.sig \in Keys
        BY <2>2, <2>3, <2>5, <4>1, <4>6, <4>7, ChunkShapes
      <4>9. HashOf(r) = HashOf(c)
        BY <4>8 DEF HashOf
      <4>10. HashOf(c) # << >> /\ HashOf(c)[Len(HashOf(c))] = c.datum /\ HashOf(c) \in Hash
        BY <2>2, <2>5, HashOfLast
      <4>11. Vouches(r, chain)
        BY <3>1, <4>8, <4>9, <4>10 DEF Vouches, Commits
      <4> QED BY <2>1, <2>3, <4>11 DEF VouchedChunks
    <3> QED BY <3>2, <3>3
  <2> QED BY <2>4, <2>5
<1>7. Torn \in VouchedChunks(chain)
  <2>1. Torn \in EditedChunk
    BY TornType, ChunkShapes
  <2>2. Vouches(Torn, chain)
    BY DEF Vouches, Torn
  <2> QED BY <2>1, <2>2 DEF VouchedChunks
<1> QED BY <1>1, <1>3, <1>4, <1>5, <1>6, <1>7 DEF Editable

-----------------------------------------------------------------------------
(* Types of the verifier's state.  The writer's invariant holds until the     *)
(* files are changed from outside.                                            *)

FileTypes ==
  /\ edited \in Edits \cup {"none"}
  /\ saved.kind \in HeadKinds \cup {"none"}
  /\ chain \in Hash
  /\ edited = "none" => SignedInv
  /\ edited # "none" => file \in [Idx -> Seq(EditedChunk)] /\ entries \subseteq Idx

WalkOK(w) ==
  /\ IsWalk(w)
  /\ w.pc \in {"idle", "walk", "done"}
  /\ w.pc # "done" => w.verdict = "none"
  /\ w.pc = "done" => w.verdict \in Verdicts
  /\ w.todo \subseteq Idx

VerifyTypeInv == FileTypes /\ WalkOK(walk)

LEMMA AnyFile ==
  ASSUME FileTypes
  PROVE  /\ entries \subseteq Idx
         /\ \A n \in Idx : file[n] \in Seq(EditedChunk)
<1>1. Chunk \subseteq EditedChunk
  BY ChunkShapes
<1>2. CASE edited = "none"
  <2>1. file \in [Idx -> Seq(Chunk)] /\ entries \subseteq Idx
    BY <1>2 DEF FileTypes, SignedInv, SignedTypeOK
  <2>2. ASSUME NEW n \in Idx PROVE file[n] \in Seq(EditedChunk)
    BY <1>1, <2>1, SeqSubset
  <2> QED BY <2>1, <2>2
<1>3. CASE edited # "none"
  BY <1>3 DEF FileTypes
<1> QED BY <1>2, <1>3

\* What the walk of a segment and the end of a walk leave alone.
LEMMA SegmentStepWalk ==
  ASSUME FileTypes, WalkOK(walk), VerifySegment
  PROVE  /\ WalkOK(walk') /\ walk'.pc = "walk"
         /\ \E n \in walk.todo : \E v : /\ v = WalkSegment(walk, n, file[n], walk.todo = {n})
                                        /\ Only(walk', v, {"todo"})
<1>1. PICK w : w = walk
  OBVIOUS
<1>2. PICK n \in w.todo : walk' = [WalkSegment(w, n, file[n], w.todo = {n}) EXCEPT !.todo = @ \ {n}]
  BY <1>1 DEF VerifySegment
<1>3. n \in Idx /\ IsWalk(w) /\ w.pc = "walk" /\ w.verdict = "none" /\ w.todo \subseteq Idx
  BY <1>1 DEF WalkOK, VerifySegment
<1>4. PICK s : s = file[n]
  OBVIOUS
<1>5. s \in Seq(EditedChunk)
  BY <1>3, <1>4, AnyFile
<1>6. PICK last : last = (w.todo = {n})
  OBVIOUS
<1>7. PICK v : v = WalkSegment(w, n, s, last)
  OBVIOUS
<1>8. n \in Nat
  BY <1>3 DEF Idx
<1>9. Only(v, w, SegmentFields)
  BY <1>3, <1>5, <1>7, <1>8, WalkSegmentOnly
<1>10. v.pc = "walk" /\ v.verdict = "none" /\ v.todo = w.todo
  BY <1>3, <1>9, FieldNames DEF Only, SegmentFields, Framing
<1>11. PICK t : t = w.todo \ {n}
  OBVIOUS
<1>12. walk' = [v EXCEPT !.todo = t]
  BY <1>2, <1>4, <1>6, <1>7, <1>10, <1>11
<1>13. DOMAIN v = Fields
  BY <1>9 DEF Only, IsWalk
<1>14. Only(walk', v, {"todo"}) /\ walk'.todo = t /\ walk'.pc = "walk" /\ walk'.verdict = "none"
  <2>1. IsWalk(v)
    BY <1>9 DEF Only
  <2> QED BY <1>10, <1>12, <1>13, <2>1, FieldNames DEF Only, IsWalk
<1>15. WalkOK(walk')
  BY <1>3, <1>11, <1>14 DEF WalkOK, Only
<1> QED BY <1>1, <1>4, <1>6, <1>7, <1>14, <1>15

LEMMA BeginWalk ==
  ASSUME FileTypes, NEW o, VerifyBegin(o)
  PROVE  WalkOK(walk') /\ walk'.violations = << >> /\ walk'.stopped = FALSE
         /\ walk'.last = << >> /\ walk'.seen = << >> /\ walk'.trusted = FALSE
         /\ walk'.signer_ok = FALSE /\ walk'.expected = 0
         /\ (walk'.pc = "done" => walk'.verdict = "Error")
<1>1. PICK t : t = Listed
  OBVIOUS
<1>2. t \subseteq Idx
  BY <1>1, AnyFile DEF Listed
<1>3. walk' = [Idle EXCEPT !.pc = "done", !.opts = o, !.verdict = "Error"]
      \/ walk' = [Idle EXCEPT !.pc = "walk", !.opts = o, !.todo = t]
  BY <1>1 DEF VerifyBegin
<1>4. DOMAIN Idle = Fields
  BY DEF Fields
<1>5. /\ Idle.pc = "idle" /\ Idle.verdict = "none" /\ Idle.todo = {} /\ Idle.violations = << >>
      /\ Idle.stopped = FALSE /\ Idle.last = << >> /\ Idle.seen = << >> /\ Idle.trusted = FALSE
      /\ Idle.signer_ok = FALSE /\ Idle.expected = 0
  BY DEF Idle
<1>6. IsWalk(walk')
  BY <1>3, <1>4, FieldNames DEF IsWalk
<1>7. PICK r : r = walk'
  OBVIOUS
<1>8. PICK b : b = Idle
  OBVIOUS
<1>9. DOMAIN b = Fields
  BY <1>4, <1>8
<1>10. CASE r = [b EXCEPT !.pc = "done", !.opts = o, !.verdict = "Error"]
  <2>1. /\ r.violations = b.violations /\ r.stopped = b.stopped /\ r.last = b.last
        /\ r.seen = b.seen /\ r.trusted = b.trusted /\ r.signer_ok = b.signer_ok
        /\ r.expected = b.expected /\ r.pc = "done" /\ r.verdict = "Error" /\ r.todo = b.todo
    BY <1>9, <1>10, FieldNames
  <2> QED BY <1>5, <1>6, <1>7, <1>8, <2>1 DEF WalkOK, Verdicts
<1>11. CASE r = [b EXCEPT !.pc = "walk", !.opts = o, !.todo = t]
  <2>1. /\ r.violations = b.violations /\ r.stopped = b.stopped /\ r.last = b.last
        /\ r.seen = b.seen /\ r.trusted = b.trusted /\ r.signer_ok = b.signer_ok
        /\ r.expected = b.expected /\ r.pc = "walk" /\ r.verdict = b.verdict /\ r.todo = t
    BY <1>9, <1>11, FieldNames
  <2> QED BY <1>2, <1>5, <1>6, <1>7, <1>8, <2>1 DEF WalkOK, Verdicts
<1> QED BY <1>3, <1>7, <1>8, <1>10, <1>11

LEMMA IdleOK == WalkOK(Idle) /\ Idle.pc = "idle"
<1>1. Idle.pc = "idle" /\ Idle.verdict = "none" /\ Idle.todo = {}
  BY DEF Idle
<1> QED BY <1>1, IdleWalk DEF WalkOK

LEMMA EndStepWalk ==
  ASSUME WalkOK(walk), VerifyEnd
  PROVE  WalkOK(walk') /\ walk'.pc = "done"
<1>1. PICK w : w = walk
  OBVIOUS
<1>2. IsWalk(w) /\ w.todo \subseteq Idx
  BY <1>1 DEF WalkOK
<1>3. Only(walk', w, JudgedFields) /\ walk'.pc = "done" /\ walk'.verdict \in Verdicts
  BY <1>1, <1>2, VerifyEndWalk
<1>4. IsWalk(walk')
  BY <1>3 DEF Only
<1>5. walk'.todo = w.todo
  BY <1>3, FieldNames DEF Only, JudgedFields
<1> QED BY <1>2, <1>3, <1>4, <1>5 DEF WalkOK

\* A step that does not touch the files.
LEMMA FilesStay ==
  ASSUME FileTypes, UNCHANGED <<signedVars, edited, chain>>, saved'.kind \in HeadKinds \cup {"none"}
  PROVE  FileTypes'
<1>1. edited = "none" => SignedInv'
  BY NextSignedInv DEF FileTypes
<1>2. file' = file /\ entries' = entries /\ edited' = edited /\ chain' = chain
  BY DEF signedVars, disk
<1> QED BY <1>1, <1>2 DEF FileTypes

LEMMA NextVerifyTypeInv == VerifyTypeInv /\ [VerifyNext]_vars => VerifyTypeInv'
<1> SUFFICES ASSUME VerifyTypeInv, [VerifyNext]_vars PROVE VerifyTypeInv'
  OBVIOUS
<1>0. FileTypes /\ WalkOK(walk)
  BY DEF VerifyTypeInv
<1>1. CASE WriterStep
  <2>1. /\ edited = "none" /\ edited' = "none" /\ saved' = saved /\ walk' = walk
        /\ SignedInv /\ SignedInv'
    BY <1>0, <1>1, NextSignedInv DEF WriterStep, FileTypes
  <2>2. chain' \in Hash
    <3>1. cur'.last_hash \in Hash
      BY <2>1 DEF SignedInv, SignedTypeOK, WriterType
    <3> QED BY <1>0, <1>1, <3>1 DEF WriterStep, FileTypes
  <2>3. FileTypes'
    BY <1>0, <2>1, <2>2 DEF FileTypes
  <2> QED BY <1>0, <2>1, <2>3 DEF VerifyTypeInv
<1>2. CASE \E kind \in HeadKinds : SaveHead(kind)
  <2>1. PICK kind \in HeadKinds : SaveHead(kind)
    BY <1>2
  <2>2. saved'.kind = kind /\ walk' = Idle /\ UNCHANGED <<signedVars, edited, chain>>
    BY <2>1 DEF SaveHead, HeadOf
  <2> QED BY <1>0, <2>2, FilesStay, IdleOK DEF VerifyTypeInv
<1>3. CASE \E kind \in Edits : Edit(kind)
  <2>1. PICK kind \in Edits : Edit(kind)
    BY <1>3
  <2>2. /\ edited = "none" /\ edited' = kind /\ saved' = saved /\ walk' = walk /\ chain' = chain
    BY <2>1 DEF Edit
  <2>3. file \in [Idx -> Seq(Chunk)] /\ entries \subseteq Idx
    BY <1>0, <2>2 DEF FileTypes, SignedInv, SignedTypeOK
  <2>4. file' \in [Idx -> Seq(EditedChunk)] /\ entries' \subseteq Idx
    BY <2>1, <2>3, EditKeeps, EditableTypes
  <2>5. kind # "none"
    BY VerifyAssumption
  <2> QED BY <1>0, <2>2, <2>4, <2>5 DEF FileTypes, VerifyTypeInv
<1>4. CASE \E o \in Options : VerifyBegin(o)
  <2>1. PICK o \in Options : VerifyBegin(o)
    BY <1>4
  <2>2. UNCHANGED <<signedVars, saved, edited, chain>>
    BY <2>1 DEF VerifyBegin
  <2>3. saved'.kind \in HeadKinds \cup {"none"}
    BY <1>0, <2>2 DEF FileTypes
  <2> QED BY <1>0, <2>1, <2>2, <2>3, FilesStay, BeginWalk DEF VerifyTypeInv
<1>5. CASE VerifySegment \/ VerifyEnd \/ VerifyReset
  <2>1. UNCHANGED <<signedVars, saved, edited, chain>>
    BY <1>5 DEF VerifySegment, VerifyEnd, VerifyReset
  <2>2. saved'.kind \in HeadKinds \cup {"none"}
    BY <1>0, <2>1 DEF FileTypes
  <2>3. WalkOK(walk')
    BY <1>0, <1>5, SegmentStepWalk, EndStepWalk, IdleOK DEF VerifyReset
  <2> QED BY <1>0, <2>1, <2>2, <2>3, FilesStay DEF VerifyTypeInv
<1>6. CASE UNCHANGED vars
  <2>1. UNCHANGED <<signedVars, saved, edited, chain, walk>>
    BY <1>6 DEF vars, verifyVars
  <2>2. saved'.kind \in HeadKinds \cup {"none"}
    BY <1>0, <2>1 DEF FileTypes
  <2> QED BY <1>0, <2>1, <2>2, FilesStay DEF VerifyTypeInv
<1> QED BY <1>1, <1>2, <1>3, <1>4, <1>5, <1>6 DEF VerifyNext

LEMMA InitVerifyTypeInv == VerifyInit => VerifyTypeInv
<1> SUFFICES ASSUME VerifyInit PROVE VerifyTypeInv
  OBVIOUS
<1>1. SignedInv /\ edited = "none" /\ chain = << >> /\ saved.kind = "none" /\ walk = Idle
  BY InitSignedInv DEF VerifyInit, NoHead, ZeroHash
<1>2. chain \in Hash
  BY <1>1 DEF Hash
<1> QED BY <1>1, <1>2, IdleOK DEF VerifyTypeInv, FileTypes

LEMMA TypeFollows == VerifyTypeInv => VerifyTypeOK
BY DEF VerifyTypeInv, FileTypes, WalkOK, Verdicts, VerifyTypeOK, IsWalk, Fields

\* verify_log: whatever a writer does meanwhile and whatever was changed in the
\* files, every field of the report keeps its type and a finished report has a
\* verdict.
THEOREM VerifyTypeCorrect == VerifySpec => []VerifyTypeOK
BY InitVerifyTypeInv, NextVerifyTypeInv, TypeFollows, PTL DEF VerifySpec

-----------------------------------------------------------------------------
(* The log and the chain it is read against. *)

LogFacts ==
  /\ ChainOK
  /\ edited = "none" => SealStep /\ LogInv
  /\ edited # "none" => file \in [Idx -> Seq(VouchedChunks(chain))]

LEMMA GenuineFiles ==
  ASSUME SignedInv, LogInv
  PROVE  file \in [Idx -> Seq(GenuineChunks(chain))]
<1>1. file \in [Idx -> Seq(Chunk)] /\ chain \in Hash
  BY DEF SignedInv, SignedTypeOK, LogInv, ChainInv
<1>2. ASSUME NEW i \in Idx PROVE file[i] \in Seq(GenuineChunks(chain))
  <2>1. PICK s, z : s = file[i] /\ z = Len(s)
    OBVIOUS
  <2>2. s \in Seq(Chunk) /\ z \in Nat /\ s \in [1..z -> Chunk]
    BY <1>1, <2>1
  <2>3. ASSUME NEW n \in 1..z PROVE s[n] \in GenuineChunks(chain)
    <3>1. s[n] \in Chunk
      BY <2>2
    <3>2. ASSUME s[n].kind = "record" PROVE chain # << >> /\ Commits(chain, s[n])
      <4>1. s # << >>
        BY <2>1, <2>2
      <4>2. s[1].kind = "header"
        BY <2>1, <4>1 DEF LogInv, OneLog, HasHeader
      <4>3. n \in 2..z
        BY <2>2, <3>2, <4>2
      <4>4. Commits(chain, s[n])
        BY <2>1, <3>2, <4>3 DEF LogInv, ChainInv, Genuine
      <4>5. HashOf(s[n]) \in Hash /\ HashOf(s[n]) # << >> /\ IsPrefixOf(HashOf(s[n]), chain)
        BY <3>1, <3>2, <4>4, HashOfLast DEF Commits
      <4>6. Len(chain) # 0
        BY <1>1, <4>5, HashEntry DEF IsPrefixOf
      <4> QED BY <1>1, <4>4, <4>6, HashEntry
    <3> QED BY <3>1, <3>2 DEF GenuineChunks
  <2>4. s \in [1..z -> GenuineChunks(chain)]
    BY <2>2, <2>3
  <2> QED BY <2>1, <2>2, <2>4, SeqDef
<1> QED BY <1>1, <1>2

\* Every file fits the chain, as its writer left it or after a change.
LEMMA FilesFit ==
  ASSUME FileTypes, LogFacts, NEW n \in Idx
  PROVE  FileFits(file[n])
<1>1. PICK s : s = file[n]
  OBVIOUS
<1>2. s \in Seq(VouchedChunks(chain))
  <2>1. CASE edited = "none"
    <3>1. file \in [Idx -> Seq(GenuineChunks(chain))]
      BY <2>1, GenuineFiles DEF FileTypes, LogFacts
    <3>2. GenuineChunks(chain) \subseteq VouchedChunks(chain)
      BY EditableVouched DEF LogFacts, Editable
    <3> QED BY <1>1, <3>1, <3>2, SeqSubset
  <2>2. CASE edited # "none"
    BY <1>1, <2>2 DEF LogFacts
  <2> QED BY <2>1, <2>2
<1>3. \A m \in 2..Len(s) : Vouches(s[m], chain)
  <2>1. \A m \in 1..Len(s) : s[m] \in VouchedChunks(chain)
    BY <1>2
  <2> QED BY <1>2, <2>1 DEF VouchedChunks
<1>4. edited = "none" /\ chain # << >> /\ HasHeader(s) => SameSigner(s[1].datum, chain[1])
  BY <1>1 DEF LogFacts, LogInv, ChainInv, Owner
<1> QED BY <1>1, <1>3, <1>4 DEF FileFits

\* What is known of a walk, in the next state.
LEMMA WalkStays ==
  ASSUME NEW w, UNCHANGED <<saved, edited, chain>>
  PROVE  /\ Between(w) => Between(w)'
         /\ Judgement(w) => Judgement(w)'
<1>1. PICK s, e, h : /\ s = saved /\ s = saved' /\ e = edited /\ e = edited'
                     /\ h = chain /\ h = chain'
  OBVIOUS
<1>2. SoundLast(w) => SoundLast(w)'
  BY <1>1 DEF SoundLast, Authentic, Committed, CommittedAt
<1>3. SoundSeen(w) /\ SoundTrust(w) /\ SoundEnd(w) => SoundSeen(w)' /\ SoundTrust(w)' /\ SoundEnd(w)'
  BY <1>1 DEF SoundSeen, SoundTrust, SoundEnd
<1>4. Sound(w) => Sound(w)'
  BY <1>2, <1>3 DEF Sound
<1>5. HeadMet(w) => HeadMet(w)'
  BY <1>1 DEF HeadMet, SameKey, SameLog
<1> QED BY <1>4, <1>5 DEF Between, Judgement

LEMMA JudgeStays ==
  ASSUME UNCHANGED <<saved, edited, chain>>
  PROVE  /\ Between(walk') => Between(walk)'
         /\ Judgement(walk') => Judgement(walk)'
<1>1. PICK w : w = walk'
  OBVIOUS
<1>2. Between(w) => Between(w)'
  BY WalkStays
<1>3. Judgement(w) => Judgement(w)'
  BY WalkStays
<1> QED BY <1>1, <1>2, <1>3

\* The chain grows while the walk stands.
LEMMA CommittedStays ==
  ASSUME chain \in Hash, chain' \in Hash, IsPrefixOf(chain, chain'), NEW h, NEW i, NEW p, NEW e,
         CommittedAt(h, i, p, e)
  PROVE  CommittedAt(h, i, p, e)'
<1>1. h \in Hash /\ IsPrefixOf(h, chain')
  BY PrefixLaws DEF CommittedAt
<1> QED BY <1>1 DEF CommittedAt

LEMMA ChainStart ==
  ASSUME chain \in Hash, chain' \in Hash, IsPrefixOf(chain, chain'), chain # << >>
  PROVE  chain' # << >> /\ chain'[1] = chain[1]
<1>1. Len(chain) >= 1 /\ 1 \in 1..Len(chain) /\ Len(chain) <= Len(chain') /\ chain[1] = chain'[1]
  BY HashEntry DEF IsPrefixOf
<1> QED BY <1>1, HashEntry

LEMMA GrowthKeeps ==
  ASSUME chain \in Hash, chain' \in Hash, IsPrefixOf(chain, chain'), edited' = edited, edited = "none",
         saved' = saved, walk' = walk, SavedInv, JudgeInv
  PROVE  SavedInv' /\ JudgeInv'
<1>1. SavedInv'
  <2>1. PICK g : g = saved /\ g = saved'
    OBVIOUS
  <2>2. g.kind # "none" =>
          /\ chain' # << >> /\ g.log_id = chain'[1].log_id /\ g.key_id = chain'[1].key_id
          /\ \E event : CommittedAt(g.record_hash, g.segment, g.record_id, event)'
    <3> SUFFICES ASSUME g.kind # "none"
                 PROVE  /\ chain' # << >> /\ g.log_id = chain'[1].log_id /\ g.key_id = chain'[1].key_id
                        /\ \E event : CommittedAt(g.record_hash, g.segment, g.record_id, event)'
      OBVIOUS
    <3>1. chain # << >> /\ g.log_id = chain[1].log_id /\ g.key_id = chain[1].key_id
      BY <2>1 DEF SavedInv
    <3>2. PICK event : CommittedAt(g.record_hash, g.segment, g.record_id, event)
      BY <2>1 DEF SavedInv
    <3>3. CommittedAt(g.record_hash, g.segment, g.record_id, event)'
      BY <3>2, CommittedStays
    <3> QED BY <3>1, <3>3, ChainStart
  <2>3. SavedInts' /\ g.kind \in HeadKinds \cup {"none"}
    BY <2>1 DEF SavedInv, SavedInts
  <2> QED BY <2>1, <2>2, <2>3 DEF SavedInv
<1>2. PICK w : w = walk /\ w = walk'
  OBVIOUS
<1>3. SoundLast(w) => SoundLast(w)'
  <2>1. PICK l : l = w.last[1]
    OBVIOUS
  <2> SUFFICES ASSUME SoundLast(w), w.last # << >> PROVE SoundLast(w)'
    BY DEF SoundLast
  <2>2. /\ IsPlace(l.segment, l.record) /\ chain # << >> /\ w.seg0 # << >>
        /\ Committed(l) /\ SameSigner(w.seg0[1].datum, chain[1])
    BY <2>1 DEF SoundLast, Authentic
  <2>3. Committed(l)'
    BY <2>2, CommittedStays DEF Committed
  <2> QED BY <2>1, <2>2, <2>3, ChainStart DEF SoundLast
<1>4. SoundSeen(w) /\ SoundTrust(w) /\ SoundEnd(w) => SoundSeen(w)' /\ SoundTrust(w)' /\ SoundEnd(w)'
  BY DEF SoundSeen, SoundTrust, SoundEnd
<1>5. Sound(w) => Sound(w)'
  BY <1>3, <1>4 DEF Sound
<1>6. HeadMet(w) => HeadMet(w)'
  BY DEF HeadMet, SameKey, SameLog
<1>7. /\ Between(w) => Between(w)'
      /\ Judgement(w) => Judgement(w)'
  BY <1>5, <1>6 DEF Between, Judgement
<1>8. JudgeInv'
  BY <1>2, <1>7 DEF JudgeInv
<1> QED BY <1>1, <1>8

-----------------------------------------------------------------------------
(* The verifier's invariant. *)

VerifyInv == VerifyTypeInv /\ LogFacts /\ SavedInv /\ JudgeInv

\* The files, the chain and the saved head stay.
LEMMA QuietVerify ==
  ASSUME FileTypes, LogFacts, UNCHANGED <<signedVars, edited, chain>>
  PROVE  LogFacts'
<1>1. file' = file /\ entries' = entries /\ pc' = pc /\ cur' = cur /\ arg' = arg /\ synced' = synced
      /\ chain' = chain /\ edited' = edited
  BY DEF signedVars, disk
<1>2. ChainOK'
  BY <1>1 DEF LogFacts, ChainOK
<1>3. edited = "none" => SealStep'
  <2> SUFFICES ASSUME edited = "none" PROVE SealStep'
    OBVIOUS
  <2>1. SealStep
    BY DEF LogFacts
  <2> QED BY <1>1, <2>1 DEF SealStep, HasFinal, EndsWith, LastChunk, LastEvent
<1>4. edited = "none" => LogInv'
  <2> SUFFICES ASSUME edited = "none" PROVE LogInv'
    OBVIOUS
  <2>1. OneLog(file, entries) /\ AtTop /\ ChainInv
    BY DEF LogFacts, LogInv
  <2>2. OneLog(file', entries')
    BY <1>1, <2>1
  <2>3. AtTop'
    BY <1>1, <2>1 DEF AtTop, LastChunk
  <2>4. ChainInv'
    BY <1>1, <2>1 DEF ChainInv
  <2> QED BY <2>2, <2>3, <2>4 DEF LogInv
<1> QED BY <1>1, <1>2, <1>3, <1>4 DEF LogFacts

LEMMA WriterStepInv ==
  ASSUME FewSegments, NothingLost, VerifyInv, WriterStep
  PROVE  LogFacts' /\ SavedInv' /\ JudgeInv'
<1>1. /\ SignedNext /\ ChainStep /\ edited = "none" /\ edited' = edited /\ saved' = saved
      /\ walk' = walk
  BY DEF WriterStep, ChainStep
<1>2. SignedInv /\ SignedInv' /\ SealStep /\ LogInv
  BY <1>1, NextSignedInv DEF VerifyInv, VerifyTypeInv, FileTypes, LogFacts
<1>3. LogInv' /\ (chain' = chain \/ Grows(chain, chain', NewDatum))
  BY <1>1, <1>2, NextLogInv
<1>4. SealStep'
  BY <1>1, <1>2, NextSealStep
<1>5. chain \in Hash /\ chain' \in Hash
  BY <1>2, <1>3 DEF LogInv, ChainInv
<1>6. IsPrefixOf(chain, chain')
  BY <1>3, <1>5, PrefixLaws DEF Grows
<1>7. SavedInv' /\ JudgeInv'
  BY <1>1, <1>5, <1>6, GrowthKeeps DEF VerifyInv
<1>8. LogFacts'
  BY <1>1, <1>3, <1>4 DEF LogFacts, LogInv, ChainInv, ChainOK
<1> QED BY <1>7, <1>8

LEMMA SaveHeadInv ==
  ASSUME VerifyInv, NEW kind \in HeadKinds, SaveHead(kind)
  PROVE  SavedInv' /\ JudgeInv'
<1>1. PICK w, l, g : w = walk /\ l = w.last[1] /\ g = saved'
  OBVIOUS
<1>2. /\ w.pc = "done" /\ w.verdict \in {"Verified", "SelfConsistent"} /\ w.last # << >>
      /\ edited = "none" /\ g = HeadOf(w, kind) /\ walk' = Idle /\ chain' = chain
  BY <1>1 DEF SaveHead
<1>3. Sound(w)
  BY <1>1, <1>2 DEF VerifyInv, JudgeInv, Judgement
<1>4. /\ IsPlace(l.segment, l.record) /\ chain # << >> /\ Committed(l)
      /\ SameSigner(w.seg0[1].datum, chain[1])
  BY <1>1, <1>2, <1>3 DEF Sound, SoundLast, Authentic
<1>5. /\ g.kind = kind /\ g.log_id = w.seg0[1].datum.log_id /\ g.key_id = w.seg0[1].datum.key_id
      /\ g.segment = l.segment /\ g.record_id = l.record /\ g.record_hash = l.hash
  BY <1>1, <1>2 DEF HeadOf
<1>6. CommittedAt(g.record_hash, g.segment, g.record_id, l.event)'
  BY <1>2, <1>4, <1>5 DEF Committed, CommittedAt
<1>7. SavedInts'
  BY <1>1, <1>4, <1>5 DEF SavedInts
<1>8. g.log_id = chain'[1].log_id /\ g.key_id = chain'[1].key_id /\ chain' # << >>
  BY <1>2, <1>4, <1>5 DEF SameSigner
<1>9. SavedInv'
  BY <1>1, <1>5, <1>6, <1>7, <1>8 DEF SavedInv
<1>10. JudgeInv'
  BY <1>2, IdleOK DEF JudgeInv
<1> QED BY <1>9, <1>10

LEMMA EditInv ==
  ASSUME VerifyInv, NEW kind \in Edits, Edit(kind)
  PROVE  LogFacts' /\ SavedInv' /\ JudgeInv'
<1>1. /\ edited = "none" /\ walk.pc = "idle" /\ edited' = kind
      /\ saved' = saved /\ walk' = walk /\ chain' = chain
  BY DEF Edit
<1>2. file \in [Idx -> Seq(GenuineChunks(chain))] /\ entries \subseteq Idx
  BY <1>1, GenuineFiles DEF VerifyInv, VerifyTypeInv, FileTypes, LogFacts, SignedInv, SignedTypeOK
<1>3. file' \in [Idx -> Seq(VouchedChunks(chain))]
  BY <1>2, EditKeeps, EditableVouched DEF VerifyInv, LogFacts
<1>4. kind # "none"
  BY VerifyAssumption
<1>5. ChainOK'
  BY <1>1 DEF VerifyInv, LogFacts, ChainOK
<1>6. LogFacts'
  BY <1>1, <1>3, <1>4, <1>5 DEF LogFacts
<1>7. SavedInv'
  <2>1. PICK g : g = saved /\ g = saved'
    BY <1>1
  <2>2. /\ SavedInts' /\ g.kind \in HeadKinds \cup {"none"}
        /\ g.kind # "none" =>
             /\ chain # << >> /\ g.log_id = chain[1].log_id /\ g.key_id = chain[1].key_id
             /\ \E event : CommittedAt(g.record_hash, g.segment, g.record_id, event)
    BY <2>1 DEF VerifyInv, SavedInv, SavedInts
  <2> QED BY <1>1, <2>1, <2>2 DEF SavedInv, CommittedAt
<1>8. JudgeInv'
  BY <1>1 DEF JudgeInv
<1> QED BY <1>6, <1>7, <1>8

LEMMA BeginJudge ==
  ASSUME FileTypes, NEW o, VerifyBegin(o)
  PROVE  JudgeInv'
<1>1. PICK w : w = walk'
  OBVIOUS
<1>2. /\ WalkOK(w) /\ w.violations = << >> /\ w.stopped = FALSE /\ w.last = << >>
      /\ w.seen = << >> /\ w.trusted = FALSE /\ w.signer_ok = FALSE /\ w.expected = 0
      /\ w.pc = "done" => w.verdict = "Error"
  BY <1>1, BeginWalk
<1>3. Sane(w)
  BY <1>2 DEF Sane, WalkOK
<1>4. Sound(w) /\ StandsAt(w, w.expected, 0)
  BY <1>2 DEF Sound, SoundLast, SoundSeen, SoundTrust, SoundEnd, StandsAt, IsPlace
<1>5. Between(w)
  BY <1>2, <1>3, <1>4 DEF Between
<1>6. w.pc = "done" => Judgement(w)
  BY <1>2 DEF Judgement
<1>7. UNCHANGED <<saved, edited, chain>>
  BY DEF VerifyBegin
<1> QED BY <1>1, <1>5, <1>6, <1>7, JudgeStays DEF JudgeInv

LEMMA SegmentJudge ==
  ASSUME VerifyInv, VerifySegment
  PROVE  JudgeInv'
<1>1. PICK w : w = walk
  OBVIOUS
<1>2. FileTypes /\ WalkOK(walk) /\ LogFacts /\ SavedInts /\ w.todo \subseteq Idx
  BY <1>1 DEF VerifyInv, VerifyTypeInv, SavedInv, WalkOK
<1>3. Between(w)
  BY <1>1 DEF VerifyInv, JudgeInv, VerifySegment
<1>4. walk'.pc = "walk"
  BY <1>2, SegmentStepWalk
<1>5. PICK n \in w.todo : \E v : /\ v = WalkSegment(w, n, file[n], w.todo = {n})
                                 /\ Only(walk', v, {"todo"})
  BY <1>1, <1>2, SegmentStepWalk
<1>6. PICK v : v = WalkSegment(w, n, file[n], w.todo = {n}) /\ Only(walk', v, {"todo"})
  BY <1>5
<1>7. n \in Idx /\ n \in Nat
  BY <1>2 DEF Idx
<1>8. PICK s, last : s = file[n] /\ last = (w.todo = {n})
  OBVIOUS
<1>9. s \in Seq(EditedChunk) /\ FileFits(s)
  BY <1>2, <1>7, <1>8, AnyFile, FilesFit
<1>10. chain \in Hash
  BY <1>2 DEF FileTypes
<1>11. Between(v)
  <2>1. Between(WalkSegment(w, n, s, last))
    BY <1>2, <1>3, <1>7, <1>9, <1>10, WalkSegmentBetween
  <2> QED BY <1>6, <1>8, <2>1
<1>12. Between(walk')
  <2>1. Sane(v) /\ {"todo"} \cap {"last", "seen", "trusted", "signer_ok", "opts", "seg0"} = {}
    BY <1>11 DEF Between
  <2>2. Sane(walk') /\ (Clean(walk') <=> Clean(v))
    BY <1>6, <2>1, SaneOnly
  <2>3. /\ Sound(v) => Sound(walk')
        /\ \A i, p : StandsAt(v, i, p) => StandsAt(walk', i, p)
    BY <1>6, <2>1, SoundOnly
  <2>4. walk'.expected = v.expected /\ walk'.seg0 = v.seg0
    BY <1>6, FieldNames DEF Only
  <2> QED BY <1>11, <2>2, <2>3, <2>4 DEF Between
<1>13. UNCHANGED <<saved, edited, chain>>
  BY DEF VerifySegment
<1> QED BY <1>4, <1>12, <1>13, JudgeStays DEF JudgeInv

LEMMA EndJudge ==
  ASSUME VerifyInv, VerifyEnd
  PROVE  JudgeInv'
<1>1. IsWalk(walk) /\ SavedInts /\ Between(walk)
  BY DEF VerifyInv, VerifyTypeInv, WalkOK, SavedInv, JudgeInv, VerifyEnd
<1>2. Judgement(walk') /\ walk'.pc = "done"
  BY <1>1, VerifyEndWalk
<1>3. UNCHANGED <<saved, edited, chain>>
  BY DEF VerifyEnd
<1> QED BY <1>2, <1>3, JudgeStays DEF JudgeInv

LEMMA SavedStays ==
  ASSUME SavedInv, UNCHANGED <<saved, chain>>
  PROVE  SavedInv'
<1>1. PICK g, h : g = saved /\ g = saved' /\ h = chain /\ h = chain'
  OBVIOUS
<1> QED BY <1>1 DEF SavedInv, SavedInts, CommittedAt

LEMMA NextVerifyInv ==
  ASSUME FewSegments, NothingLost
  PROVE  VerifyInv /\ [VerifyNext]_vars => VerifyInv'
<1> SUFFICES ASSUME VerifyInv, [VerifyNext]_vars PROVE VerifyInv'
  OBVIOUS
<1>1. VerifyTypeInv'
  BY NextVerifyTypeInv DEF VerifyInv
<1>2. FileTypes /\ LogFacts /\ SavedInv /\ JudgeInv
  BY DEF VerifyInv, VerifyTypeInv
<1>3. CASE WriterStep
  BY <1>1, <1>3, WriterStepInv DEF VerifyInv
<1>4. CASE \E kind \in HeadKinds : SaveHead(kind)
  <2>1. PICK kind \in HeadKinds : SaveHead(kind)
    BY <1>4
  <2>2. LogFacts'
    BY <1>2, <2>1, QuietVerify DEF SaveHead
  <2> QED BY <1>1, <2>1, <2>2, SaveHeadInv DEF VerifyInv
<1>5. CASE \E kind \in Edits : Edit(kind)
  BY <1>1, <1>5, EditInv DEF VerifyInv
<1>6. CASE \E o \in Options : VerifyBegin(o)
  <2>1. PICK o \in Options : VerifyBegin(o)
    BY <1>6
  <2>2. UNCHANGED <<signedVars, saved, edited, chain>>
    BY <2>1 DEF VerifyBegin
  <2> QED BY <1>1, <1>2, <2>1, <2>2, QuietVerify, SavedStays, BeginJudge DEF VerifyInv
<1>7. CASE VerifySegment \/ VerifyEnd
  <2>1. UNCHANGED <<signedVars, saved, edited, chain>>
    BY <1>7 DEF VerifySegment, VerifyEnd
  <2>2. JudgeInv'
    BY <1>7, SegmentJudge, EndJudge
  <2> QED BY <1>1, <1>2, <2>1, <2>2, QuietVerify, SavedStays DEF VerifyInv
<1>8. CASE VerifyReset
  <2>1. UNCHANGED <<signedVars, saved, edited, chain>> /\ walk' = Idle
    BY <1>8 DEF VerifyReset
  <2>2. JudgeInv'
    BY <2>1, IdleOK DEF JudgeInv
  <2> QED BY <1>1, <1>2, <2>1, <2>2, QuietVerify, SavedStays DEF VerifyInv
<1>9. CASE UNCHANGED vars
  <2>1. UNCHANGED <<signedVars, saved, edited, chain, walk>>
    BY <1>9 DEF vars, verifyVars
  <2>2. JudgeInv'
    <3>1. PICK w : w = walk /\ w = walk'
      BY <2>1
    <3>2. /\ Between(w) => Between(w)'
          /\ Judgement(w) => Judgement(w)'
      BY <2>1, WalkStays
    <3> QED BY <1>2, <3>1, <3>2 DEF JudgeInv
  <2> QED BY <1>1, <1>2, <2>1, <2>2, QuietVerify, SavedStays DEF VerifyInv
<1> QED BY <1>3, <1>4, <1>5, <1>6, <1>7, <1>8, <1>9 DEF VerifyNext

LEMMA InitVerifyInv == VerifyInit => VerifyInv
<1> SUFFICES ASSUME VerifyInit PROVE VerifyInv
  OBVIOUS
<1>1. VerifyTypeInv
  BY InitVerifyTypeInv
<1>2. /\ file = [i \in Idx |-> << >>] /\ entries = {} /\ pc = "closed" /\ cur = NoWriter
      /\ saved = NoHead /\ edited = "none" /\ chain = << >> /\ walk = Idle
  BY DEF VerifyInit, SignedInit, ZeroHash
<1>3. chain \in Hash /\ Len(chain) = 0
  BY <1>2 DEF Hash
<1>4. ChainOK
  BY <1>3 DEF ChainOK, Orderly
<1>5. SealStep
  BY <1>2 DEF SealStep
<1>6. \A i \in Idx : file[i] = << >> /\ Len(file[i]) = 0
  BY <1>2
<1>7. OneLog(file, entries)
  <2>1. \A i \in Idx : FileOK(file[i], i)
    BY <1>6, FileOKEmpty
  <2> QED BY <1>6, <2>1 DEF OneLog, Tidy, HasHeader
<1>8. AtTop
  BY <1>2 DEF AtTop
<1>9. ChainInv
  <2>1. Genuine(file, chain)
    BY <1>6 DEF Genuine
  <2>2. IsTip(file, chain)
    BY <1>2, <1>6 DEF IsTip, HasHeader, ZeroHash
  <2>3. Owner(file, chain)
    BY <1>2 DEF Owner
  <2>4. cur.next_record_id = 0
    BY <1>2 DEF NoWriter
  <2> QED BY <1>3, <1>4, <2>1, <2>2, <2>3, <2>4 DEF ChainInv, ChainOK
<1>10. LogFacts
  BY <1>2, <1>4, <1>5, <1>7, <1>8, <1>9 DEF LogFacts, LogInv
<1>11. SavedInv
  BY <1>2 DEF SavedInv, SavedInts, IsPlace, NoHead
<1>12. JudgeInv
  BY <1>2, IdleOK DEF JudgeInv
<1> QED BY <1>1, <1>10, <1>11, <1>12 DEF VerifyInv

\* verify_log: with no other key pinned than the one the log was written with, what
\* is called Verified is a history that key's signer wrote, after any change of the
\* files and however far the writer got meanwhile.  Logs of at most NameLimit
\* segments, in which no write was cut short and nothing lost with the power.
THEOREM WrittenCorrect ==
  ASSUME FewSegments, NothingLost
  PROVE  VerifySpec => []VerifiedIsWritten
<1>1. VerifyInv /\ [VerifyNext]_vars => VerifyInv'
  BY NextVerifyInv
<1>2. VerifyInv => VerifiedIsWritten
  BY WrittenFollows DEF VerifyInv
<1> QED BY <1>1, <1>2, InitVerifyInv, PTL DEF VerifySpec

\* A head that was saved (checkpoint, key statement, attestation) holds in every
\* verified log: its record is still in it, and the log of a retired or revoked key
\* ends at the head its statement names.
THEOREM HeadCorrect ==
  ASSUME FewSegments, NothingLost
  PROVE  VerifySpec => []SavedHeadHolds
<1>1. VerifyInv /\ [VerifyNext]_vars => VerifyInv'
  BY NextVerifyInv
<1>2. VerifyInv => SavedHeadHolds
  BY HeadFollows DEF VerifyInv, LogFacts
<1> QED BY <1>1, <1>2, InitVerifyInv, PTL DEF VerifySpec

\* log.sealed ends the chain, and stays there after a change from outside.
SealedInv ==
  /\ SealLast
  /\ edited = "none" => SealEnds

LEMMA NextSealedInv ==
  ASSUME FewSegments, NothingLost, NoFailedSync
  PROVE  VerifyInv /\ SealedInv /\ [VerifyNext]_vars => SealedInv'
<1> SUFFICES ASSUME VerifyInv, SealedInv, [VerifyNext]_vars PROVE SealedInv'
  OBVIOUS
<1>1. CASE WriterStep
  <2>1. /\ SignedNext /\ ChainStep /\ edited = "none" /\ SealEnds
    BY <1>1 DEF WriterStep, ChainStep, SealedInv
  <2>2. SignedInv /\ SignedInv' /\ SealStep /\ LogInv
    BY <2>1, NextSignedInv DEF VerifyInv, VerifyTypeInv, FileTypes, LogFacts
  <2>3. SealEnds'
    BY <2>1, <2>2, NextSealEnds
  <2> QED BY <2>3 DEF SealEnds, SealLast, SealedInv
<1>2. CASE ~WriterStep
  <2>1. /\ chain' = chain
        /\ edited' = "none" => edited = "none" /\ pc' = pc /\ cur' = cur
    <3>1. CASE \E kind \in Edits : Edit(kind)
      <4>1. PICK kind \in Edits : Edit(kind)
        BY <3>1
      <4>2. kind # "none"
        BY VerifyAssumption
      <4> QED BY <4>1, <4>2 DEF Edit
    <3>2. CASE ~(\E kind \in Edits : Edit(kind))
      <4>1. UNCHANGED <<signedVars, edited, chain>>
        BY <1>2, <3>2 DEF VerifyNext, SaveHead, VerifyBegin, VerifySegment, VerifyEnd, VerifyReset,
                          vars, verifyVars
      <4> QED BY <4>1 DEF signedVars
    <3> QED BY <3>1, <3>2
  <2> QED BY <2>1 DEF SealedInv, SealLast, SealEnds, SealedChain
<1> QED BY <1>1, <1>2

\* A verified log that ends in log.sealed has lost nothing, when no sync failed:
\* behind a failed sync of seal a writer may go on.
THEOREM WholeCorrect ==
  ASSUME FewSegments, NothingLost, NoFailedSync
  PROVE  VerifySpec => []SealedIsWhole
<1>1. VerifyInit => VerifyInv /\ SealedInv
  <2>1. VerifyInit => Len(chain) = 0 /\ chain = << >>
    BY DEF VerifyInit, ZeroHash
  <2>2. VerifyInit => SealedInv
    BY <2>1 DEF SealedInv, SealLast, SealEnds, SealedChain
  <2> QED BY <2>2, InitVerifyInv
<1>2. VerifyInv /\ SealedInv /\ [VerifyNext]_vars => VerifyInv' /\ SealedInv'
  BY NextVerifyInv, NextSealedInv
<1>3. VerifyInv /\ SealedInv => SealedIsWhole
  BY WholeFollows DEF VerifyInv, LogFacts, SealedInv
<1> QED BY <1>1, <1>2, <1>3, PTL DEF VerifySpec
=============================================================================
