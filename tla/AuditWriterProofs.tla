-------------------------- MODULE AuditWriterProofs --------------------------
(***************************************************************************)
(* Theorems about AuditWriter, for every value of its constants: what      *)
(* holds under every set of faults, and what the writer never loses.       *)
(* Which promise survives which fault is the hypothesis of each theorem of *)
(* the second kind: TLC finds every one of them violated once a fault it   *)
(* excludes is added.                                                      *)
(***************************************************************************)
EXTENDS AuditWriterRefinement, NatLemmas, SequenceTheorems, TLAPS

USE WriterAssumption

-----------------------------------------------------------------------------
(* The scan. *)

\* scan_segment_for_recovery always has a place to stop: everything up to it is
\* chained and what follows is not.
LEMMA ScanStops ==
  ASSUME NEW s \in Seq(Chunk), Len(s) >= 1, NEW k
  PROVE  /\ ScanStop(s, k) \in 1..Len(s)
         /\ \A j \in 2..ScanStop(s, k) : Chained(s, j, k)
         /\ ScanStop(s, k) < Len(s) => ~Chained(s, ScanStop(s, k) + 1, k)
<1> DEFINE Stops(n) == /\ \A j \in 2..n : Chained(s, j, k)
                       /\ n < Len(s) => ~Chained(s, n + 1, k)
           T == {n \in 2..Len(s) : ~Chained(s, n, k)}
<1>0. Len(s) \in Nat
  OBVIOUS
<1>1. \E n \in 1..Len(s) : Stops(n)
  <2>1. PICK n \in 1..Len(s) : (\A j \in 2..n : j \notin T) /\ (n < Len(s) => n + 1 \in T)
    <3>1. T \in SUBSET (2..Len(s))
      OBVIOUS
    <3> HIDE DEF T
    <3> QED BY <1>0, <3>1, FirstBreak
  <2>2. Stops(n)
    BY <1>0, <2>1
  <2> QED BY <2>2
<1>2. ScanStop(s, k) = CHOOSE n \in 1..Len(s) : Stops(n)
  BY DEF ScanStop
<1> HIDE DEF Stops
<1>3. ScanStop(s, k) \in 1..Len(s) /\ Stops(ScanStop(s, k))
  BY <1>1, <1>2
<1> USE DEF Stops
<1> QED BY <1>3

-----------------------------------------------------------------------------
(* Types of the pieces. *)

LEMMA HeaderType ==
  ASSUME NEW i \in Idx, NEW k \in Keys, NEW h \in Hash
  PROVE  Header(i, k, h) \in Chunk
BY DEF Header, Chunk

LEMMA RecordType ==
  ASSUME NEW d \in Datum, NEW h \in Hash, NEW e \in Nat
  PROVE  Record(d, h, e) \in Chunk
BY DEF Record, Chunk

LEMMA UnusableType == Torn \in Chunk /\ Bad \in Chunk
BY DEF Chunk

LEMMA HeaderFields ==
  ASSUME NEW c \in Chunk, c.kind = "header"
  PROVE  c.index \in Idx /\ c.key_id \in Keys /\ c.prev_final \in Hash /\ c.end \in Nat
BY DEF Chunk, Torn, Bad

LEMMA RecordFields ==
  ASSUME NEW c \in Chunk, c.kind = "record"
  PROVE  c.datum \in Datum /\ c.prev_hash \in Hash /\ c.end \in Nat
BY DEF Chunk, Torn, Bad

LEMMA GenesisMacType ==
  ASSUME NEW k \in Keys
  PROVE  GenesisMac(k) \in Hash
BY DEF GenesisMac, Hash, Datum

LEMMA MacType ==
  ASSUME NEW h \in Hash, NEW d \in Datum
  PROVE  Mac(h, d) \in Hash
BY DEF Mac, Hash

LEMMA ChainAfterType ==
  ASSUME NEW c \in Chunk, c.kind \in {"header", "record"}
  PROVE  ChainAfter(c) \in Hash
<1>1. CASE c.kind = "header"
  BY <1>1, HeaderFields, GenesisMacType DEF ChainAfter, ChainStart
<1>2. CASE c.kind = "record"
  BY <1>2, RecordFields, MacType DEF ChainAfter
<1> QED BY <1>1, <1>2

LEMMA SegmentStateType ==
  ASSUME NEW i \in Idx, NEW k \in Keys, NEW s \in Seq(Chunk), Len(s) >= 1,
         s[Len(s)].kind \in {"header", "record"}
  PROVE  SegmentState(i, k, s) \in CurType
<1> DEFINE c == s[Len(s)]
<1>1. c \in Chunk /\ Len(s) \in Nat
  OBVIOUS
<1>2. c.end \in Nat
  BY <1>1, HeaderFields, RecordFields
<1>3. c.kind = "record" => c.datum.record_id \in Nat
  BY <1>1, RecordFields DEF Datum
<1>4. ChainAfter(c) \in Hash
  BY <1>1, ChainAfterType
<1> QED BY <1>1, <1>2, <1>3, <1>4 DEF SegmentState, CurType

\* What a scan accepts is a prefix of the file, and a non-empty one when there
\* is a header.
LEMMA IntactPrefix ==
  ASSUME NEW s \in Seq(Chunk)
  PROVE  /\ Intact(s) \in Seq(Chunk)
         /\ IsPrefixOf(Intact(s), s)
         /\ HasHeader(s) => /\ Len(Intact(s)) >= 1
                            /\ Len(Intact(s)) = ScanStop(s, s[1].key_id)
<1>1. CASE ~HasHeader(s)
  BY <1>1 DEF Intact, IsPrefixOf
<1>2. CASE HasHeader(s)
  <2> DEFINE n == ScanStop(s, s[1].key_id)
  <2>1. Len(s) \in Nat /\ Len(s) >= 1
    BY <1>2 DEF HasHeader
  <2>2. n \in 1..Len(s)
    BY <2>1, ScanStops
  <2> HIDE DEF n
  <2>3. /\ SubSeq(s, 1, n) \in Seq(Chunk)
        /\ Len(SubSeq(s, 1, n)) = n
        /\ \A j \in 1..n : SubSeq(s, 1, n)[j] = s[j]
    BY <2>1, <2>2
  <2>4. Intact(s) = SubSeq(s, 1, n)
    BY <1>2 DEF Intact, n
  <2> QED BY <2>1, <2>2, <2>3, <2>4 DEF IsPrefixOf, n
<1> QED BY <1>1, <1>2

-----------------------------------------------------------------------------
(* The inductive invariant. *)

\* What holds between two system calls of an operation: the caller's input is
\* there, a header is written only below the last index, and a frame in flight
\* is the torn end of the current file.
StepInv ==
  /\ pc \in AppendSteps => arg \in Inputs
  /\ pc \in {"header", "open_header"} => cur.index < MaxIndex
  /\ pc \in {"fin_write", "rec_write"} =>
       file[cur.index][Len(file[cur.index])].kind = "torn"

IInv == TypeOK /\ StepInv /\ SegmentsChain /\ WriterAgrees

\* A file whose framing part is part of a chained file is chained.
LEMMA ChainsPart ==
  ASSUME NEW s \in Seq(Chunk), NEW t \in Seq(Chunk), Chains(s),
         \A n \in 2..Len(t) : (\A m \in 2..n : t[m].kind = "record") =>
            n <= Len(s) /\ \A m \in 1..n : t[m] = s[m]
  PROVE  Chains(t)
<1> SUFFICES ASSUME NEW n \in 2..Len(t), \A m \in 2..n : t[m].kind = "record"
             PROVE  /\ t[1].kind = "header"
                    /\ Chained(t, n, t[1].key_id)
                    /\ t[n].datum.record_id = n - 2
  BY DEF Chains
<1>1. n \in 2..Len(s) /\ \A m \in 1..n : t[m] = s[m]
  OBVIOUS
<1>2. t[1] = s[1] /\ t[n] = s[n] /\ t[n-1] = s[n-1]
  BY <1>1
<1>3. \A m \in 2..n : s[m].kind = "record"
  BY <1>1
<1>4. /\ s[1].kind = "header"
      /\ Chained(s, n, s[1].key_id)
      /\ s[n].datum.record_id = n - 2
  BY <1>1, <1>3 DEF Chains
<1> QED BY <1>2, <1>4 DEF Chained

LEMMA ChainsPrefix ==
  ASSUME NEW s \in Seq(Chunk), NEW t \in Seq(Chunk), Chains(s), IsPrefixOf(t, s)
  PROVE  Chains(t)
BY ChainsPart DEF IsPrefixOf

LEMMA ChainsShort ==
  ASSUME NEW s \in Seq(Chunk), Len(s) <= 1
  PROVE  Chains(s)
BY DEF Chains

\* Unusable bytes at the end do not disturb the chain before them.
LEMMA ChainsTorn ==
  ASSUME NEW s \in Seq(Chunk), Chains(s), NEW c \in Chunk, c.kind # "record"
  PROVE  Chains(Append(s, c))
<1> DEFINE t == Append(s, c)
<1>1. /\ t \in Seq(Chunk) /\ Len(t) = Len(s) + 1 /\ Len(s) \in Nat
      /\ t[Len(s) + 1] = c /\ \A m \in 1..Len(s) : t[m] = s[m]
  OBVIOUS
<1> HIDE DEF t
<1>2. ASSUME NEW n \in 2..Len(t), \A m \in 2..n : t[m].kind = "record"
      PROVE  n <= Len(s) /\ \A m \in 1..n : t[m] = s[m]
  <2>1. n # Len(s) + 1
    BY <1>1, <1>2
  <2> QED BY <1>1, <2>1
<1>3. Chains(t)
  BY <1>1, <1>2, ChainsPart
<1> QED BY <1>3 DEF t

LEMMA NoSegmentType == NoSegment \in CurType
BY DEF NoSegment, CurType, NoHash, Hash, Idx

\* The SegmentState c is the one of segment i with key k and the whole file s.
StateOf(c, i, k, s) ==
  /\ Len(s) >= 1 /\ s[1].kind = "header" /\ s[1].key_id = k
  /\ c \in CurType /\ c.index = i /\ c.key_id = k
  /\ c.last_hmac = ChainAfter(s[Len(s)])
  /\ c.next_record_id = Len(s) - 1
  /\ c.record_count = Len(s) - 1
  /\ c.bytes_written = s[Len(s)].end

\* What the scan keeps of a chained file is chained, and the state it yields is
\* the state of that part.
LEMMA ScannedState ==
  ASSUME NEW i \in Idx, NEW k \in Keys, NEW s \in Seq(Chunk), Chains(s),
         Refusal(s, k) = "none"
  PROVE  /\ Intact(s) \in Seq(Chunk) /\ Chains(Intact(s))
         /\ StateOf(SegmentState(i, k, Intact(s)), i, k, Intact(s))
<1> DEFINE t == Intact(s)
           n == Len(t)
<1>1. HasHeader(s) /\ s[1].key_id = k
  BY DEF Refusal
<1>2. /\ t \in Seq(Chunk) /\ n \in Nat /\ n >= 1 /\ n = ScanStop(s, k)
      /\ n <= Len(s) /\ \A j \in 1..n : t[j] = s[j]
  BY <1>1, IntactPrefix DEF IsPrefixOf
<1>3. IsPrefixOf(t, s) /\ Chains(t)
  BY <1>2, IntactPrefix, ChainsPrefix
<1>4. t[1].kind = "header" /\ t[1].key_id = k
  BY <1>1, <1>2 DEF HasHeader
<1>5. \A j \in 2..n : t[j].kind = "record"
  <2>1. s # << >> /\ Len(s) \in Nat /\ Len(s) >= 1
    BY <1>1 DEF HasHeader
  <2>2. \A j \in 2..n : Chained(s, j, k)
    BY <1>2, <2>1, ScanStops
  <2> QED BY <1>2, <2>2 DEF Chained
<1> HIDE DEF t
<1>6. t[n].kind \in {"header", "record"}
  BY <1>2, <1>4, <1>5
<1>7. SegmentState(i, k, t) \in CurType
  BY <1>2, <1>6, SegmentStateType
<1>8. IF t[n].kind = "record" THEN t[n].datum.record_id + 1 = n - 1 ELSE n = 1
  <2>1. CASE n = 1
    BY <1>4, <2>1
  <2>2. CASE n # 1
    <3>1. n \in 2..n
      BY <1>2, <2>2
    <3>2. t[n].datum.record_id = n - 2
      BY <1>3, <1>5, <3>1 DEF Chains
    <3> QED BY <1>2, <1>5, <3>1, <3>2
  <2> QED BY <2>1, <2>2
<1> QED BY <1>2, <1>3, <1>4, <1>7, <1>8 DEF SegmentState, StateOf, t

-----------------------------------------------------------------------------
(* Every step keeps the invariant. *)

\* The writer agrees with its file when that file is a header alone.
LEMMA HeaderState ==
  ASSUME NEW i \in Idx, NEW k \in Keys, NEW h \in Hash,
         NEW s \in Seq(Chunk), Len(s) = 1, s[1] = Header(i, k, h)
  PROVE  Chains(s) /\ StateOf(SegmentState(i, k, s), i, k, s)
<1>1. s[1].kind = "header" /\ s[1].key_id = k
  BY DEF Header
<1>2. Len(s) <= 1 /\ Len(s) >= 1 /\ s[Len(s)] = s[1]
  OBVIOUS
<1>3. Chains(s)
  BY <1>2, ChainsShort, Zenon
<1>4. SegmentState(i, k, s) \in CurType
  BY <1>1, <1>2, SegmentStateType, Zenon
<1> QED BY <1>1, <1>3, <1>4 DEF SegmentState, StateOf

\* An operation that returns an error leaves a state the next one can start in.
LEMMA FailKeeps ==
  ASSUME IInv, Fail, pc # "closed"
  PROVE  IInv'
<1>1. /\ pc' \in {"closed", "ready"}
      /\ pc' = "ready" <=> pc \notin OpenSteps
      /\ pc' = "ready" => cur' = cur
      /\ cur' \in {cur, NoSegment}
      /\ arg' = NoInput
      /\ UNCHANGED <<file, entries, synced, dirSynced, report, acked, flushed>>
  BY DEF Fail, disk
<1>2. TypeOK'
  BY <1>1, NoSegmentType DEF IInv, TypeOK, Steps
<1>3. StepInv'
  BY <1>1 DEF StepInv, AppendSteps
<1>4. SegmentsChain'
  BY <1>1 DEF IInv, SegmentsChain
<1>5. WriterAgrees'
  <2> SUFFICES ASSUME pc' = "ready" PROVE WriterAgrees'
    BY <1>1 DEF WriterAgrees
  <2> DEFINE s == file[cur.index]
  <2>1. pc \notin {"closed", "genesis"} /\ cur' = cur /\ file' = file
    BY <1>1 DEF OpenSteps
  <2>2. s \in Seq(Chunk)
    BY DEF IInv, TypeOK, CurType
  <2>3. Written' = Len(s)
    BY <2>1 DEF Written
  <2>4. CASE pc \notin {"fin_write", "rec_write"}
    BY <2>1, <2>3, <2>4 DEF IInv, WriterAgrees, Written
  <2>5. CASE pc \in {"fin_write", "rec_write"}
    <3>1. Len(s) - 1 >= 1 /\ s[1].kind = "header" /\ s[1].key_id = cur.key_id
      BY <2>1, <2>5 DEF IInv, WriterAgrees, Written
    <3>2. Len(s) \in 2..Len(s) /\ s[Len(s)].kind # "record"
      BY <2>2, <2>5, <3>1 DEF IInv, StepInv
    <3> QED BY <2>1, <2>2, <2>3, <3>1, <3>2 DEF WriterAgrees
  <2> QED BY <2>4, <2>5
<1> QED BY <1>2, <1>3, <1>4, <1>5 DEF IInv

\* A record that follows the chain before it keeps a file chained.
LEMMA ChainsRecord ==
  ASSUME NEW s \in Seq(Chunk), NEW t \in Seq(Chunk), NEW n \in Nat, n >= 2,
         Len(s) = n, Len(t) = n, \A m \in 1..(n-1) : t[m] = s[m], Chains(s),
         s[1].kind = "header", t[n].datum.key_id = s[1].key_id,
         (\A m \in 2..(n-1) : s[m].kind = "record") =>
            t[n].prev_hash = ChainAfter(s[n-1]) /\ t[n].datum.record_id = n - 2
  PROVE  Chains(t)
<1> SUFFICES ASSUME NEW m \in 2..n, \A q \in 2..m : t[q].kind = "record"
             PROVE  /\ t[1].kind = "header"
                    /\ Chained(t, m, t[1].key_id)
                    /\ t[m].datum.record_id = m - 2
  BY DEF Chains
<1>1. 1 \in 1..(n-1) /\ m - 1 \in 1..(n-1)
  OBVIOUS
<1>2. t[1] = s[1] /\ t[m-1] = s[m-1]
  BY <1>1
<1>3. \A q \in 2..m : q < n => s[q].kind = "record"
  <2> SUFFICES ASSUME NEW q \in 2..m, q < n PROVE s[q].kind = "record"
    OBVIOUS
  <2>1. q \in 1..(n-1)
    OBVIOUS
  <2> QED BY <2>1
<1>4. CASE m = n
  <2>1. \A q \in 2..(n-1) : s[q].kind = "record"
    BY <1>3, <1>4
  <2>2. t[n].kind = "record"
    BY <1>4
  <2> QED BY <1>2, <1>4, <2>1, <2>2 DEF Chained
<1>5. CASE m # n
  <2>1. m \in 1..(n-1) /\ m \in 2..Len(s)
    BY <1>5
  <2>2. t[m] = s[m] /\ \A q \in 2..m : s[q].kind = "record"
    BY <1>3, <2>1
  <2>3. /\ s[1].kind = "header" /\ Chained(s, m, s[1].key_id)
        /\ s[m].datum.record_id = m - 2
    BY <2>1, <2>2 DEF Chains
  <2> QED BY <1>2, <2>2, <2>3 DEF Chained
<1> QED BY <1>4, <1>5

\* The writer's bookkeeping after append_framed.
LEMMA AdvancedFields ==
  ASSUME NEW c \in CurType, NEW d \in Datum, NEW size \in Nat
  PROVE  /\ Advanced(c, d, size) \in CurType
         /\ Advanced(c, d, size).index = c.index
         /\ Advanced(c, d, size).key_id = c.key_id
         /\ Advanced(c, d, size).last_hmac = Mac(c.last_hmac, d)
         /\ Advanced(c, d, size).next_record_id = c.next_record_id + 1
         /\ Advanced(c, d, size).record_count = c.record_count + 1
         /\ Advanced(c, d, size).bytes_written = c.bytes_written + size
<1>1. /\ c.index \in Idx /\ c.key_id \in Keys /\ c.last_hmac \in Hash
      /\ c.next_record_id \in Nat /\ c.record_count \in Nat /\ c.bytes_written \in Nat
      /\ Mac(c.last_hmac, d) \in Hash
  BY MacType DEF CurType
<1> QED BY <1>1 DEF Advanced, CurType

\* append_framed turns the frame in flight into a record that chains to the one
\* before it, and the writer's state follows.
LEMMA AppendFramedKeeps ==
  ASSUME IInv, NEW d \in Datum, NEW size \in Nat, AppendFramed(d, size),
         pc \in {"fin_write", "rec_write"}, pc' \in {"fin_sync", "ready"},
         d.record_id = cur.next_record_id, d.key_id = cur.key_id
  PROVE  /\ file' \in [Idx -> Seq(Chunk)] /\ acked' \in [Idx -> Seq(Chunk)]
         /\ cur' \in CurType
         /\ SegmentsChain'
         /\ WriterAgrees'
<1>1. PICK c : c = Record(d, cur.last_hmac, cur.bytes_written + size)
  OBVIOUS
<1>2. PICK i, s, n : i = cur.index /\ s = file[i] /\ n = Len(s)
  OBVIOUS
<1>3. /\ i \in Idx /\ s \in Seq(Chunk) /\ n \in Nat
      /\ cur \in CurType /\ cur.key_id \in Keys /\ cur.last_hmac \in Hash
      /\ cur.next_record_id \in Nat /\ cur.record_count \in Nat
      /\ cur.bytes_written \in Nat
      /\ file \in [Idx -> Seq(Chunk)] /\ acked \in [Idx -> Seq(Chunk)]
  BY <1>2 DEF IInv, TypeOK, CurType
<1>4. /\ n >= 2 /\ s[1].kind = "header" /\ s[1].key_id = cur.key_id
      /\ (\A m \in 2..(n-1) : s[m].kind = "record") =>
           /\ cur.last_hmac = ChainAfter(s[n-1])
           /\ cur.next_record_id = n - 2
           /\ cur.record_count = n - 2
           /\ cur.bytes_written = s[n-1].end
  BY <1>2, <1>3 DEF IInv, WriterAgrees, Written
<1>5. c \in Chunk /\ Mac(cur.last_hmac, d) \in Hash
  BY <1>1, <1>3, RecordType, MacType
<1>6. /\ c.kind = "record" /\ c.datum = d /\ c.prev_hash = cur.last_hmac
      /\ c.end = cur.bytes_written + size
      /\ ChainAfter(c) = Mac(cur.last_hmac, d)
  BY <1>1 DEF Record, ChainAfter
<1>7. PICK t : t = [s EXCEPT ![n] = c]
  OBVIOUS
<1>8. /\ t \in Seq(Chunk) /\ Len(t) = n /\ t[n] = c
      /\ \A m \in 1..(n-1) : t[m] = s[m]
  <2>1. n \in 1..Len(s)
    BY <1>2, <1>3, <1>4
  <2>2. /\ t \in Seq(Chunk) /\ Len(t) = n
        /\ \A m \in 1..n : t[m] = IF m = n THEN c ELSE s[m]
    BY <1>2, <1>3, <1>5, <1>7, <2>1, ExceptSeq
  <2> QED BY <1>3, <1>4, <2>2
<1>9. file' = [file EXCEPT ![i] = t] /\ acked' = [acked EXCEPT ![i] = t]
  <2>1. file' = [file EXCEPT ![i] = t]
    BY <1>1, <1>2, <1>7 DEF AppendFramed
  <2>2. file'[i] = t
    BY <1>3, <2>1
  <2> QED BY <1>2, <2>1, <2>2 DEF AppendFramed
<1>10. cur' = Advanced(cur, d, size)
  BY DEF AppendFramed
<1>11. /\ cur' \in CurType /\ cur'.index = i /\ cur'.key_id = cur.key_id
       /\ cur'.last_hmac = Mac(cur.last_hmac, d)
       /\ cur'.next_record_id = cur.next_record_id + 1
       /\ cur'.record_count = cur.record_count + 1
       /\ cur'.bytes_written = cur.bytes_written + size
  <2>1. /\ Advanced(cur, d, size) \in CurType
        /\ Advanced(cur, d, size).index = cur.index
        /\ Advanced(cur, d, size).key_id = cur.key_id
        /\ Advanced(cur, d, size).last_hmac = Mac(cur.last_hmac, d)
        /\ Advanced(cur, d, size).next_record_id = cur.next_record_id + 1
        /\ Advanced(cur, d, size).record_count = cur.record_count + 1
        /\ Advanced(cur, d, size).bytes_written = cur.bytes_written + size
    BY <1>3, AdvancedFields
  <2> QED BY <1>2, <1>10, <2>1
<1>12. /\ file' \in [Idx -> Seq(Chunk)] /\ file'[i] = t
       /\ \A j \in Idx : j # i => file'[j] = file[j]
  BY <1>3, <1>8, <1>9
<1>13. acked' \in [Idx -> Seq(Chunk)]
  BY <1>3, <1>8, <1>9
<1>14. Chains(t)
  <2>1. Chains(s)
    BY <1>2, <1>3 DEF IInv, SegmentsChain
  <2>2. Len(s) = n /\ t[n].datum.key_id = s[1].key_id
    BY <1>2, <1>4, <1>6, <1>8
  <2>3. (\A m \in 2..(n-1) : s[m].kind = "record") =>
           t[n].prev_hash = ChainAfter(s[n-1]) /\ t[n].datum.record_id = n - 2
    <3> SUFFICES ASSUME \A m \in 2..(n-1) : s[m].kind = "record"
                 PROVE  t[n].prev_hash = ChainAfter(s[n-1]) /\ t[n].datum.record_id = n - 2
      OBVIOUS
    <3>1. cur.last_hmac = ChainAfter(s[n-1]) /\ cur.next_record_id = n - 2
      BY <1>4
    <3> QED BY <1>6, <1>8, <3>1
  <2> QED BY <1>3, <1>4, <1>8, <2>1, <2>2, <2>3, ChainsRecord
<1>15. SegmentsChain'
  BY <1>12, <1>14 DEF IInv, SegmentsChain
<1>16. WriterAgrees'
  <2>1. Written' = n
    BY <1>8, <1>11, <1>12 DEF Written
  <2>2. t[1] = s[1]
    BY <1>3, <1>4, <1>8
  <2>3. ASSUME \A m \in 2..n : t[m].kind = "record"
        PROVE  /\ cur'.next_record_id = n - 1
               /\ cur'.record_count = n - 1
    <3>1. \A m \in 2..(n-1) : m \in 1..(n-1) /\ m \in 2..n
      BY <1>3
    <3>2. \A m \in 2..(n-1) : s[m].kind = "record"
      BY <1>8, <2>3, <3>1
    <3> QED BY <1>3, <1>4, <1>11, <3>2
  <2> QED BY <1>3, <1>4, <1>6, <1>8, <1>11, <1>12, <2>1, <2>2, <2>3 DEF WriterAgrees
<1> QED BY <1>11, <1>12, <1>13, <1>15, <1>16

\* A step that leaves the current file and SegmentState alone.
LEMMA QuietKeeps ==
  ASSUME IInv, UNCHANGED <<file, cur>>,
         pc \notin {"closed", "genesis", "fin_write", "rec_write"},
         pc' \notin {"fin_write", "rec_write"}
  PROVE  SegmentsChain' /\ WriterAgrees'
BY DEF IInv, SegmentsChain, WriterAgrees, Written

\* Without a writer only the files matter.
LEMMA ClosedKeeps ==
  ASSUME IInv, UNCHANGED file, pc' = "closed"
  PROVE  SegmentsChain' /\ WriterAgrees' /\ StepInv'
BY DEF IInv, SegmentsChain, WriterAgrees, StepInv, AppendSteps

LEMMA OpenFreshKeeps ==
  ASSUME IInv, NEW k \in Keys, OpenFresh(k)
  PROVE  IInv'
<1>1. 0 \in Idx /\ << >> \in Seq(Chunk) /\ Chains(<< >>)
  BY DEF Idx, Chains
<1>2. cur' \in CurType
  BY NoSegmentType DEF OpenFresh, CurType
<1>3. TypeOK'
  BY <1>1, <1>2 DEF IInv, TypeOK, OpenFresh, Steps, OpenSteps
<1>4. SegmentsChain'
  BY <1>1 DEF IInv, TypeOK, SegmentsChain, OpenFresh
<1>5. StepInv' /\ WriterAgrees'
  BY DEF OpenFresh, StepInv, WriterAgrees, AppendSteps
<1> QED BY <1>3, <1>4, <1>5 DEF IInv

\* The scan and repair of Writer::open.
LEMMA RecoverKeeps ==
  ASSUME IInv, NEW i \in Visible, NEW k \in Keys, Recover(i, k),
         pc' \in {"ready", "open_create"}, report' \in Reports
  PROVE  IInv'
<1>1. PICK s, t : s = file[i] /\ t = Intact(s)
  OBVIOUS
<1>2. i \in Idx /\ s \in Seq(Chunk) /\ Chains(s) /\ Refusal(s, k) = "none"
  BY <1>1 DEF Visible, Recover, IInv, TypeOK, SegmentsChain
<1>3. PICK c : c = SegmentState(i, k, t)
  OBVIOUS
<1>4. t \in Seq(Chunk) /\ Chains(t) /\ StateOf(c, i, k, t)
  BY <1>1, <1>2, <1>3, ScannedState
<1>5. /\ file' = [file EXCEPT ![i] = t] /\ cur' = c
      /\ synced' \in {synced, [synced EXCEPT ![i] = Len(t)]}
      /\ acked' = [j \in Idx |-> Relied(j)]
      /\ UNCHANGED <<entries, dirSynced, arg, flushed>>
  BY <1>1, <1>3 DEF Recover
<1>6. acked' \in [Idx -> Seq(Chunk)]
  <2>1. \A j \in Idx : Intact(file[j]) \in Seq(Chunk) /\ acked[j] \in Seq(Chunk)
    BY IntactPrefix DEF IInv, TypeOK
  <2>2. \A j \in Idx : Relied(j) \in Seq(Chunk)
    BY <2>1 DEF Relied
  <2> QED BY <1>5, <2>2
<1>7. file' \in [Idx -> Seq(Chunk)] /\ synced' \in [Idx -> Nat]
  <2>1. Len(t) \in Nat /\ synced \in [Idx -> Nat] /\ file \in [Idx -> Seq(Chunk)]
    BY <1>4 DEF IInv, TypeOK
  <2> QED BY <1>2, <1>4, <1>5, <2>1
<1>8. TypeOK'
  BY <1>4, <1>5, <1>6, <1>7 DEF IInv, TypeOK, StateOf, Steps, OpenSteps
<1>9. file'[i] = t /\ \A j \in Idx : j # i => file'[j] = file[j]
  BY <1>2, <1>5 DEF IInv, TypeOK
<1>10. SegmentsChain'
  BY <1>4, <1>9 DEF IInv, SegmentsChain
<1>11. WriterAgrees'
  <2>1. cur'.index = i /\ Written' = Len(t)
    BY <1>4, <1>5, <1>9 DEF StateOf, Written
  <2> QED BY <1>4, <1>5, <1>9, <2>1 DEF StateOf, WriterAgrees
<1>12. StepInv'
  BY DEF StepInv, AppendSteps
<1> QED BY <1>8, <1>10, <1>11, <1>12 DEF IInv

LEMMA RepairFailsKeeps ==
  ASSUME IInv, NEW k \in Keys, RepairFails(k)
  PROVE  IInv'
<1>0. PICK i \in Visible : \E s :
        /\ s = Intact(file[i]) /\ pc = "closed"
        /\ file' = [file EXCEPT ![i] = s]
        /\ synced' = [synced EXCEPT ![i] = IF synced[i] > Len(s) THEN Len(s) ELSE synced[i]]
        /\ UNCHANGED <<entries, dirSynced, pc, cur, arg, report, acked, flushed>>
  BY DEF RepairFails
<1>1. PICK s :
        /\ s = Intact(file[i]) /\ pc = "closed"
        /\ file' = [file EXCEPT ![i] = s]
        /\ synced' = [synced EXCEPT ![i] = IF synced[i] > Len(s) THEN Len(s) ELSE synced[i]]
        /\ UNCHANGED <<entries, dirSynced, pc, cur, arg, report, acked, flushed>>
  BY <1>0
<1>2. i \in Idx /\ file[i] \in Seq(Chunk) /\ Chains(file[i]) /\ synced[i] \in Nat
  BY DEF Visible, IInv, TypeOK, SegmentsChain
<1>3. s \in Seq(Chunk) /\ Chains(s) /\ Len(s) \in Nat
  BY <1>1, <1>2, IntactPrefix, ChainsPrefix
<1>4. TypeOK'
  <2>1. file' \in [Idx -> Seq(Chunk)] /\ synced' \in [Idx -> Nat]
    BY <1>1, <1>2, <1>3 DEF IInv, TypeOK
  <2> QED BY <1>1, <2>1 DEF IInv, TypeOK
<1>5. SegmentsChain'
  BY <1>1, <1>2, <1>3 DEF IInv, TypeOK, SegmentsChain
<1>6. StepInv' /\ WriterAgrees'
  BY <1>1 DEF StepInv, WriterAgrees, AppendSteps
<1> QED BY <1>4, <1>5, <1>6 DEF IInv

LEMMA GenesisHeaderKeeps ==
  ASSUME IInv, GenesisHeader
  PROVE  IInv'
<1>1. PICK k, s : k = cur.key_id /\ s = << Header(0, k, NoHash) >>
  OBVIOUS
<1>c. PICK c : c = SegmentState(0, k, s)
  OBVIOUS
<1>2. 0 \in Idx /\ k \in Keys /\ NoHash \in Hash
  BY <1>1 DEF IInv, TypeOK, CurType, Idx, NoHash, Hash
<1>3. s \in Seq(Chunk) /\ Len(s) = 1 /\ s[1] = Header(0, k, NoHash)
  BY <1>1, <1>2, HeaderType
<1>4. Chains(s) /\ StateOf(c, 0, k, s)
  BY <1>c, <1>2, <1>3, HeaderState
<1>5. /\ file' = [file EXCEPT ![0] = s] /\ cur' = c /\ pc' = "ready"
      /\ acked' = [acked EXCEPT ![0] = s]
      /\ report' = "Fresh"
      /\ UNCHANGED <<entries, synced, dirSynced, arg, flushed>>
  BY <1>1, <1>c DEF GenesisHeader
<1>6. TypeOK'
  BY <1>2, <1>3, <1>4, <1>5 DEF IInv, TypeOK, StateOf, Steps, Reports
<1>7. file'[0] = s /\ \A j \in Idx : j # 0 => file'[j] = file[j]
  BY <1>2, <1>5 DEF IInv, TypeOK
<1>8. SegmentsChain'
  BY <1>4, <1>7 DEF IInv, SegmentsChain
<1>9. WriterAgrees'
  <2>1. cur'.index = 0 /\ Written' = 1
    BY <1>3, <1>4, <1>5, <1>7 DEF StateOf, Written
  <2> QED BY <1>3, <1>4, <1>5, <1>7, <2>1 DEF StateOf, WriterAgrees
<1>10. StepInv'
  BY <1>5 DEF StepInv, AppendSteps
<1> QED BY <1>6, <1>8, <1>9, <1>10 DEF IInv

LEMMA WriteHeaderKeeps ==
  ASSUME IInv, WriteHeader
  PROVE  IInv'
<1>1. PICK i, k, h, s : /\ i = cur.index + 1 /\ k = cur.key_id /\ h = cur.last_hmac
                        /\ s = << Header(i, k, h) >>
  OBVIOUS
<1>c. PICK c : c = SegmentState(i, k, s)
  OBVIOUS
<1>2. i \in Idx /\ k \in Keys /\ h \in Hash
  <2>1. cur \in CurType /\ cur.index < MaxIndex
    BY DEF WriteHeader, IInv, TypeOK, StepInv
  <2>2. cur.index \in Idx /\ cur.key_id \in Keys /\ cur.last_hmac \in Hash
    BY <2>1 DEF CurType
  <2> QED BY <1>1, <2>1, <2>2 DEF Idx
<1>3. s \in Seq(Chunk) /\ Len(s) = 1 /\ s[1] = Header(i, k, h)
  BY <1>1, <1>2, HeaderType
<1>4. Chains(s) /\ StateOf(c, i, k, s)
  BY <1>c, <1>2, <1>3, HeaderState
<1>5. /\ file' = [file EXCEPT ![i] = s] /\ cur' = c /\ pc' \in {"rec", "ready"}
      /\ pc' = "rec" => pc = "header"
      /\ acked' = [acked EXCEPT ![i] = s]
      /\ report' \in {report, "OpenedNextAfterFinalized"}
      /\ UNCHANGED <<entries, synced, dirSynced, arg, flushed>>
  BY <1>1, <1>c DEF WriteHeader
<1>6. TypeOK'
  BY <1>2, <1>3, <1>4, <1>5 DEF IInv, TypeOK, StateOf, Steps, AppendSteps, Reports
<1>7. file'[i] = s /\ \A j \in Idx : j # i => file'[j] = file[j]
  BY <1>2, <1>5 DEF IInv, TypeOK
<1>8. SegmentsChain'
  BY <1>4, <1>7 DEF IInv, SegmentsChain
<1>9. WriterAgrees'
  <2>1. cur'.index = i /\ Written' = 1
    BY <1>3, <1>4, <1>5, <1>7 DEF StateOf, Written
  <2> QED BY <1>3, <1>4, <1>5, <1>7, <2>1 DEF StateOf, WriterAgrees
<1>10. StepInv'
  BY <1>5 DEF IInv, StepInv, AppendSteps
<1> QED BY <1>6, <1>8, <1>9, <1>10 DEF IInv

\* Files and entries after a power loss: what survives of a file is a prefix of
\* it, with or without one unusable chunk behind.
LEMMA PowerLossKeeps ==
  ASSUME IInv, PowerLoss
  PROVE  IInv'
<1>1. PICK cut \in [Unsynced -> 0..MaxChunks], tail \in [Unsynced -> Tails],
           limit \in 0..(MaxIndex + 1) :
        /\ \A i \in Unsynced :
             /\ synced[i] <= cut[i]
             /\ cut[i] <= Len(file[i])
             /\ cut[i] = Len(file[i]) => tail[i] = << >>
        /\ entries' = dirSynced \cup {i \in entries : i < limit}
        /\ file' = [i \in Idx |->
                      IF i \notin entries' THEN << >>
                      ELSE IF i \in Unsynced THEN SubSeq(file[i], 1, cut[i]) \o tail[i]
                      ELSE file[i]]
  BY DEF PowerLoss
<1>2. ASSUME NEW i \in Idx
      PROVE  file'[i] \in Seq(Chunk) /\ Chains(file'[i])
  <2>1. file[i] \in Seq(Chunk) /\ Chains(file[i])
    BY DEF IInv, TypeOK, SegmentsChain
  <2>2. CASE i \notin entries'
    BY <1>1, <2>2 DEF Chains
  <2>3. CASE i \in entries' /\ i \notin Unsynced
    BY <1>1, <2>1, <2>3
  <2>4. CASE i \in entries' /\ i \in Unsynced
    <3>1. PICK s, n, e : s = file[i] /\ n = cut[i] /\ e = tail[i]
      OBVIOUS
    <3>2. s \in Seq(Chunk) /\ Chains(s) /\ n \in Nat /\ n <= Len(s) /\ e \in Tails
      BY <1>1, <2>1, <2>4, <3>1
    <3>3. PICK p : p = SubSeq(s, 1, n)
      OBVIOUS
    <3>4. p \in Seq(Chunk) /\ Len(p) = n /\ \A j \in 1..n : p[j] = s[j]
      BY <3>2, <3>3
    <3>5. Chains(p)
      BY <3>2, <3>4, ChainsPrefix DEF IsPrefixOf
    <3>6. file'[i] = p \o e
      BY <1>1, <2>4, <3>1, <3>3
    <3>7. e = << >> \/ e = <<Torn>> \/ e = <<Bad>>
      BY <3>2 DEF Tails
    <3>8. ASSUME NEW c \in {Torn, Bad}
          PROVE  Append(p, c) \in Seq(Chunk) /\ Chains(Append(p, c))
      <4>1. c \in Chunk /\ c.kind # "record"
        BY UnusableType DEF Torn, Bad
      <4> QED BY <3>4, <3>5, <4>1, ChainsTorn
    <3>9. p \o << >> = p /\ p \o <<Torn>> = Append(p, Torn) /\ p \o <<Bad>> = Append(p, Bad)
      BY <3>4, ConcatEmptySeq, AppendIsConcat, UnusableType
    <3> QED BY <3>4, <3>5, <3>6, <3>7, <3>8, <3>9
  <2> QED BY <2>2, <2>3, <2>4
<1>3. /\ pc' = "closed" /\ cur' = NoSegment /\ arg' = NoInput /\ acked' = flushed
      /\ dirSynced' = entries' /\ UNCHANGED <<report, flushed>>
      /\ synced' = [i \in Idx |-> Len(file'[i])]
  BY DEF PowerLoss
<1>4. file' \in [Idx -> Seq(Chunk)]
  BY <1>1, <1>2
<1>5. entries' \subseteq Idx
  BY <1>1 DEF IInv, TypeOK
<1>6. synced' \in [Idx -> Nat]
  BY <1>2, <1>3
<1>7. TypeOK'
  BY <1>3, <1>4, <1>5, <1>6, NoSegmentType DEF IInv, TypeOK, Steps
<1>8. SegmentsChain'
  BY <1>2 DEF SegmentsChain
<1>9. StepInv' /\ WriterAgrees'
  BY <1>3 DEF StepInv, WriterAgrees, AppendSteps
<1> QED BY <1>7, <1>8, <1>9 DEF IInv

LEMMA BeginWriteKeeps ==
  ASSUME IInv, BeginWrite
  PROVE  IInv'
<1>1. PICK i, s, t : i = cur.index /\ s = file[i] /\ t = Append(s, Torn)
  OBVIOUS
<1>2. i \in Idx /\ s \in Seq(Chunk) /\ Chains(s)
  BY <1>1 DEF IInv, TypeOK, CurType, SegmentsChain
<1>3. /\ t \in Seq(Chunk) /\ Len(s) \in Nat /\ Len(t) = Len(s) + 1
      /\ t[Len(t)] = Torn /\ \A j \in 1..Len(s) : t[j] = s[j]
  BY <1>1, <1>2, UnusableType
<1>4. Chains(t)
  BY <1>1, <1>2, UnusableType, ChainsTorn DEF Torn
<1>5. /\ file' = [file EXCEPT ![i] = t] /\ pc' \in {"fin_write", "rec_write"}
      /\ pc \in {"fin", "rec"}
      /\ UNCHANGED <<entries, synced, dirSynced, cur, arg, report, acked, flushed>>
  BY <1>1 DEF BeginWrite
<1>6. TypeOK'
  BY <1>2, <1>3, <1>5 DEF IInv, TypeOK, Steps, AppendSteps
<1>7. file'[i] = t /\ \A j \in Idx : j # i => file'[j] = file[j]
  BY <1>2, <1>5 DEF IInv, TypeOK
<1>8. SegmentsChain'
  BY <1>4, <1>7 DEF IInv, SegmentsChain
<1>9. StepInv'
  BY <1>1, <1>3, <1>5, <1>7 DEF IInv, StepInv, AppendSteps, Torn
<1>10. WriterAgrees'
  <2>1. Written = Len(s) /\ Written' = Len(s)
    BY <1>1, <1>3, <1>5, <1>7 DEF Written
  <2>2. /\ Len(s) >= 1 /\ s[1].kind = "header" /\ s[1].key_id = cur.key_id
        /\ (\A m \in 2..Len(s) : s[m].kind = "record") =>
             /\ cur.last_hmac = ChainAfter(s[Len(s)])
             /\ cur.next_record_id = Len(s) - 1
             /\ cur.record_count = Len(s) - 1
             /\ cur.bytes_written = s[Len(s)].end
    BY <1>1, <1>5, <2>1 DEF IInv, WriterAgrees
  <2>3. t[1] = s[1] /\ t[Len(s)] = s[Len(s)] /\ \A m \in 2..Len(s) : t[m] = s[m]
    BY <1>3, <2>2
  <2> QED BY <1>1, <1>5, <1>7, <2>1, <2>2, <2>3 DEF WriterAgrees
<1> QED BY <1>6, <1>8, <1>9, <1>10 DEF IInv

LEMMA CreateNextKeeps ==
  ASSUME IInv, CreateNext
  PROVE  IInv'
<1>1. PICK i : i = cur.index + 1
  OBVIOUS
<1>2. i \in Idx /\ cur.index \in Idx /\ i # cur.index /\ cur.index < MaxIndex
  <2>1. cur.index \in Idx /\ cur.index < MaxIndex
    BY DEF CreateNext, IInv, TypeOK, CurType
  <2> QED BY <1>1, <2>1 DEF Idx
<1>3. << >> \in Seq(Chunk) /\ Chains(<< >>)
  BY DEF Chains
<1>4. /\ file' = [file EXCEPT ![i] = << >>] /\ entries' = entries \cup {i}
      /\ synced' = [synced EXCEPT ![i] = 0]
      /\ pc \in {"create", "open_create"} /\ pc' \in {"header", "open_header"}
      /\ pc' = "header" => pc = "create"
      /\ UNCHANGED <<dirSynced, cur, arg, report, acked, flushed>>
  BY <1>1 DEF CreateNext
<1>5. TypeOK'
  BY <1>2, <1>3, <1>4 DEF IInv, TypeOK, Steps, AppendSteps, OpenSteps
<1>6. file'[i] = << >> /\ \A j \in Idx : j # i => file'[j] = file[j]
  BY <1>2, <1>4 DEF IInv, TypeOK
<1>7. SegmentsChain'
  BY <1>3, <1>6 DEF IInv, SegmentsChain
<1>8. StepInv'
  BY <1>2, <1>4 DEF IInv, StepInv, AppendSteps
<1>9. WriterAgrees'
  <2>1. file'[cur.index] = file[cur.index] /\ Written' = Written /\ cur' = cur
    BY <1>2, <1>4, <1>6 DEF Written
  <2> QED BY <1>4, <2>1 DEF IInv, WriterAgrees
<1> QED BY <1>5, <1>7, <1>8, <1>9 DEF IInv

LEMMA FinishRecordKeeps ==
  ASSUME IInv, FinishRecord
  PROVE  IInv'
<1>1. PICK d : d = [event |-> EventOf(arg), input |-> arg, records |-> 0,
                    record_id |-> cur.next_record_id, key_id |-> cur.key_id]
  OBVIOUS
<1>2. cur.next_record_id \in Nat /\ cur.key_id \in Keys /\ arg \in Inputs
  BY DEF FinishRecord, IInv, TypeOK, StepInv, CurType, AppendSteps
<1>3. d \in Datum /\ d.record_id = cur.next_record_id /\ d.key_id = cur.key_id
  BY <1>1, <1>2 DEF Datum, EventOf
<1>4. RecordSize[arg] \in Nat
  BY <1>2 DEF WriterAssumption
<1>5. /\ AppendFramed(d, RecordSize[arg]) /\ pc = "rec_write" /\ pc' = "ready"
      /\ arg' = NoInput /\ UNCHANGED <<entries, synced, dirSynced, report, flushed>>
  BY <1>1 DEF FinishRecord
<1>6. /\ file' \in [Idx -> Seq(Chunk)] /\ acked' \in [Idx -> Seq(Chunk)]
      /\ cur' \in CurType /\ SegmentsChain' /\ WriterAgrees'
  BY <1>3, <1>4, <1>5, AppendFramedKeeps
<1> QED BY <1>5, <1>6 DEF IInv, TypeOK, StepInv, Steps, AppendSteps

LEMMA FinishFinalizeKeeps ==
  ASSUME IInv, FinishFinalize
  PROVE  IInv'
<1>1. PICK d : d = [event |-> Finalized, input |-> NoInput,
                    records |-> cur.record_count,
                    record_id |-> cur.next_record_id, key_id |-> cur.key_id]
  OBVIOUS
<1>2. /\ cur.next_record_id \in Nat /\ cur.record_count \in Nat
      /\ cur.key_id \in Keys /\ arg \in Inputs
  BY DEF FinishFinalize, IInv, TypeOK, StepInv, CurType, AppendSteps
<1>3. d \in Datum /\ d.record_id = cur.next_record_id /\ d.key_id = cur.key_id
  BY <1>1, <1>2 DEF Datum
<1>4. FinalizeSize \in Nat
  BY DEF WriterAssumption
<1>5. /\ AppendFramed(d, FinalizeSize) /\ pc = "fin_write" /\ pc' = "fin_sync"
      /\ UNCHANGED <<entries, synced, dirSynced, arg, report, flushed>>
  BY <1>1 DEF FinishFinalize
<1>6. /\ file' \in [Idx -> Seq(Chunk)] /\ acked' \in [Idx -> Seq(Chunk)]
      /\ cur' \in CurType /\ SegmentsChain' /\ WriterAgrees'
  BY <1>3, <1>4, <1>5, AppendFramedKeeps
<1> QED BY <1>2, <1>5, <1>6 DEF IInv, TypeOK, StepInv, Steps, AppendSteps

-----------------------------------------------------------------------------
(* The theorems. *)

LEMMA InitIInv == Init => IInv
<1> SUFFICES ASSUME Init PROVE IInv
  OBVIOUS
<1>1. << >> \in Seq(Chunk) /\ Chains(<< >>)
  BY DEF Chains
<1>2. TypeOK
  BY <1>1, NoSegmentType DEF Init, TypeOK, Steps, Reports
<1>3. SegmentsChain
  BY <1>1 DEF Init, SegmentsChain
<1>4. StepInv /\ WriterAgrees
  BY DEF Init, StepInv, WriterAgrees, AppendSteps
<1> QED BY <1>2, <1>3, <1>4 DEF IInv

\* Every step of the writer, and every failure, keeps the invariant.
LEMMA NextIInv == IInv /\ [Next]_vars => IInv'
<1> SUFFICES ASSUME IInv, [Next]_vars PROVE IInv'
  OBVIOUS
<1>1. CASE Open
  <2> PICK k \in Keys : OpenFresh(k) \/ OpenRefused(k) \/ OpenResume(k) \/ OpenAfterFinalized(k)
    BY <1>1 DEF Open
  <2>1. CASE OpenFresh(k)
    BY <2>1, OpenFreshKeeps
  <2>2. CASE OpenRefused(k)
    <3>1. /\ pc' = "closed" /\ report' \in Reports
          /\ UNCHANGED <<file, entries, synced, dirSynced, pc, cur, arg, acked, flushed>>
      BY <2>2 DEF OpenRefused, Refusal, Reports, disk
    <3>2. TypeOK'
      BY <3>1 DEF IInv, TypeOK
    <3> QED BY <3>1, <3>2, ClosedKeeps DEF IInv
  <2>3. CASE OpenResume(k)
    <3>1. PICK i \in Visible : Recover(i, k) /\ pc' = "ready" /\ report' \in Reports
      BY <2>3 DEF OpenResume, Reports
    <3> QED BY <3>1, RecoverKeeps
  <2>4. CASE OpenAfterFinalized(k)
    <3>1. PICK i \in Visible : Recover(i, k) /\ pc' = "open_create" /\ report' \in Reports
      BY <2>4 DEF OpenAfterFinalized, IInv, TypeOK
    <3> QED BY <3>1, RecoverKeeps
  <2> QED BY <2>1, <2>2, <2>3, <2>4
<1>2. CASE GenesisHeader \/ \E k \in Keys : RepairFails(k)
  BY <1>2, GenesisHeaderKeeps, RepairFailsKeeps
<1>3. CASE \E v \in Inputs : AppendCall(v)
  <2>1. /\ arg' \in Inputs /\ pc = "ready" /\ pc' \in {"fin", "rec"}
        /\ UNCHANGED <<file, entries, synced, dirSynced, cur, report, acked, flushed>>
    BY <1>3 DEF AppendCall, disk
  <2>2. TypeOK' /\ StepInv'
    BY <2>1 DEF IInv, TypeOK, StepInv, Steps, AppendSteps
  <2> QED BY <2>1, <2>2, QuietKeeps DEF IInv
<1>4. CASE BeginWrite
  BY <1>4, BeginWriteKeeps
<1>5. CASE FinishRecord
  BY <1>5, FinishRecordKeeps
<1>6. CASE FinishFinalize
  BY <1>6, FinishFinalizeKeeps
<1>7. CASE SyncFinalized \/ FlushFile
  <2>1. PICK n : n = Len(file[cur.index])
    OBVIOUS
  <2>2. n \in Nat /\ cur.index \in Idx
    BY <2>1 DEF IInv, TypeOK, CurType
  <2>3. /\ synced' = [synced EXCEPT ![cur.index] = n]
        /\ pc \in {"fin_sync", "ready"} /\ pc' \in {"create", "flush_dir"}
        /\ pc' = "create" => pc = "fin_sync"
        /\ UNCHANGED <<file, entries, dirSynced, cur, arg, report, acked, flushed>>
    BY <1>7, <2>1 DEF SyncFinalized, FlushFile
  <2>4. TypeOK' /\ StepInv'
    BY <2>2, <2>3 DEF IInv, TypeOK, StepInv, Steps, AppendSteps
  <2> QED BY <2>3, <2>4, QuietKeeps DEF IInv
<1>8. CASE CreateNext
  BY <1>8, CreateNextKeeps
<1>9. CASE IndexOverflow \/ ShortWrite \/ SyncFails \/ CreateFails
  <2>1. Fail /\ pc # "closed"
    BY <1>9 DEF IndexOverflow, ShortWrite, SyncFails, CreateFails
  <2> QED BY <2>1, FailKeeps
<1>10. CASE WriteHeader
  BY <1>10, WriteHeaderKeeps
<1>11. CASE FlushDir
  <2>1. /\ dirSynced' = entries /\ flushed' = acked /\ pc = "flush_dir" /\ pc' = "ready"
        /\ UNCHANGED <<file, entries, synced, cur, arg, report, acked>>
    BY <1>11 DEF FlushDir
  <2>2. TypeOK' /\ StepInv'
    BY <2>1 DEF IInv, TypeOK, StepInv, Steps, AppendSteps
  <2> QED BY <2>1, <2>2, QuietKeeps DEF IInv
<1>12. CASE Close \/ Kill
  <2>1. /\ pc' = "closed" /\ cur' = NoSegment /\ arg' \in {arg, NoInput}
        /\ UNCHANGED <<file, entries, synced, dirSynced, report, acked, flushed>>
    BY <1>12 DEF Close, Kill, disk
  <2>2. TypeOK'
    BY <2>1, NoSegmentType DEF IInv, TypeOK, Steps
  <2> QED BY <2>1, <2>2, ClosedKeeps DEF IInv
<1>13. CASE PowerLoss
  BY <1>13, PowerLossKeeps
<1>14. CASE UNCHANGED vars
  BY <1>14 DEF vars, IInv, TypeOK, StepInv, SegmentsChain, WriterAgrees, Written
<1> QED
  BY <1>1, <1>2, <1>3, <1>4, <1>5, <1>6, <1>7, <1>8, <1>9, <1>10, <1>11, <1>12, <1>13, <1>14
  DEF Next

\* The inductive invariant holds in every state of every behaviour.
THEOREM Invariance == Spec => []IInv
<1>1. Init => IInv
  BY InitIInv
<1>2. IInv /\ [Next]_vars => IInv'
  BY NextIInv
<1> QED BY <1>1, <1>2, PTL DEF Spec

\* The files and the writer's state always have the types writer.rs gives them,
\* whatever fails and whenever.
THEOREM TypeCorrect == Spec => []TypeOK
BY Invariance, PTL DEF IInv

\* No sequence of calls, restarts, short writes and crashes makes append put a
\* record after an intact chain that does not continue it.
THEOREM ChainCorrect == Spec => []SegmentsChain
BY Invariance, PTL DEF IInv

\* An open writer whose file frames to its end signs next what a recovery scan
\* of that file would sign next.
THEOREM AgreementCorrect == Spec => []WriterAgrees
BY Invariance, PTL DEF IInv


-----------------------------------------------------------------------------
(* What each step does to the segment files. *)

\* What a scan keeps: a header and chained records.
LEMMA IntactKinds ==
  ASSUME NEW s \in Seq(Chunk)
  PROVE  /\ Intact(s) \in Seq(Chunk) /\ Len(Intact(s)) \in Nat /\ Len(Intact(s)) <= Len(s)
         /\ \A j \in 1..Len(Intact(s)) : Intact(s)[j] = s[j]
         /\ Intact(s) # << >> => s # << >> /\ s[1].kind = "header"
         /\ \A j \in 2..Len(Intact(s)) : s[j].kind = "record"
<1>1. /\ Intact(s) \in Seq(Chunk) /\ Len(Intact(s)) \in Nat /\ Len(Intact(s)) <= Len(s)
      /\ \A j \in 1..Len(Intact(s)) : Intact(s)[j] = s[j]
  BY IntactPrefix DEF IsPrefixOf
<1>2. CASE ~HasHeader(s)
  BY <1>1, <1>2 DEF Intact
<1>3. CASE HasHeader(s)
  <2>1. Len(s) \in Nat /\ Len(s) >= 1 /\ s # << >> /\ s[1].kind = "header"
    BY <1>3 DEF HasHeader
  <2>2. Len(Intact(s)) = ScanStop(s, s[1].key_id)
    BY <1>3, IntactPrefix
  <2>3. \A j \in 2..Len(Intact(s)) : Chained(s, j, s[1].key_id)
    BY <2>1, <2>2, ScanStops
  <2> QED BY <1>1, <2>1, <2>3 DEF Chained
<1> QED BY <1>2, <1>3

\* The scan of Writer::open: segment i is current, cut to what it keeps.
LEMMA RecoverEffect ==
  ASSUME IInv, NEW i \in Visible, NEW k \in Keys, Recover(i, k)
  PROVE  /\ i \in Idx /\ i \in entries /\ HasHeader(file[i])
         /\ file'[i] = Intact(file[i]) /\ \A j \in Idx : j # i => file'[j] = file[j]
         /\ StateOf(cur', i, k, Intact(file[i]))
         /\ pc = "closed" /\ UNCHANGED <<entries, dirSynced, arg, flushed>>
         /\ \A j \in Visible : j <= i
<1>1. i \in Idx /\ i \in entries /\ file \in [Idx -> Seq(Chunk)] /\ Chains(file[i])
  BY DEF Visible, IInv, TypeOK, SegmentsChain
<1>2. Refusal(file[i], k) = "none" /\ file' = [file EXCEPT ![i] = Intact(file[i])]
      /\ cur' = SegmentState(i, k, Intact(file[i])) /\ IsLatest(i)
      /\ pc = "closed" /\ UNCHANGED <<entries, dirSynced, arg, flushed>>
  BY DEF Recover
<1>3. HasHeader(file[i])
  BY <1>2 DEF Refusal
<1>4. StateOf(cur', i, k, Intact(file[i]))
  BY <1>1, <1>2, ScannedState
<1> QED BY <1>1, <1>2, <1>3, <1>4 DEF IsLatest

\* The genesis header is the whole of segment 0.
LEMMA GenesisEffect ==
  ASSUME IInv, GenesisHeader
  PROVE  /\ 0 \in Idx /\ file'[0] \in Seq(Chunk) /\ Len(file'[0]) = 1 /\ file'[0][1].kind = "header"
         /\ \A j \in Idx : j # 0 => file'[j] = file[j]
         /\ cur'.index = 0 /\ cur'.record_count = 0
         /\ acked' = [acked EXCEPT ![0] = file'[0]]
         /\ pc = "genesis" /\ pc' = "ready"
         /\ UNCHANGED <<entries, synced, dirSynced, arg, flushed>>
<1>1. PICK k, s : k = cur.key_id /\ s = << Header(0, k, NoHash) >>
  OBVIOUS
<1>2. 0 \in Idx /\ k \in Keys /\ NoHash \in Hash
  BY <1>1 DEF IInv, TypeOK, CurType, Idx, NoHash, Hash
<1>a. file \in [Idx -> Seq(Chunk)]
  BY DEF IInv, TypeOK
<1>3. s \in Seq(Chunk) /\ Len(s) = 1 /\ s[1].kind = "header"
  BY <1>1, <1>2, HeaderType DEF Header
<1>4. /\ file' = [file EXCEPT ![0] = s] /\ cur' = SegmentState(0, k, s)
      /\ acked' = [acked EXCEPT ![0] = s]
      /\ pc = "genesis" /\ pc' = "ready" /\ UNCHANGED <<entries, synced, dirSynced, arg, flushed>>
  BY <1>1 DEF GenesisHeader
<1>5. cur'.index = 0 /\ cur'.record_count = 0
  BY <1>3, <1>4 DEF SegmentState
<1>6. file'[0] = s /\ \A j \in Idx : j # 0 => file'[j] = file[j]
  BY <1>2, <1>4, <1>a
<1> QED BY <1>2, <1>3, <1>4, <1>5, <1>6

\* A new segment is its header.
LEMMA HeaderEffect ==
  ASSUME IInv, WriteHeader
  PROVE  /\ cur.index + 1 \in Idx /\ cur.index \in Nat
         /\ file'[cur.index + 1] = << Header(cur.index + 1, cur.key_id, cur.last_hmac) >>
         /\ file'[cur.index + 1] \in Seq(Chunk) /\ Len(file'[cur.index + 1]) = 1
         /\ file'[cur.index + 1][1].kind = "header"
         /\ \A j \in Idx : j # cur.index + 1 => file'[j] = file[j]
         /\ cur'.index = cur.index + 1 /\ cur'.record_count = 0
         /\ acked' = [acked EXCEPT ![cur.index + 1] = file'[cur.index + 1]]
         /\ pc \in {"header", "open_header"} /\ pc' \in {"rec", "ready"}
         /\ UNCHANGED <<entries, synced, dirSynced, arg, flushed>>
<1>1. PICK i, k, h, s : /\ i = cur.index + 1 /\ k = cur.key_id /\ h = cur.last_hmac
                        /\ s = << Header(i, k, h) >>
  OBVIOUS
<1>a. file \in [Idx -> Seq(Chunk)]
  BY DEF IInv, TypeOK
<1>2. i \in Idx /\ k \in Keys /\ h \in Hash /\ cur.index \in Nat
  <2>1. cur \in CurType /\ cur.index < MaxIndex
    BY DEF WriteHeader, IInv, TypeOK, StepInv
  <2>2. cur.index \in Idx /\ cur.key_id \in Keys /\ cur.last_hmac \in Hash
    BY <2>1 DEF CurType
  <2> QED BY <1>1, <2>1, <2>2 DEF Idx
<1>3. s \in Seq(Chunk) /\ Len(s) = 1 /\ s[1].kind = "header"
  BY <1>1, <1>2, HeaderType DEF Header
<1>4. /\ file' = [file EXCEPT ![i] = s] /\ cur' = SegmentState(i, k, s)
      /\ acked' = [acked EXCEPT ![i] = s]
      /\ pc \in {"header", "open_header"} /\ pc' \in {"rec", "ready"}
      /\ UNCHANGED <<entries, synced, dirSynced, arg, flushed>>
  BY <1>1 DEF WriteHeader
<1>5. cur'.index = i /\ cur'.record_count = 0
  BY <1>3, <1>4 DEF SegmentState
<1>6. file'[i] = s /\ \A j \in Idx : j # i => file'[j] = file[j]
  BY <1>2, <1>4, <1>a
<1> QED BY <1>1, <1>2, <1>3, <1>4, <1>5, <1>6

\* A frame in flight is a torn chunk behind what was there.
LEMMA BeginEffect ==
  ASSUME IInv, BeginWrite
  PROVE  LET s == file[cur.index] t == file'[cur.index] IN
         /\ cur.index \in Idx /\ s \in Seq(Chunk) /\ t \in Seq(Chunk)
         /\ Len(t) = Len(s) + 1 /\ t[Len(t)] = Torn
         /\ \A m \in 1..Len(s) : t[m] = s[m]
         /\ \A j \in Idx : j # cur.index => file'[j] = file[j]
         /\ pc \in {"fin", "rec"} /\ ((pc = "fin" /\ pc' = "fin_write") \/ (pc = "rec" /\ pc' = "rec_write"))
         /\ UNCHANGED <<entries, synced, dirSynced, cur, arg, acked, flushed>>
<1>1. PICK i, s, t : i = cur.index /\ s = file[i] /\ t = Append(s, Torn)
  OBVIOUS
<1>2. i \in Idx /\ s \in Seq(Chunk) /\ file \in [Idx -> Seq(Chunk)]
  BY <1>1 DEF IInv, TypeOK, CurType
<1>3. /\ t \in Seq(Chunk) /\ Len(t) = Len(s) + 1 /\ t[Len(t)] = Torn
      /\ \A m \in 1..Len(s) : t[m] = s[m]
  BY <1>1, <1>2, UnusableType
<1>4. /\ file' = [file EXCEPT ![i] = t] /\ pc \in {"fin", "rec"}
      /\ ((pc = "fin" /\ pc' = "fin_write") \/ (pc = "rec" /\ pc' = "rec_write"))
      /\ UNCHANGED <<entries, synced, dirSynced, cur, arg, acked, flushed>>
  BY <1>1 DEF BeginWrite
<1>5. file'[i] = t /\ \A j \in Idx : j # i => file'[j] = file[j]
  BY <1>2, <1>4
<1> QED BY <1>1, <1>2, <1>3, <1>4, <1>5

\* append_framed: the torn end of the current file becomes a record.
LEMMA FrameEffect ==
  ASSUME IInv, NEW d \in Datum, NEW size \in Nat, AppendFramed(d, size),
         pc \in {"fin_write", "rec_write"}
  PROVE  LET s == file[cur.index] t == file'[cur.index] n == Len(file[cur.index]) IN
         /\ cur.index \in Idx /\ s \in Seq(Chunk) /\ t \in Seq(Chunk)
         /\ n \in Nat /\ n >= 2 /\ Len(t) = n /\ s[n].kind = "torn"
         /\ t[n] = Record(d, cur.last_hmac, cur.bytes_written + size)
         /\ \A m \in 1..(n - 1) : t[m] = s[m]
         /\ \A j \in Idx : j # cur.index => file'[j] = file[j]
         /\ cur'.index = cur.index
         /\ cur'.record_count = cur.record_count + 1
         /\ cur'.bytes_written = cur.bytes_written + size
         /\ acked' = [acked EXCEPT ![cur.index] = t]
<1>1. PICK c, i, s, n : /\ c = Record(d, cur.last_hmac, cur.bytes_written + size)
                        /\ i = cur.index /\ s = file[i] /\ n = Len(s)
  OBVIOUS
<1>2. /\ i \in Idx /\ s \in Seq(Chunk) /\ n \in Nat /\ cur \in CurType
      /\ cur.last_hmac \in Hash /\ cur.bytes_written \in Nat
      /\ file \in [Idx -> Seq(Chunk)]
  BY <1>1 DEF IInv, TypeOK, CurType
<1>3. n >= 2 /\ s[n].kind = "torn"
  BY <1>1, <1>2 DEF IInv, WriterAgrees, Written, StepInv
<1>4. c \in Chunk
  BY <1>1, <1>2, RecordType
<1>5. PICK t : t = [s EXCEPT ![n] = c]
  OBVIOUS
<1>6. t \in Seq(Chunk) /\ Len(t) = n /\ t[n] = c /\ \A m \in 1..(n-1) : t[m] = s[m]
  <2>1. n \in 1..Len(s)
    BY <1>1, <1>2, <1>3
  <2>2. /\ t \in Seq(Chunk) /\ Len(t) = n
        /\ \A m \in 1..n : t[m] = IF m = n THEN c ELSE s[m]
    BY <1>1, <1>2, <1>4, <1>5, <2>1, ExceptSeq
  <2> QED BY <1>2, <1>3, <2>2
<1>7. /\ file' = [file EXCEPT ![i] = t] /\ acked' = [acked EXCEPT ![i] = file'[i]]
      /\ cur' = Advanced(cur, d, size)
  BY <1>1, <1>5 DEF AppendFramed
<1>8. file'[i] = t /\ \A j \in Idx : j # i => file'[j] = file[j]
  BY <1>2, <1>6, <1>7
<1>9. /\ cur'.index = cur.index /\ cur'.record_count = cur.record_count + 1
      /\ cur'.bytes_written = cur.bytes_written + size
  <2>1. PICK a : a = Advanced(cur, d, size)
    OBVIOUS
  <2>2. /\ a.index = cur.index /\ a.record_count = cur.record_count + 1
        /\ a.bytes_written = cur.bytes_written + size
    BY <2>1 DEF Advanced
  <2> QED BY <1>7, <2>1, <2>2
<1> QED BY <1>1, <1>2, <1>3, <1>6, <1>7, <1>8, <1>9

\* The record append writes, and the one rollover writes.
LEMMA RecordEffect ==
  ASSUME IInv, FinishRecord \/ FinishFinalize
  PROVE  \E d \in Datum, size \in Nat :
           /\ AppendFramed(d, size)
           /\ \/ /\ FinishRecord /\ pc = "rec_write" /\ pc' = "ready"
                 /\ arg \in Inputs /\ d.event = EventOf(arg) /\ size = RecordSize[arg]
                 /\ d.input = arg
              \/ /\ FinishFinalize /\ pc = "fin_write" /\ pc' = "fin_sync"
                 /\ d.event = Finalized /\ size = FinalizeSize /\ d.input = NoInput
           /\ UNCHANGED <<entries, synced, dirSynced, flushed>>
<1>1. /\ cur.next_record_id \in Nat /\ cur.record_count \in Nat /\ cur.key_id \in Keys
      /\ arg \in Inputs
  BY DEF FinishRecord, FinishFinalize, IInv, TypeOK, StepInv, CurType, AppendSteps
<1>2. CASE FinishRecord
  <2>1. PICK d : d = [event |-> EventOf(arg), input |-> arg, records |-> 0,
                      record_id |-> cur.next_record_id, key_id |-> cur.key_id]
    OBVIOUS
  <2>2. d \in Datum /\ d.event = EventOf(arg) /\ d.input = arg
    BY <1>1, <2>1 DEF Datum, EventOf
  <2>3. RecordSize[arg] \in Nat
    BY <1>1 DEF WriterAssumption
  <2>4. AppendFramed(d, RecordSize[arg])
    BY <1>2, <2>1 DEF FinishRecord
  <2> QED BY <1>1, <1>2, <2>2, <2>3, <2>4 DEF FinishRecord
<1>3. CASE FinishFinalize
  <2>1. PICK d : d = [event |-> Finalized, input |-> NoInput, records |-> cur.record_count,
                      record_id |-> cur.next_record_id, key_id |-> cur.key_id]
    OBVIOUS
  <2>2. d \in Datum /\ d.event = Finalized /\ d.input = NoInput
    BY <1>1, <2>1 DEF Datum
  <2>3. FinalizeSize \in Nat
    BY DEF WriterAssumption
  <2>4. AppendFramed(d, FinalizeSize)
    BY <1>3, <2>1 DEF FinishFinalize
  <2> QED BY <1>3, <2>2, <2>3, <2>4 DEF FinishFinalize
<1> QED BY <1>2, <1>3

\* The next segment file is created empty.
LEMMA CreateEffect ==
  ASSUME IInv, CreateNext
  PROVE  /\ cur.index \in Idx /\ cur.index + 1 \in Idx /\ cur.index \in Nat
         /\ file'[cur.index + 1] = << >> /\ \A j \in Idx : j # cur.index + 1 => file'[j] = file[j]
         /\ entries' = entries \cup {cur.index + 1}
         /\ synced' = [synced EXCEPT ![cur.index + 1] = 0]
         /\ pc \in {"create", "open_create"} /\ pc' \in {"header", "open_header"}
         /\ UNCHANGED <<dirSynced, cur, arg, acked, flushed>>
<1>1. PICK i : i = cur.index + 1
  OBVIOUS
<1>2. i \in Idx /\ cur.index \in Idx /\ cur.index \in Nat
  <2>1. cur.index \in Idx /\ cur.index < MaxIndex
    BY DEF CreateNext, IInv, TypeOK, CurType
  <2> QED BY <1>1, <2>1 DEF Idx
<1>3. /\ file' = [file EXCEPT ![i] = << >>] /\ entries' = entries \cup {i}
      /\ synced' = [synced EXCEPT ![i] = 0]
      /\ pc \in {"create", "open_create"} /\ pc' \in {"header", "open_header"}
      /\ UNCHANGED <<dirSynced, cur, arg, acked, flushed>>
  BY <1>1 DEF CreateNext
<1>4. file'[i] = << >> /\ \A j \in Idx : j # i => file'[j] = file[j]
  BY <1>2, <1>3 DEF IInv, TypeOK
<1> QED BY <1>1, <1>2, <1>3, <1>4

\* t is what a power loss leaves of the file s, of which y chunks were synced: n chunks
\* of it, perhaps with an unusable one behind.
Survivor(s, t, n, y) ==
  /\ n <= Len(s) /\ (n < Len(s) => y <= n)
  /\ t \in Seq(Chunk) /\ (Len(t) = n \/ Len(t) = n + 1)
  /\ \A m \in 1..n : t[m] = s[m]
  /\ n = Len(s) => t = s
  /\ Len(t) = n + 1 => t[n + 1].kind \in {"torn", "bad"}

\* After a power loss a file is gone with its entry, or what is left holds what was synced.
LEMMA PowerEffect ==
  ASSUME IInv, PowerLoss, NEW i \in Idx
  PROVE  /\ i \notin entries' => file'[i] = << >>
         /\ i \in entries' => \E n \in Nat : Survivor(file[i], file'[i], n, synced[i])
<1>1. PICK cut \in [Unsynced -> 0..MaxChunks], tail \in [Unsynced -> Tails],
           limit \in 0..(MaxIndex + 1) :
        /\ \A j \in Unsynced :
             /\ synced[j] <= cut[j]
             /\ cut[j] <= Len(file[j])
             /\ cut[j] = Len(file[j]) => tail[j] = << >>
        /\ entries' = dirSynced \cup {j \in entries : j < limit}
        /\ file' = [j \in Idx |->
                      IF j \notin entries' THEN << >>
                      ELSE IF j \in Unsynced THEN SubSeq(file[j], 1, cut[j]) \o tail[j]
                      ELSE file[j]]
  BY DEF PowerLoss
<1>2. CASE i \notin entries'
  BY <1>1, <1>2
<1>3. CASE i \in entries'
  <2>1. PICK s, t : s = file[i] /\ t = file'[i]
    OBVIOUS
  <2>2. s \in Seq(Chunk) /\ Len(s) \in Nat
    BY <2>1 DEF IInv, TypeOK
  <2>3. CASE i \notin Unsynced
    <3>1. t = s
      BY <1>1, <1>3, <2>1, <2>3
    <3>2. PICK n : n = Len(s)
      OBVIOUS
    <3>3. n \in Nat /\ n # n + 1 /\ ~(n < n) /\ n <= n
      BY <2>2, <3>2
    <3>4. Survivor(s, t, n, synced[i])
      BY <2>2, <3>1, <3>2, <3>3 DEF Survivor
    <3> QED BY <1>3, <2>1, <3>3, <3>4
  <2>4. CASE i \in Unsynced
    <3>1. PICK n, e, p : n = cut[i] /\ e = tail[i] /\ p = SubSeq(s, 1, n)
      OBVIOUS
    <3>2. n \in Nat /\ n <= Len(s) /\ e \in Tails /\ synced[i] <= n /\ (n = Len(s) => e = << >>)
      BY <1>1, <2>1, <2>4, <3>1
    <3>3. p \in Seq(Chunk) /\ Len(p) = n /\ \A j \in 1..n : p[j] = s[j]
      BY <2>2, <3>1, <3>2
    <3>4. t = p \o e
      BY <1>1, <1>3, <2>1, <2>4, <3>1
    <3>5. e = << >> \/ e = <<Torn>> \/ e = <<Bad>>
      BY <3>2 DEF Tails
    <3>6. p \o << >> = p /\ p \o <<Torn>> = Append(p, Torn) /\ p \o <<Bad>> = Append(p, Bad)
      BY <3>3, ConcatEmptySeq, AppendIsConcat, UnusableType
    <3>7. ASSUME NEW c \in {Torn, Bad}, t = Append(p, c)
          PROVE  /\ t \in Seq(Chunk) /\ Len(t) = n + 1 /\ \A m \in 1..n : t[m] = s[m]
                 /\ t[n + 1].kind \in {"torn", "bad"}
      <4>1. c \in Chunk /\ c.kind \in {"torn", "bad"}
        BY UnusableType DEF Torn, Bad
      <4> QED BY <3>2, <3>3, <3>7, <4>1
    <3>8. /\ t \in Seq(Chunk) /\ (Len(t) = n \/ Len(t) = n + 1) /\ \A m \in 1..n : t[m] = s[m]
          /\ Len(t) = n + 1 => t[n + 1].kind \in {"torn", "bad"}
      <4>1. CASE e = << >>
        <5>1. t = p /\ n # n + 1
          BY <4>1, <3>2, <3>4, <3>6
        <5> QED BY <5>1, <3>3
      <4>2. CASE e = <<Torn>> \/ e = <<Bad>>
        BY <4>2, <3>4, <3>6, <3>7
      <4> QED BY <4>1, <4>2, <3>5
    <3>9. n = Len(s) => t = s
      <4>1. SUFFICES ASSUME n = Len(s) PROVE t = s
        OBVIOUS
      <4>2. t = p
        BY <4>1, <3>2, <3>4, <3>6
      <4>3. p = s
        BY <4>1, <2>2, <3>3, SeqEqual
      <4> QED BY <4>2, <4>3
    <3>10. Survivor(s, t, n, synced[i])
      BY <3>2, <3>8, <3>9 DEF Survivor
    <3> QED BY <1>3, <2>1, <3>2, <3>10
  <2> QED BY <2>3, <2>4
<1> QED BY <1>2, <1>3

\* The writer ends, or an open fails.
Ends ==
  /\ pc' = "closed" /\ UNCHANGED <<file, entries, synced, dirSynced, acked, flushed>>
  /\ pc = "fin_sync" => "kill" \in Faults

\* A call of an open writer fails.
Errs ==
  /\ pc' = "ready" /\ UNCHANGED <<file, entries, synced, dirSynced, cur, acked, flushed>>
  /\ \/ pc \in {"fin", "fin_write", "rec", "rec_write"} /\ "short_write" \in Faults
     \/ pc \in {"fin_sync", "flush_dir"} /\ "sync" \in Faults
     \/ pc \in {"create", "header"} /\ "create" \in Faults
     \/ pc = "create" /\ cur.index = MaxIndex

\* The steps that change no file.
Quiet ==
  \/ Ends \/ Errs \/ SyncFinalized \/ FlushFile \/ FlushDir
  \/ \E v \in Inputs : AppendCall(v)

LEMMA QuietEffect ==
  ASSUME Quiet
  PROVE  /\ UNCHANGED <<file, entries, acked>>
         /\ \/ pc' = "closed"
            \/ cur' = cur /\ pc # "closed" /\ pc' \notin {"genesis", "header", "open_header"}
  BY DEF Quiet, Ends, Errs, SyncFinalized, FlushFile, FlushDir, AppendCall, disk

\* Recovery resumes a segment or finds it finalized.
Recovers(k, i) ==
  LET t == file'[i] IN
  /\ Recover(i, k)
  /\ \/ pc' = "ready" /\ ~IsFinalize(t[Len(t)])
     \/ pc' = "open_create" /\ IsFinalize(t[Len(t)])

\* A step is one of these.
LEMMA NextCases ==
  ASSUME IInv, [Next]_vars
  PROVE  \/ \E k \in Keys : OpenFresh(k)
         \/ \E k \in Keys, i \in Visible : Recovers(k, i)
         \/ \E k \in Keys : RepairFails(k)
         \/ GenesisHeader \/ BeginWrite \/ FinishRecord \/ FinishFinalize
         \/ CreateNext \/ WriteHeader \/ PowerLoss \/ Quiet \/ UNCHANGED vars
<1>1. CASE Open
  <2> PICK k \in Keys : OpenFresh(k) \/ OpenRefused(k) \/ OpenResume(k) \/ OpenAfterFinalized(k)
    BY <1>1 DEF Open
  <2>1. CASE OpenRefused(k)
    BY <2>1 DEF OpenRefused, Quiet, Ends, disk
  <2>2. CASE OpenResume(k) \/ OpenAfterFinalized(k)
    BY <2>2 DEF OpenResume, OpenAfterFinalized, Recovers
  <2> QED BY <2>1, <2>2
<1>2. CASE IndexOverflow \/ ShortWrite \/ SyncFails \/ CreateFails
  <2>1. CASE pc \in OpenSteps
    BY <1>2, <2>1 DEF IndexOverflow, ShortWrite, SyncFails, CreateFails, Fail, Quiet, Ends, disk,
                      OpenSteps
  <2>2. CASE pc \notin OpenSteps
    BY <1>2, <2>2 DEF IndexOverflow, ShortWrite, SyncFails, CreateFails, Fail, Quiet, Errs, disk,
                      OpenSteps
  <2> QED BY <2>1, <2>2
<1>3. CASE Close \/ Kill
  BY <1>3 DEF Close, Kill, Quiet, Ends, disk
<1> QED BY <1>1, <1>2, <1>3 DEF Next, Quiet

-----------------------------------------------------------------------------
(* Where records can be: RecordsImmutable. *)

\* The log stays below the index whose file name the listing no longer parses.
FewSegments == MaxIndex <= NameLimit

\* A file is empty unless its entry exists and is not past the current segment, and the
\* file about to receive a header exists and is empty.
PlaceInv ==
  /\ \A j \in Idx \ entries : file[j] = << >>
  /\ pc # "closed" => /\ cur.index \in entries
                      /\ \A j \in Idx : j > cur.index => file[j] = << >>
  /\ pc = "genesis" => cur.index = 0 /\ file[0] = << >>
  /\ pc \in {"header", "open_header"} => cur.index + 1 \in entries

LEMMA VisibleAll ==
  ASSUME IInv, FewSegments
  PROVE  Visible = entries
<1>1. entries \subseteq Idx
  BY DEF IInv, TypeOK
<1>2. \A i \in Idx : i <= NameLimit
  BY DEF Idx, FewSegments
<1> QED BY <1>1, <1>2 DEF Visible

LEMMA PlaceNext ==
  ASSUME IInv, FewSegments, PlaceInv, [Next]_vars
  PROVE  PlaceInv'
<1>1. ASSUME NEW k \in Keys, OpenFresh(k) PROVE PlaceInv'
  <2>1. entries = {} /\ 0 \in Idx
    BY <1>1, VisibleAll DEF OpenFresh, Idx
  <2>2. /\ file' = [file EXCEPT ![0] = << >>] /\ entries' = entries \cup {0}
        /\ cur' = [NoSegment EXCEPT !.key_id = k] /\ pc' = "genesis"
    BY <1>1 DEF OpenFresh
  <2>3. cur'.index = 0
    BY <2>2 DEF NoSegment
  <2>4. \A j \in Idx : file'[j] = << >>
    BY <2>1, <2>2 DEF PlaceInv, IInv, TypeOK
  <2> QED BY <2>1, <2>2, <2>3, <2>4 DEF PlaceInv
<1>2. ASSUME NEW k \in Keys, NEW i \in Visible, Recovers(k, i) PROVE PlaceInv'
  <2>0. Recover(i, k) /\ pc' \in {"ready", "open_create"}
    BY <1>2 DEF Recovers
  <2>1. /\ i \in Idx /\ i \in entries /\ file'[i] = Intact(file[i])
        /\ \A j \in Idx : j # i => file'[j] = file[j]
        /\ cur'.index = i /\ entries' = entries /\ \A j \in Visible : j <= i
    BY <2>0, RecoverEffect DEF StateOf
  <2>2. \A j \in Idx : j > i => j # i /\ j \notin entries
    BY <2>1, VisibleAll DEF Idx
  <2> QED BY <2>0, <2>1, <2>2 DEF PlaceInv
<1>3. ASSUME NEW k \in Keys, RepairFails(k) PROVE PlaceInv'
  <2>1. PICK i \in Visible : /\ file' = [file EXCEPT ![i] = Intact(file[i])]
                             /\ pc = "closed" /\ UNCHANGED <<entries, pc, cur>>
    BY <1>3 DEF RepairFails
  <2>2. i \in Idx /\ i \in entries
    BY DEF Visible, IInv, TypeOK
  <2> QED BY <2>1, <2>2 DEF PlaceInv, IInv, TypeOK
<1>4. ASSUME GenesisHeader PROVE PlaceInv'
  <2>1. /\ 0 \in Idx /\ \A j \in Idx : j # 0 => file'[j] = file[j]
        /\ cur'.index = 0 /\ pc = "genesis" /\ pc' = "ready" /\ entries' = entries
    BY <1>4, GenesisEffect
  <2>2. \A j \in Idx : j > 0 => j # 0
    BY DEF Idx
  <2> QED BY <2>1, <2>2 DEF PlaceInv
<1>5. ASSUME BeginWrite PROVE PlaceInv'
  <2>1. /\ cur.index \in Idx /\ \A j \in Idx : j # cur.index => file'[j] = file[j]
        /\ pc \in {"fin", "rec"} /\ pc' \in {"fin_write", "rec_write"}
        /\ UNCHANGED <<entries, cur>>
    BY <1>5, BeginEffect
  <2>2. \A j \in Idx : j > cur.index => j # cur.index
    BY <2>1 DEF Idx
  <2> QED BY <2>1, <2>2 DEF PlaceInv
<1>6. ASSUME FinishRecord \/ FinishFinalize PROVE PlaceInv'
  <2>1. PICK d \in Datum, size \in Nat :
          /\ AppendFramed(d, size) /\ pc \in {"rec_write", "fin_write"}
          /\ pc' \in {"ready", "fin_sync"} /\ UNCHANGED entries
    BY <1>6, RecordEffect
  <2>2. /\ cur.index \in Idx /\ \A j \in Idx : j # cur.index => file'[j] = file[j]
        /\ cur'.index = cur.index
    BY <2>1, FrameEffect
  <2>3. \A j \in Idx : j > cur.index => j # cur.index
    BY <2>2 DEF Idx
  <2> QED BY <2>1, <2>2, <2>3 DEF PlaceInv
<1>7. ASSUME CreateNext PROVE PlaceInv'
  <2>1. /\ cur.index \in Idx /\ cur.index + 1 \in Idx
        /\ file'[cur.index + 1] = << >> /\ \A j \in Idx : j # cur.index + 1 => file'[j] = file[j]
        /\ entries' = entries \cup {cur.index + 1} /\ cur' = cur
        /\ pc \in {"create", "open_create"} /\ pc' \in {"header", "open_header"}
    BY <1>7, CreateEffect
  <2> QED BY <2>1 DEF PlaceInv
<1>8. ASSUME WriteHeader PROVE PlaceInv'
  <2>1. /\ cur.index \in Nat /\ cur.index + 1 \in Idx
        /\ \A j \in Idx : j # cur.index + 1 => file'[j] = file[j]
        /\ cur'.index = cur.index + 1 /\ entries' = entries
        /\ pc \in {"header", "open_header"} /\ pc' \in {"rec", "ready"}
    BY <1>8, HeaderEffect
  <2>2. \A j \in Idx : j > cur.index + 1 => j # cur.index + 1 /\ j > cur.index
    BY <2>1 DEF Idx
  <2>3. cur.index + 1 \in entries
    BY <2>1 DEF PlaceInv
  <2> QED BY <2>1, <2>2, <2>3 DEF PlaceInv
<1>9. ASSUME PowerLoss PROVE PlaceInv'
  <2>1. pc' = "closed" /\ \A i \in Idx : i \notin entries' => file'[i] = << >>
    BY <1>9, PowerEffect DEF PowerLoss
  <2> QED BY <2>1 DEF PlaceInv
<1>10. ASSUME Quiet \/ UNCHANGED vars PROVE PlaceInv'
  BY <1>10, QuietEffect DEF vars, PlaceInv
<1> QED BY <1>1, <1>2, <1>3, <1>4, <1>5, <1>6, <1>7, <1>8, <1>9, <1>10, NextCases

LEMMA PlaceInvariance ==
  ASSUME FewSegments
  PROVE  Spec => []PlaceInv
<1>1. Init => PlaceInv
  BY DEF Init, PlaceInv
<1>2. IInv /\ PlaceInv /\ [Next]_vars => PlaceInv'
  BY PlaceNext
<1> QED BY <1>1, <1>2, Invariance, PTL DEF Spec

\* A file of which a step keeps the first n chunks keeps what a scan accepts, if that is
\* among them.
LEMMA KeepsIntact ==
  ASSUME NEW s \in Seq(Chunk), NEW t, NEW n \in Nat, Len(t) \in Nat, n <= Len(t),
         Len(Intact(s)) <= n, \A m \in 1..n : t[m] = s[m]
  PROVE  IsPrefixOf(Intact(s), t)
<1>1. PICK k : k = Len(Intact(s))
  OBVIOUS
<1>2. k \in Nat /\ k <= n /\ \A j \in 1..k : Intact(s)[j] = s[j]
  BY <1>1, IntactKinds
<1>3. \A j \in 1..k : j \in 1..n
  BY <1>2
<1> QED BY <1>1, <1>2, <1>3 DEF IsPrefixOf

LEMMA EmptyIntact == Intact(<< >>) = << >>
  BY DEF Intact, HasHeader

LEMMA ImmutableStep ==
  ASSUME IInv, FewSegments, PlaceInv, [Next]_vars, ~PowerLoss, NEW j \in Idx
  PROVE  IsPrefixOf(Intact(file[j]), file'[j])
<1>0. /\ file[j] \in Seq(Chunk) /\ Len(file[j]) \in Nat /\ Len(Intact(file[j])) \in Nat
      /\ Len(Intact(file[j])) <= Len(file[j]) /\ Intact(file[j]) \in Seq(Chunk)
  BY IntactKinds DEF IInv, TypeOK
<1>s. ASSUME file'[j] = file[j] PROVE IsPrefixOf(Intact(file[j]), file'[j])
  BY <1>0, <1>s, IntactPrefix
<1>e. ASSUME file[j] = << >> PROVE IsPrefixOf(Intact(file[j]), file'[j])
  BY <1>e, EmptyIntact DEF IsPrefixOf
<1>1. ASSUME NEW k \in Keys, OpenFresh(k) PROVE IsPrefixOf(Intact(file[j]), file'[j])
  <2>1. file[j] = << >>
    BY <1>1, VisibleAll DEF OpenFresh, PlaceInv
  <2> QED BY <2>1, <1>e
<1>2. ASSUME NEW i \in Idx, file' = [file EXCEPT ![i] = Intact(file[i])]
      PROVE  IsPrefixOf(Intact(file[j]), file'[j])
  <2>1. CASE j = i
    <3>1. file'[j] = Intact(file[j])
      BY <1>2, <2>1 DEF IInv, TypeOK
    <3> QED BY <1>0, <3>1 DEF IsPrefixOf
  <2>2. CASE j # i
    BY <1>2, <2>2, <1>s DEF IInv, TypeOK
  <2> QED BY <2>1, <2>2
<1>3. ASSUME GenesisHeader PROVE IsPrefixOf(Intact(file[j]), file'[j])
  <2>1. (j = 0 => file[j] = << >>) /\ (j # 0 => file'[j] = file[j])
    BY <1>3, GenesisEffect DEF PlaceInv
  <2> QED BY <2>1, <1>s, <1>e
<1>4. ASSUME BeginWrite PROVE IsPrefixOf(Intact(file[j]), file'[j])
  <2>1. CASE j = cur.index
    <3>1. PICK s, t : s = file[j] /\ t = file'[j]
      OBVIOUS
    <3>2. t \in Seq(Chunk) /\ Len(t) = Len(s) + 1 /\ \A m \in 1..Len(s) : t[m] = s[m]
      BY <1>4, <2>1, <3>1, BeginEffect
    <3>3. s \in Seq(Chunk) /\ Len(s) \in Nat /\ Len(t) \in Nat /\ Len(s) <= Len(t)
          /\ Len(Intact(s)) <= Len(s)
      BY <1>0, <3>1, <3>2
    <3> QED BY <3>1, <3>2, <3>3, KeepsIntact
  <2>2. CASE j # cur.index
    BY <1>4, <2>2, <1>s, BeginEffect
  <2> QED BY <2>1, <2>2
<1>5. ASSUME FinishRecord \/ FinishFinalize PROVE IsPrefixOf(Intact(file[j]), file'[j])
  <2>0. PICK d \in Datum, size \in Nat :
          AppendFramed(d, size) /\ pc \in {"rec_write", "fin_write"}
    BY <1>5, RecordEffect
  <2>1. CASE j = cur.index
    <3>1. PICK s, t, n, k : s = file[j] /\ t = file'[j] /\ n = Len(s) /\ k = Len(Intact(s))
      OBVIOUS
    <3>2. /\ n \in Nat /\ n >= 2 /\ Len(t) = n /\ s[n].kind = "torn"
          /\ \A m \in 1..(n - 1) : t[m] = s[m]
      BY <2>0, <2>1, <3>1, FrameEffect
    <3>3. /\ s \in Seq(Chunk) /\ k \in Nat /\ k <= n /\ \A m \in 2..k : s[m].kind = "record"
      BY <1>0, <3>1, IntactKinds
    <3>4. n - 1 \in Nat /\ n - 1 <= n /\ k <= n - 1
      BY <3>2, <3>3
    <3>5. Len(t) \in Nat /\ n - 1 <= Len(t)
      BY <3>2, <3>4
    <3> QED BY <3>1, <3>2, <3>3, <3>4, <3>5, KeepsIntact
  <2>2. CASE j # cur.index
    BY <2>0, <2>2, <1>s, FrameEffect
  <2> QED BY <2>1, <2>2
<1>6. ASSUME CreateNext PROVE IsPrefixOf(Intact(file[j]), file'[j])
  <2>1. /\ cur.index \in Nat /\ \A m \in Idx : m # cur.index + 1 => file'[m] = file[m]
        /\ pc \in {"create", "open_create"}
    BY <1>6, CreateEffect
  <2>2. j = cur.index + 1 => file[j] = << >>
    BY <2>1 DEF PlaceInv
  <2> QED BY <2>1, <2>2, <1>s, <1>e
<1>7. ASSUME WriteHeader PROVE IsPrefixOf(Intact(file[j]), file'[j])
  <2>1. /\ cur.index \in Nat /\ \A m \in Idx : m # cur.index + 1 => file'[m] = file[m]
        /\ pc \in {"header", "open_header"}
    BY <1>7, HeaderEffect
  <2>2. j = cur.index + 1 => file[j] = << >>
    BY <2>1 DEF PlaceInv
  <2> QED BY <2>1, <2>2, <1>s, <1>e
<1>8. ASSUME Quiet \/ UNCHANGED vars PROVE IsPrefixOf(Intact(file[j]), file'[j])
  BY <1>8, <1>s, QuietEffect DEF vars
<1>9. ASSUME NEW k \in Keys, NEW i \in Visible, Recovers(k, i)
      PROVE  IsPrefixOf(Intact(file[j]), file'[j])
  BY <1>9, <1>2 DEF Recovers, Recover, Visible, IInv, TypeOK
<1>10. ASSUME NEW k \in Keys, RepairFails(k) PROVE IsPrefixOf(Intact(file[j]), file'[j])
  <2>1. PICK i \in Visible : file' = [file EXCEPT ![i] = Intact(file[i])]
    BY <1>10 DEF RepairFails
  <2>2. i \in Idx
    BY DEF Visible, IInv, TypeOK
  <2> QED BY <2>1, <2>2, <1>2
<1> QED BY <1>1, <1>3, <1>4, <1>5, <1>6, <1>7, <1>8, <1>9, <1>10, NextCases

\* Whatever fails, in a log of few enough segments no step but a power loss removes or
\* rewrites a record that a recovery scan would accept.
THEOREM ImmutableCorrect ==
  ASSUME FewSegments
  PROVE  Spec => RecordsImmutable
<1>1. IInv /\ PlaceInv /\ [Next]_vars =>
        [ \/ \A i \in Idx : IsPrefixOf(Intact(file[i]), file'[i])
          \/ PowerLoss ]_vars
  BY ImmutableStep
<1> QED BY <1>1, Invariance, PlaceInvariance, PTL DEF Spec, RecordsImmutable

-----------------------------------------------------------------------------
(* Finalized segments. *)

\* Rollover is not interrupted in a writer that goes on, and no caller writes a
\* segment.finalized record of its own.
OnlyRolloverFinalizes ==
  /\ "sync" \notin Faults /\ "create" \notin Faults
  /\ ReservedInputs = {}

\* A segment that takes records has no segment.finalized record.
OpenIsNotFinalized ==
  pc \in {"ready", "flush_dir", "fin", "fin_write", "rec", "rec_write"} /\ cur.index # MaxIndex =>
    \A n \in 1..Len(file[cur.index]) : ~IsFinalize(file[cur.index][n])

FinalInv == FinalizedIsLast /\ OpenIsNotFinalized

\* At most the last chunk of s is a segment.finalized record.
LastOnly(s) == \A n \in 1..Len(s) : IsFinalize(s[n]) => n = Len(s)

LEMMA LastOnlyPrefix ==
  ASSUME NEW s \in Seq(Chunk), LastOnly(s)
  PROVE  /\ LastOnly(Intact(s))
         /\ Intact(s) # << >> /\ ~IsFinalize(Intact(s)[Len(Intact(s))]) =>
              \A n \in 1..Len(Intact(s)) : ~IsFinalize(Intact(s)[n])
<1>1. PICK t, k, m : t = Intact(s) /\ k = Len(t) /\ m = Len(s)
  OBVIOUS
<1>2. k \in Nat /\ m \in Nat /\ k <= m /\ \A j \in 1..k : t[j] = s[j]
  <2>1. Len(t) \in Nat /\ Len(t) <= Len(s) /\ \A j \in 1..Len(t) : t[j] = s[j]
    BY <1>1, IntactKinds
  <2>2. Len(s) \in Nat
    BY LenProperties
  <2> QED BY <1>1, <2>1, <2>2
<1>3. \A n \in 1..k : n \in 1..m /\ (n = m => n = k)
  BY <1>2
<1>4. \A n \in 1..k : IsFinalize(t[n]) => n = k
  BY <1>1, <1>2, <1>3 DEF LastOnly
<1> QED BY <1>1, <1>4 DEF LastOnly

LEMMA LastOnlySurvivor ==
  ASSUME NEW s \in Seq(Chunk), LastOnly(s), NEW t, NEW n \in Nat, NEW y, Survivor(s, t, n, y)
  PROVE  LastOnly(t)
<1>1. PICK k, l : k = Len(s) /\ l = Len(t)
  OBVIOUS
<1>2. /\ k \in Nat /\ l \in Nat /\ n <= k /\ (l = n \/ l = n + 1)
      /\ \A m \in 1..n : t[m] = s[m]
      /\ n = k => t = s
      /\ l = n + 1 => t[n + 1].kind \in {"torn", "bad"}
  BY <1>1 DEF Survivor
<1>3. ASSUME NEW m \in 1..l, IsFinalize(t[m]) PROVE m = l
  <2>1. CASE n = k
    BY <2>1, <1>1, <1>2, <1>3 DEF LastOnly
  <2>2. CASE n # k
    <3>1. t[m].kind = "record"
      BY <1>3 DEF IsFinalize
    <3>2. m \in 1..n
      BY <1>2, <3>1
    <3>3. IsFinalize(s[m]) /\ m \in 1..k
      BY <1>2, <1>3, <3>2
    <3> QED BY <1>1, <1>2, <2>2, <3>2, <3>3 DEF LastOnly
  <2> QED BY <2>1, <2>2
<1> QED BY <1>1, <1>3 DEF LastOnly

LEMMA FinalOne ==
  ASSUME FinalInv, NEW i, \A j \in Idx : j # i => file'[j] = file[j],
         i # MaxIndex => LastOnly(file'[i])
  PROVE  FinalizedIsLast'
  BY DEF FinalInv, FinalizedIsLast, LastOnly

LEMMA FinalNext ==
  ASSUME IInv, OnlyRolloverFinalizes, FinalInv, [Next]_vars
  PROVE  FinalInv'
<1>0. /\ file \in [Idx -> Seq(Chunk)] /\ cur.index \in Idx
      /\ \A j \in Idx \ {MaxIndex} : LastOnly(file[j])
  BY DEF IInv, TypeOK, CurType, FinalInv, FinalizedIsLast, LastOnly
<1>1. ASSUME NEW k \in Keys, OpenFresh(k) PROVE FinalInv'
  <2>1. file' = [file EXCEPT ![0] = << >>] /\ pc' = "genesis" /\ 0 \in Idx
    BY <1>1 DEF OpenFresh, Idx
  <2>2. file'[0] = << >> /\ \A j \in Idx : j # 0 => file'[j] = file[j]
    BY <2>1, <1>0
  <2>3. FinalizedIsLast'
    BY <2>2, FinalOne DEF LastOnly
  <2> QED BY <2>1, <2>3 DEF FinalInv, OpenIsNotFinalized
<1>2. ASSUME NEW k \in Keys, NEW i \in Visible, Recovers(k, i) PROVE FinalInv'
  <2>1. PICK s, t : s = file[i] /\ t = file'[i]
    OBVIOUS
  <2>2. /\ i \in Idx /\ s \in Seq(Chunk) /\ t = Intact(s) /\ \A j \in Idx : j # i => file'[j] = file[j]
        /\ StateOf(cur', i, k, t)
    BY <1>0, <1>2, <2>1, RecoverEffect DEF Recovers
  <2>3. cur'.index = i /\ t # << >>
    BY <2>2 DEF StateOf
  <2>4. pc' = "open_create" \/ (pc' = "ready" /\ ~IsFinalize(t[Len(t)]))
    BY <1>2, <2>1 DEF Recovers
  <2>5. i # MaxIndex => LastOnly(t)
    BY <1>0, <2>1, <2>2, LastOnlyPrefix
  <2>6. i # MaxIndex /\ ~IsFinalize(t[Len(t)]) => \A n \in 1..Len(t) : ~IsFinalize(t[n])
    BY <1>0, <2>1, <2>2, <2>3, LastOnlyPrefix
  <2>7. FinalizedIsLast'
    BY <2>1, <2>2, <2>5, FinalOne
  <2> QED BY <2>1, <2>3, <2>4, <2>6, <2>7 DEF FinalInv, OpenIsNotFinalized
<1>3. ASSUME NEW k \in Keys, RepairFails(k) PROVE FinalInv'
  BY <1>3 DEF RepairFails, OnlyRolloverFinalizes
<1>4. ASSUME NEW i \in Idx, Len(file'[i]) = 1, file'[i][1].kind = "header",
             \A j \in Idx : j # i => file'[j] = file[j], cur'.index = i
      PROVE  FinalInv'
  <2>1. \A n \in 1..Len(file'[i]) : ~IsFinalize(file'[i][n])
    BY <1>4 DEF IsFinalize
  <2>2. FinalizedIsLast'
    BY <1>4, <2>1, FinalOne DEF LastOnly
  <2> QED BY <1>4, <2>1, <2>2 DEF FinalInv, OpenIsNotFinalized
<1>5. ASSUME BeginWrite PROVE FinalInv'
  <2>1. PICK i, s, t, n : i = cur.index /\ s = file[i] /\ t = file'[i] /\ n = Len(s)
    OBVIOUS
  <2>2. /\ n \in Nat /\ Len(t) = n + 1 /\ t[n + 1] = Torn /\ \A m \in 1..n : t[m] = s[m]
        /\ \A j \in Idx : j # i => file'[j] = file[j]
        /\ cur' = cur /\ pc \in {"fin", "rec"}
    <3>1. /\ s \in Seq(Chunk) /\ Len(t) = Len(s) + 1 /\ t[Len(t)] = Torn
          /\ \A m \in 1..Len(s) : t[m] = s[m]
          /\ \A j \in Idx : j # i => file'[j] = file[j]
          /\ cur' = cur /\ pc \in {"fin", "rec"}
      BY <1>0, <1>5, <2>1, BeginEffect
    <3>2. Len(s) \in Nat
      BY <3>1, LenProperties
    <3> QED BY <2>1, <3>1, <3>2
  <2>3. i # MaxIndex => \A m \in 1..n : ~IsFinalize(s[m])
    BY <2>1, <2>2 DEF FinalInv, OpenIsNotFinalized
  <2>4. \A m \in 1..(n + 1) : m \in 1..n \/ m = n + 1
    BY <2>2
  <2>5. i # MaxIndex => \A m \in 1..(n + 1) : ~IsFinalize(t[m])
    BY <2>2, <2>3, <2>4 DEF IsFinalize, Torn
  <2>6. FinalizedIsLast'
    BY <2>1, <2>2, <2>5, FinalOne DEF LastOnly
  <2> QED BY <2>1, <2>2, <2>5, <2>6 DEF FinalInv, OpenIsNotFinalized
<1>6. ASSUME FinishRecord \/ FinishFinalize PROVE FinalInv'
  <2>0. PICK d \in Datum, size \in Nat :
          /\ AppendFramed(d, size) /\ pc \in {"rec_write", "fin_write"}
          /\ pc' = "fin_sync" \/ d.event # Finalized
    BY <1>6, RecordEffect DEF OnlyRolloverFinalizes, EventOf, Finalized
  <2>1. PICK i, s, t, n : i = cur.index /\ s = file[i] /\ t = file'[i] /\ n = Len(s)
    OBVIOUS
  <2>2. /\ n \in Nat /\ n >= 2 /\ Len(t) = n
        /\ t[n] = Record(d, cur.last_hmac, cur.bytes_written + size)
        /\ \A m \in 1..(n - 1) : t[m] = s[m]
        /\ \A j \in Idx : j # i => file'[j] = file[j]
    BY <2>0, <2>1, FrameEffect
  <2>a. cur'.index = i
    BY <2>0, <2>1, FrameEffect
  <2>3. i # MaxIndex => \A m \in 1..n : ~IsFinalize(s[m])
    BY <2>0, <2>1 DEF FinalInv, OpenIsNotFinalized
  <2>4. \A m \in 1..n : m = n \/ (m \in 1..(n - 1) /\ t[m] = s[m])
    BY <2>2
  <2>5. i # MaxIndex => \A m \in 1..n : IsFinalize(t[m]) => m = n
    BY <2>3, <2>4
  <2>6. d.event # Finalized => ~IsFinalize(t[n])
    BY <2>2 DEF IsFinalize, Record
  <2>7. FinalizedIsLast'
    BY <2>1, <2>2, <2>5, FinalOne DEF LastOnly
  <2> QED BY <2>0, <2>1, <2>2, <2>a, <2>5, <2>6, <2>7 DEF FinalInv, OpenIsNotFinalized
<1>7. ASSUME CreateNext PROVE FinalInv'
  <2>1. /\ file'[cur.index + 1] = << >> /\ \A j \in Idx : j # cur.index + 1 => file'[j] = file[j]
        /\ pc' \in {"header", "open_header"}
    BY <1>7, CreateEffect
  <2>2. FinalizedIsLast'
    BY <2>1, FinalOne DEF LastOnly
  <2> QED BY <2>1, <2>2 DEF FinalInv, OpenIsNotFinalized
<1>8. ASSUME PowerLoss PROVE FinalInv'
  <2>1. ASSUME NEW i \in Idx \ {MaxIndex} PROVE LastOnly(file'[i])
    <3>1. CASE i \notin entries'
      BY <1>8, <3>1, PowerEffect DEF LastOnly
    <3>2. CASE i \in entries'
      <4>1. PICK n \in Nat : Survivor(file[i], file'[i], n, synced[i])
        BY <1>8, <3>2, PowerEffect
      <4> QED BY <4>1, <1>0, LastOnlySurvivor
    <3> QED BY <3>1, <3>2
  <2>2. pc' = "closed"
    BY <1>8 DEF PowerLoss
  <2> QED BY <2>1, <2>2 DEF FinalInv, FinalizedIsLast, LastOnly, OpenIsNotFinalized
<1>9. ASSUME Quiet PROVE FinalInv'
  <2>1. file' = file
    BY <1>9, QuietEffect
  <2>2. OpenIsNotFinalized'
    BY <1>9, <2>1 DEF Quiet, Ends, Errs, SyncFinalized, FlushFile, FlushDir, AppendCall,
                      OnlyRolloverFinalizes, FinalInv, OpenIsNotFinalized
  <2> QED BY <2>1, <2>2 DEF FinalInv, FinalizedIsLast
<1>10. ASSUME UNCHANGED vars PROVE FinalInv'
  BY <1>10 DEF vars, FinalInv, FinalizedIsLast, OpenIsNotFinalized
<1> QED BY <1>1, <1>2, <1>3, <1>4, <1>5, <1>6, <1>7, <1>8, <1>9, <1>10, NextCases,
           GenesisEffect, HeaderEffect

\* Unless a rollover fails inside a writer that goes on, nothing follows a
\* segment.finalized record in its file, through crashes, torn writes and power losses.
THEOREM FinalizedCorrect ==
  ASSUME OnlyRolloverFinalizes
  PROVE  Spec => []FinalizedIsLast
<1>1. Init => FinalInv
  BY DEF Init, FinalInv, FinalizedIsLast, OpenIsNotFinalized
<1>2. IInv /\ FinalInv /\ [Next]_vars => FinalInv'
  BY FinalNext
<1>3. FinalInv => FinalizedIsLast
  BY DEF FinalInv
<1> QED BY <1>1, <1>2, <1>3, Invariance, PTL DEF Spec

-----------------------------------------------------------------------------
(* Segment sizes. *)

\* Rollover is not interrupted in a writer that goes on.
RolloverCompletes == "sync" \notin Faults /\ "create" \notin Faults

\* As far as s frames, its third and later chunks end where segment.finalized still fits,
\* or are that record; the third may be a segment.finalized record behind a big one.
Bounded(s) ==
  \A n \in 3..Len(s) : (\A m \in 2..n : s[m].kind = "record") =>
    \/ n = 3 /\ IsFinalize(s[n])
    \/ /\ s[n].end <= SegmentSize
       /\ ~IsFinalize(s[n]) => s[n].end + FinalizeSize <= SegmentSize

TakesRecords == pc \in {"ready", "flush_dir", "fin", "fin_write", "rec", "rec_write"}

\* The writer's own count of bytes leaves room for segment.finalized, and a record in
\* progress has passed the size check of append.
RoomInv ==
  cur.index # MaxIndex =>
    /\ TakesRecords /\ cur.record_count >= 2 => cur.bytes_written + FinalizeSize <= SegmentSize
    /\ pc \in {"rec", "rec_write"} /\ cur.record_count >= 1 =>
         cur.bytes_written + (RecordSize[arg] + Slack) + (FinalizeSize + Slack) <= SegmentSize

BoundInv == RoomInv /\ \A i \in Idx \ {MaxIndex} : Bounded(file[i])

LEMMA BoundedPart ==
  ASSUME NEW s \in Seq(Chunk), NEW t \in Seq(Chunk), Bounded(s),
         \A n \in 3..Len(t) : (\A m \in 2..n : t[m].kind = "record") =>
            n <= Len(s) /\ \A m \in 2..n : t[m] = s[m]
  PROVE  Bounded(t)
<1> SUFFICES ASSUME NEW n \in 3..Len(t), \A m \in 2..n : t[m].kind = "record"
             PROVE  \/ n = 3 /\ IsFinalize(t[n])
                    \/ /\ t[n].end <= SegmentSize
                       /\ ~IsFinalize(t[n]) => t[n].end + FinalizeSize <= SegmentSize
  BY DEF Bounded
<1>1. n \in 3..Len(s) /\ n \in 2..n /\ \A m \in 2..n : t[m] = s[m]
  OBVIOUS
<1>2. t[n] = s[n] /\ \A m \in 2..n : s[m].kind = "record"
  BY <1>1
<1> QED BY <1>1, <1>2 DEF Bounded

LEMMA BoundedPrefix ==
  ASSUME NEW s \in Seq(Chunk), Bounded(s)
  PROVE  Bounded(Intact(s))
<1>1. PICK t, k, l : t = Intact(s) /\ k = Len(t) /\ l = Len(s)
  OBVIOUS
<1>2. t \in Seq(Chunk) /\ k \in Nat /\ l \in Nat /\ k <= l /\ \A j \in 1..k : t[j] = s[j]
  BY <1>1, IntactKinds
<1>3. \A n \in 3..k : n <= l /\ \A m \in 2..n : t[m] = s[m]
  BY <1>2
<1> QED BY <1>1, <1>2, <1>3, BoundedPart

LEMMA BoundedSurvivor ==
  ASSUME NEW s \in Seq(Chunk), Bounded(s), NEW t, NEW n \in Nat, NEW y, Survivor(s, t, n, y)
  PROVE  Bounded(t)
<1>1. PICK k, l : k = Len(s) /\ l = Len(t)
  OBVIOUS
<1>2. /\ t \in Seq(Chunk) /\ k \in Nat /\ l \in Nat /\ n <= k /\ (l = n \/ l = n + 1)
      /\ \A m \in 1..n : t[m] = s[m]
      /\ l = n + 1 => t[n + 1].kind # "record"
  BY <1>1 DEF Survivor
<1>3. ASSUME NEW q \in 3..l, \A m \in 2..q : t[m].kind = "record"
      PROVE  q <= k /\ \A m \in 2..q : t[m] = s[m]
  <2>1. q \in 2..q
    OBVIOUS
  <2>2. q <= n
    BY <1>2, <1>3, <2>1
  <2> QED BY <1>2, <2>2
<1> QED BY <1>1, <1>2, <1>3, BoundedPart

LEMMA BoundedOne ==
  ASSUME BoundInv, NEW i, \A j \in Idx : j # i => file'[j] = file[j],
         i # MaxIndex => Bounded(file'[i])
  PROVE  \A j \in Idx \ {MaxIndex} : Bounded(file'[j])
  BY DEF BoundInv

\* The room behind the resumed part of a segment.
LEMMA ResumeRoom ==
  ASSUME NEW s \in Seq(Chunk), Bounded(s), NEW t, t = Intact(s), Len(t) >= 3,
         ~IsFinalize(t[Len(t)])
  PROVE  t[Len(t)].end + FinalizeSize <= SegmentSize
<1>1. PICK k : k = Len(t)
  OBVIOUS
<1>2. k \in Nat /\ k <= Len(s) /\ (\A j \in 1..k : t[j] = s[j]) /\ \A j \in 2..k : s[j].kind = "record"
  BY <1>1, IntactKinds
<1>3. k \in 3..k /\ \A j \in 2..k : j \in 1..k
  BY <1>1, <1>2
<1>4. \A j \in 2..k : t[j].kind = "record"
  BY <1>2, <1>3
<1>5. Bounded(t)
  BY BoundedPrefix
<1> QED BY <1>1, <1>3, <1>4, <1>5 DEF Bounded

\* The record that completes a frame keeps to the bound.
LEMMA FrameBounded ==
  ASSUME IInv, BoundInv, NEW d \in Datum, NEW size \in Nat, AppendFramed(d, size),
         \/ /\ pc = "rec_write" /\ arg \in Inputs /\ size = RecordSize[arg]
         \/ /\ pc = "fin_write" /\ d.event = Finalized /\ size = FinalizeSize,
         cur.index # MaxIndex
  PROVE  /\ Bounded(file'[cur.index])
         /\ pc = "rec_write" /\ cur.record_count >= 1 =>
              cur.bytes_written + size + FinalizeSize <= SegmentSize
<1>0. PICK b, rc, f : b = cur.bytes_written /\ rc = cur.record_count /\ f = FinalizeSize
  OBVIOUS
<1>1. PICK i, s, t, n : i = cur.index /\ s = file[i] /\ t = file'[i] /\ n = Len(s)
  OBVIOUS
<1>2. /\ i \in Idx /\ s \in Seq(Chunk) /\ t \in Seq(Chunk) /\ n \in Nat /\ n >= 2 /\ Len(t) = n
      /\ t[n] = Record(d, cur.last_hmac, b + size)
      /\ \A m \in 1..(n - 1) : t[m] = s[m]
  BY <1>0, <1>1, FrameEffect
<1>3. b \in Nat /\ rc \in Nat /\ f \in Nat /\ Slack \in Nat /\ SegmentSize \in Nat
  BY <1>0 DEF IInv, TypeOK, CurType
<1>4. (\A m \in 2..(n-1) : s[m].kind = "record") => rc = n - 2
  <2>1. (\A m \in 2..(n-1) : s[m].kind = "record") => rc = (n - 1) - 1
    BY <1>0, <1>1 DEF IInv, WriterAgrees, Written
  <2> QED BY <2>1, <1>2
<1>5. pc = "rec_write" /\ rc >= 1 => b + size + f <= SegmentSize
  BY <1>0, <1>1, <1>3 DEF BoundInv, RoomInv
<1>6. pc = "fin_write" /\ rc >= 2 => b + size <= SegmentSize
  BY <1>0, <1>1 DEF BoundInv, RoomInv, TakesRecords
<1>7. /\ t[n].end = b + size /\ t[n].kind = "record"
      /\ d.event = Finalized => IsFinalize(t[n])
  BY <1>2 DEF Record, IsFinalize
<1>8. Bounded(s)
  BY <1>1, <1>2 DEF BoundInv
<1>9. ASSUME NEW q \in 3..n, \A m \in 2..q : t[m].kind = "record"
      PROVE  \/ q = 3 /\ IsFinalize(t[q])
             \/ /\ t[q].end <= SegmentSize
                /\ ~IsFinalize(t[q]) => t[q].end + FinalizeSize <= SegmentSize
  <2>1. CASE q = n
    <3>1. \A m \in 2..(n-1) : m \in 2..q /\ m \in 1..(n-1)
      BY <2>1
    <3>2. rc = n - 2
      BY <1>2, <1>4, <1>9, <3>1
    <3>3. CASE pc = "rec_write"
      <4>1. rc >= 1
        BY <2>1, <3>2
      <4>2. b + size + f <= SegmentSize /\ b + size <= SegmentSize
        BY <1>3, <1>5, <3>3, <4>1
      <4> QED BY <1>0, <1>7, <2>1, <4>2
    <3>4. CASE pc = "fin_write"
      <4>1. IsFinalize(t[n])
        BY <1>7, <3>4
      <4>2. q # 3 => rc >= 2
        BY <2>1, <3>2
      <4> QED BY <1>6, <1>7, <2>1, <3>4, <4>1, <4>2
    <3> QED BY <3>3, <3>4
  <2>2. CASE q # n
    <3>1. q \in 3..Len(s) /\ q \in 1..(n - 1) /\ \A m \in 2..q : m \in 1..(n - 1)
      BY <1>1, <1>2, <2>2
    <3>2. t[q] = s[q] /\ \A m \in 2..q : s[m].kind = "record"
      BY <1>2, <1>9, <3>1
    <3> QED BY <1>8, <3>1, <3>2 DEF Bounded
  <2> QED BY <2>1, <2>2
<1>10. Bounded(t)
  BY <1>2, <1>9 DEF Bounded
<1> QED BY <1>0, <1>1, <1>5, <1>10

LEMMA BoundNext ==
  ASSUME IInv, RolloverCompletes, FinalizeOnRollover, BoundInv, [Next]_vars
  PROVE  BoundInv'
<1>0. /\ file \in [Idx -> Seq(Chunk)] /\ cur.index \in Idx
      /\ \A j \in Idx \ {MaxIndex} : Bounded(file[j])
  BY DEF IInv, TypeOK, CurType, BoundInv
<1>e. Bounded(<< >>)
  BY DEF Bounded
<1>1. ASSUME NEW k \in Keys, OpenFresh(k) PROVE BoundInv'
  <2>1. file' = [file EXCEPT ![0] = << >>] /\ pc' = "genesis" /\ 0 \in Idx
    BY <1>1 DEF OpenFresh, Idx
  <2>2. file'[0] = << >> /\ \A j \in Idx : j # 0 => file'[j] = file[j]
    BY <2>1, <1>0
  <2>3. \A j \in Idx \ {MaxIndex} : Bounded(file'[j])
    BY <2>2, <1>e, BoundedOne
  <2> QED BY <2>1, <2>3 DEF BoundInv, RoomInv, TakesRecords
<1>2. ASSUME NEW k \in Keys, NEW i \in Visible, Recovers(k, i) PROVE BoundInv'
  <2>1. PICK s, t : s = file[i] /\ t = file'[i]
    OBVIOUS
  <2>2. /\ i \in Idx /\ s \in Seq(Chunk) /\ t = Intact(s) /\ \A j \in Idx : j # i => file'[j] = file[j]
        /\ StateOf(cur', i, k, t)
    BY <1>0, <1>2, <2>1, RecoverEffect DEF Recovers
  <2>3. cur'.index = i /\ cur'.record_count = Len(t) - 1 /\ cur'.bytes_written = t[Len(t)].end
    BY <2>2 DEF StateOf
  <2>4. pc' = "open_create" \/ (pc' = "ready" /\ ~IsFinalize(t[Len(t)]))
    BY <1>2, <2>1 DEF Recovers
  <2>5. i # MaxIndex => Bounded(s) /\ Bounded(t)
    BY <1>0, <2>1, <2>2, BoundedPrefix
  <2>6. \A j \in Idx \ {MaxIndex} : Bounded(file'[j])
    BY <2>1, <2>2, <2>5, BoundedOne
  <2>7. Len(t) \in Nat
    BY <2>2, IntactKinds
  <2>8. i # MaxIndex /\ pc' = "ready" /\ cur'.record_count >= 2 =>
          cur'.bytes_written + FinalizeSize <= SegmentSize
    BY <2>2, <2>3, <2>4, <2>5, <2>7, ResumeRoom
  <2> QED BY <2>3, <2>4, <2>6, <2>8 DEF BoundInv, RoomInv, TakesRecords
<1>3. ASSUME NEW k \in Keys, RepairFails(k) PROVE BoundInv'
  BY <1>3 DEF RepairFails, RolloverCompletes
<1>4. ASSUME NEW i \in Idx, Len(file'[i]) = 1, cur'.record_count = 0,
             \A j \in Idx : j # i => file'[j] = file[j], cur'.index = i
      PROVE  BoundInv'
  <2>1. Bounded(file'[i])
    BY <1>4 DEF Bounded
  <2>2. \A j \in Idx \ {MaxIndex} : Bounded(file'[j])
    BY <1>4, <2>1, BoundedOne
  <2> QED BY <1>4, <2>2 DEF BoundInv, RoomInv
<1>5. ASSUME BeginWrite PROVE BoundInv'
  <2>1. PICK i, s, t, n : i = cur.index /\ s = file[i] /\ t = file'[i] /\ n = Len(s)
    OBVIOUS
  <2>2. /\ n \in Nat /\ s \in Seq(Chunk) /\ t \in Seq(Chunk)
        /\ Len(t) = n + 1 /\ t[n + 1] = Torn /\ \A m \in 1..n : t[m] = s[m]
        /\ \A j \in Idx : j # i => file'[j] = file[j]
        /\ cur' = cur /\ arg' = arg
        /\ ((pc = "fin" /\ pc' = "fin_write") \/ (pc = "rec" /\ pc' = "rec_write"))
    BY <1>0, <1>5, <2>1, BeginEffect
  <2>3. ASSUME NEW q \in 3..(n + 1), \A m \in 2..q : t[m].kind = "record"
        PROVE  q <= n /\ \A m \in 2..q : t[m] = s[m]
    <3>1. q \in 2..q /\ Torn.kind # "record"
      BY DEF Torn
    <3>2. q # n + 1
      BY <2>2, <2>3, <3>1
    <3> QED BY <2>2, <3>2
  <2>4. i # MaxIndex => Bounded(t)
    <3>1. \A q \in 3..Len(t) : (\A m \in 2..q : t[m].kind = "record") =>
            q <= Len(s) /\ \A m \in 2..q : t[m] = s[m]
      BY <2>1, <2>2, <2>3
    <3>2. i # MaxIndex => Bounded(s)
      BY <1>0, <2>1
    <3> QED BY <2>2, <3>1, <3>2, BoundedPart
  <2>5. \A j \in Idx \ {MaxIndex} : Bounded(file'[j])
    BY <2>1, <2>2, <2>4, BoundedOne
  <2>6. RoomInv'
    BY <2>2 DEF BoundInv, RoomInv, TakesRecords
  <2> QED BY <2>5, <2>6 DEF BoundInv
<1>6. ASSUME FinishRecord \/ FinishFinalize PROVE BoundInv'
  <2>0. PICK d \in Datum, size \in Nat :
          /\ AppendFramed(d, size)
          /\ \/ pc = "rec_write" /\ pc' = "ready" /\ arg \in Inputs /\ size = RecordSize[arg]
             \/ pc = "fin_write" /\ pc' = "fin_sync" /\ d.event = Finalized /\ size = FinalizeSize
    BY <1>6, RecordEffect
  <2>1. PICK i, b, rc : i = cur.index /\ b = cur.bytes_written /\ rc = cur.record_count
    OBVIOUS
  <2>2. /\ \A j \in Idx : j # i => file'[j] = file[j]
        /\ cur'.index = i /\ cur'.record_count = rc + 1 /\ cur'.bytes_written = b + size
    BY <2>0, <2>1, FrameEffect
  <2>3. i # MaxIndex => /\ Bounded(file'[i])
                        /\ pc = "rec_write" /\ rc >= 1 => b + size + FinalizeSize <= SegmentSize
    BY <2>0, <2>1, FrameBounded
  <2>4. rc \in Nat
    BY <2>1 DEF IInv, TypeOK, CurType
  <2>5. \A j \in Idx \ {MaxIndex} : Bounded(file'[j])
    BY <2>2, <2>3, BoundedOne
  <2>6. i # MaxIndex /\ pc' = "ready" /\ rc + 1 >= 2 => b + size + FinalizeSize <= SegmentSize
    BY <2>0, <2>3, <2>4
  <2> QED BY <2>0, <2>2, <2>5, <2>6 DEF BoundInv, RoomInv, TakesRecords
<1>7. ASSUME CreateNext PROVE BoundInv'
  <2>1. /\ file'[cur.index + 1] = << >> /\ \A j \in Idx : j # cur.index + 1 => file'[j] = file[j]
        /\ pc' \in {"header", "open_header"}
    BY <1>7, CreateEffect
  <2>2. \A j \in Idx \ {MaxIndex} : Bounded(file'[j])
    BY <2>1, <1>e, BoundedOne
  <2> QED BY <2>1, <2>2 DEF BoundInv, RoomInv, TakesRecords
<1>8. ASSUME PowerLoss PROVE BoundInv'
  <2>1. ASSUME NEW i \in Idx \ {MaxIndex} PROVE Bounded(file'[i])
    <3>1. CASE i \notin entries'
      BY <1>8, <1>e, <3>1, PowerEffect
    <3>2. CASE i \in entries'
      <4>1. PICK n \in Nat : Survivor(file[i], file'[i], n, synced[i])
        BY <1>8, <3>2, PowerEffect
      <4> QED BY <4>1, <1>0, BoundedSurvivor
    <3> QED BY <3>1, <3>2
  <2>2. pc' = "closed"
    BY <1>8 DEF PowerLoss
  <2> QED BY <2>1, <2>2 DEF BoundInv, RoomInv, TakesRecords
<1>9. ASSUME Quiet PROVE BoundInv'
  <2>1. file' = file
    BY <1>9, QuietEffect
  <2>2. CASE \E v \in Inputs : AppendCall(v)
    <3>1. PICK v \in Inputs : /\ pc = "ready" /\ arg' = v /\ cur' = cur
                              /\ pc' = IF NeedsRollover(v) THEN "fin" ELSE "rec"
      BY <2>2 DEF AppendCall
    <3>2. PICK b, rc, r, f : /\ b = cur.bytes_written /\ rc = cur.record_count
                             /\ r = RecordSize[v] /\ f = FinalizeSize
      OBVIOUS
    <3>3. /\ b \in Nat /\ rc \in Nat /\ r \in Nat /\ f \in Nat /\ Slack \in Nat
          /\ SegmentSize \in Nat
      BY <3>2 DEF IInv, TypeOK, CurType
    <3>4. pc' = "rec" /\ rc >= 1 => b + (r + Slack) + (f + Slack) <= SegmentSize
      <4>1. NeedsRollover(v) <=> rc > 0 /\ b + (r + Slack) + (f + Slack) > SegmentSize
        BY <3>2 DEF NeedsRollover
      <4> QED BY <3>1, <3>3, <4>1
    <3>5. pc' \in {"fin", "rec"}
      BY <3>1
    <3>6. cur.index # MaxIndex /\ rc >= 2 => b + f <= SegmentSize
      BY <3>1, <3>2 DEF BoundInv, RoomInv, TakesRecords
    <3>7. RoomInv'
      BY <3>1, <3>2, <3>4, <3>5, <3>6 DEF RoomInv
    <3> QED BY <2>1, <1>0, <3>7 DEF BoundInv
  <2>3. CASE ~\E v \in Inputs : AppendCall(v)
    <3>1. RoomInv'
      BY <1>9, <2>3 DEF Quiet, Ends, Errs, SyncFinalized, FlushFile, FlushDir,
                        RolloverCompletes, BoundInv, RoomInv, TakesRecords
    <3> QED BY <2>1, <1>0, <3>1 DEF BoundInv
  <2> QED BY <2>2, <2>3
<1>10. ASSUME UNCHANGED vars PROVE BoundInv'
  BY <1>10 DEF vars, BoundInv, RoomInv, TakesRecords
<1> QED BY <1>1, <1>2, <1>3, <1>4, <1>5, <1>6, <1>7, <1>8, <1>9, <1>10, NextCases,
           GenesisEffect, HeaderEffect

\* Unless a rollover fails inside a writer that goes on, a segment outgrows
\* segment_size_bytes only by a single oversized record, through torn writes, crashes and
\* power losses: the estimate of append always leaves room for segment.finalized.
THEOREM BoundedCorrect ==
  ASSUME RolloverCompletes
  PROVE  Spec => []SegmentBounded
<1>1. CASE FinalizeOnRollover
  <2>1. Init => BoundInv
    BY DEF Init, BoundInv, RoomInv, TakesRecords, Bounded
  <2>2. IInv /\ BoundInv /\ [Next]_vars => BoundInv'
    BY <1>1, BoundNext
  <2>3. IInv /\ BoundInv => SegmentBounded
    <3> SUFFICES ASSUME IInv, BoundInv, NEW i \in Idx \ {MaxIndex}, NEW s, s = Intact(file[i]),
                        Len(s) > 2, ~(Len(s) = 3 /\ IsFinalize(s[3]))
                 PROVE  s[Len(s)].end <= SegmentSize
      BY DEF SegmentBounded
    <3>1. PICK f, n : f = file[i] /\ n = Len(s)
      OBVIOUS
    <3>2. f \in Seq(Chunk) /\ Bounded(f)
      BY <3>1 DEF IInv, TypeOK, BoundInv
    <3>3. s \in Seq(Chunk) /\ n \in Nat /\ (\A j \in 1..n : s[j] = f[j]) /\ \A j \in 2..n : f[j].kind = "record"
      BY <3>1, <3>2, IntactKinds
    <3>4. n \in 3..n /\ \A j \in 2..n : j \in 1..n
      BY <3>1, <3>3
    <3>5. \A j \in 2..n : s[j].kind = "record"
      BY <3>3, <3>4
    <3>6. Bounded(s)
      BY <3>1, <3>2, BoundedPrefix
    <3> QED BY <3>1, <3>4, <3>5, <3>6 DEF Bounded
  <2> QED BY <2>1, <2>2, <2>3, Invariance, PTL DEF Spec
<1>2. CASE ~FinalizeOnRollover
  <2>1. SegmentBounded
    BY <1>2 DEF SegmentBounded
  <2> QED BY <2>1, PTL
<1> QED BY <1>1, <1>2

-----------------------------------------------------------------------------
(* What append returned Ok for. *)

\* Failures that leave the page cache and the current frame alone: the process dies, a
\* sync or the creation of a segment fails.
WritesLand == "short_write" \notin Faults

\* A header and records.
Whole(s) ==
  s # << >> => s[1].kind = "header" /\ \A m \in 2..Len(s) : s[m].kind = "record"

\* What callers were told is whole and at the front of its file, and while a writer is
\* open it is all of the current file but a frame in flight.
AckInv ==
  /\ AckedSurvives
  /\ \A i \in Idx : Whole(acked[i])
  /\ pc \notin {"closed", "genesis"} => Len(acked[cur.index]) = Written

\* A scan keeps every whole prefix of a chained file.
LEMMA WholeKept ==
  ASSUME NEW s \in Seq(Chunk), NEW a \in Seq(Chunk), Chains(s), Whole(a), IsPrefixOf(a, s)
  PROVE  IsPrefixOf(a, Intact(s))
<1>1. PICK l, n, z, t : l = Len(a) /\ n = Len(s) /\ t = Intact(s) /\ z = Len(t)
  OBVIOUS
<1>2. /\ l \in Nat /\ n \in Nat /\ z \in Nat /\ l <= n /\ z <= n
      /\ \A j \in 1..l : a[j] = s[j]
      /\ \A j \in 1..z : t[j] = s[j]
  <2>1. l \in Nat /\ n \in Nat /\ l <= n /\ \A j \in 1..l : a[j] = s[j]
    BY <1>1 DEF IsPrefixOf
  <2>2. z \in Nat /\ z <= n /\ \A j \in 1..z : t[j] = s[j]
    BY <1>1, IntactKinds
  <2> QED BY <2>1, <2>2
<1>3. CASE l = 0
  BY <1>1, <1>2, <1>3 DEF IsPrefixOf
<1>4. CASE l # 0
  <2>1. a # << >> /\ 1 \in 1..l /\ s # << >> /\ n >= 1
    BY <1>1, <1>2, <1>4
  <2>2. HasHeader(s) /\ \A m \in 2..l : s[m].kind = "record"
    BY <1>1, <1>2, <2>1 DEF Whole, HasHeader
  <2>3. z = ScanStop(s, s[1].key_id)
    BY <1>1, <2>2, IntactPrefix
  <2>4. z \in 1..n /\ (z < n => ~Chained(s, z + 1, s[1].key_id))
    BY <1>1, <2>1, <2>3, ScanStops
  <2>5. z >= l
    <3> SUFFICES ASSUME z < l PROVE FALSE
      BY <1>2
    <3>1. z + 1 \in 2..n /\ \A m \in 2..(z + 1) : m \in 2..l
      BY <1>2, <2>4
    <3>2. Chained(s, z + 1, s[1].key_id)
      BY <1>1, <2>2, <3>1 DEF Chains
    <3> QED BY <1>2, <2>4, <3>2
  <2>6. \A j \in 1..l : a[j] = t[j]
    BY <1>2, <2>5
  <2> QED BY <1>1, <1>2, <2>5, <2>6 DEF IsPrefixOf
<1> QED BY <1>3, <1>4

LEMMA WholeIntact ==
  ASSUME NEW s \in Seq(Chunk)
  PROVE  Whole(Intact(s)) /\ IsPrefixOf(Intact(s), s)
<1>1. PICK t, z : t = Intact(s) /\ z = Len(t)
  OBVIOUS
<1>2. /\ t \in Seq(Chunk) /\ z \in Nat /\ (\A j \in 1..z : t[j] = s[j])
      /\ (t # << >> => s[1].kind = "header") /\ \A j \in 2..z : s[j].kind = "record"
  BY <1>1, IntactKinds
<1>3. t # << >> => 1 \in 1..z
  BY <1>1, <1>2
<1>4. \A j \in 2..z : j \in 1..z
  BY <1>2
<1>5. Whole(t)
  BY <1>1, <1>2, <1>3, <1>4 DEF Whole
<1> QED BY <1>1, <1>5, IntactPrefix

\* A record behind a whole sequence that has a header.
LEMMA WholeAppend ==
  ASSUME NEW a \in Seq(Chunk), NEW c \in Chunk, Whole(a), Len(a) >= 1, c.kind = "record"
  PROVE  Whole(Append(a, c))
<1>1. PICK b, n : b = Append(a, c) /\ n = Len(a)
  OBVIOUS
<1>2. n \in Nat /\ Len(b) = n + 1 /\ b[n + 1] = c /\ \A j \in 1..n : b[j] = a[j]
  BY <1>1
<1>3. a # << >> /\ 1 \in 1..n /\ \A j \in 2..(n + 1) : j = n + 1 \/ (j \in 2..n /\ j \in 1..n)
  BY <1>1, <1>2
<1>4. b[1].kind = "header" /\ \A j \in 2..(n + 1) : b[j].kind = "record"
  BY <1>1, <1>2, <1>3 DEF Whole
<1> QED BY <1>1, <1>2, <1>4 DEF Whole

LEMMA PrefixRefl ==
  ASSUME NEW s \in Seq(Chunk)
  PROVE  IsPrefixOf(s, s)
  BY DEF IsPrefixOf

LEMMA PrefixEmpty ==
  ASSUME NEW s \in Seq(Chunk)
  PROVE  IsPrefixOf(<< >>, s) /\ Whole(<< >>) /\ (IsPrefixOf(s, << >>) => s = << >>)
  BY DEF IsPrefixOf, Whole

\* While what callers were told is whole and in the files, an open finds it all.
LEMMA ReliedIsIntact ==
  ASSUME IInv, AckInv, NEW j \in Idx
  PROVE  Relied(j) = Intact(file[j])
<1>1. /\ file[j] \in Seq(Chunk) /\ acked[j] \in Seq(Chunk) /\ Chains(file[j])
      /\ Whole(acked[j]) /\ IsPrefixOf(acked[j], file[j])
  BY DEF IInv, TypeOK, SegmentsChain, AckInv, AckedSurvives
<1>2. IsPrefixOf(acked[j], Intact(file[j]))
  BY <1>1, WholeKept
<1> QED BY <1>2 DEF Relied

\* Told is at the front of the file and whole.
Holds(a, s) == IsPrefixOf(a, s) /\ Whole(a)

LEMMA AckNext ==
  ASSUME IInv, FewSegments, WritesLand, PlaceInv, AckInv, [Next]_vars, ~PowerLoss
  PROVE  AckInv'
<1> DEFINE Told == pc \notin {"closed", "genesis"} => Len(acked[cur.index]) = Written
<1>0. /\ file \in [Idx -> Seq(Chunk)] /\ acked \in [Idx -> Seq(Chunk)] /\ cur.index \in Idx
      /\ \A j \in Idx : Holds(acked[j], file[j])
      /\ \A j \in Idx : Chains(file[j])
      /\ Told
  BY DEF IInv, TypeOK, CurType, SegmentsChain, AckInv, AckedSurvives, Holds
<1>q. ASSUME \A j \in Idx : Holds(acked'[j], file'[j]), Told' PROVE AckInv'
  BY <1>q DEF AckInv, AckedSurvives, Holds
<1>1. ASSUME NEW k \in Keys, OpenFresh(k) PROVE AckInv'
  <2>1. file' = [file EXCEPT ![0] = << >>] /\ pc' = "genesis" /\ acked' = acked /\ entries = {}
    BY <1>1, VisibleAll DEF OpenFresh
  <2>2. \A j \in Idx : file[j] = << >>
    BY <2>1 DEF PlaceInv
  <2>3. \A j \in Idx : file'[j] = file[j]
    BY <1>0, <2>1, <2>2
  <2> QED BY <1>0, <1>q, <2>1, <2>3
<1>2. ASSUME NEW k \in Keys, NEW i \in Visible, Recovers(k, i) PROVE AckInv'
  <2>1. /\ i \in Idx /\ file'[i] = Intact(file[i]) /\ \A j \in Idx : j # i => file'[j] = file[j]
        /\ cur'.index = i
    BY <1>2, RecoverEffect DEF Recovers, StateOf
  <2>2. \A j \in Idx : acked'[j] = Intact(file[j])
    <3>1. acked' = [j \in Idx |-> Relied(j)]
      BY <1>2 DEF Recovers, Recover
    <3> QED BY <3>1, ReliedIsIntact
  <2>3. acked'[i] = file'[i]
    BY <2>1, <2>2
  <2>4. ASSUME NEW j \in Idx PROVE Holds(acked'[j], file'[j])
    <3>1. file[j] \in Seq(Chunk)
      BY <1>0
    <3>2. Intact(file[j]) \in Seq(Chunk) /\ Holds(Intact(file[j]), file[j])
      BY <3>1, IntactKinds, WholeIntact DEF Holds
    <3>3. IsPrefixOf(Intact(file[j]), Intact(file[j]))
      BY <3>2, PrefixRefl
    <3> QED BY <2>1, <2>2, <3>2, <3>3 DEF Holds
  <2>5. pc' \in {"ready", "open_create"}
    BY <1>2 DEF Recovers
  <2>6. Told'
    BY <2>1, <2>3, <2>5 DEF Written
  <2> QED BY <1>q, <2>4, <2>6
<1>3. ASSUME NEW k \in Keys, RepairFails(k) PROVE AckInv'
  <2>1. PICK i \in Visible : /\ file' = [file EXCEPT ![i] = Intact(file[i])]
                             /\ pc = "closed" /\ UNCHANGED <<pc, acked>>
    BY <1>3 DEF RepairFails
  <2>2. i \in Idx
    BY DEF Visible, IInv, TypeOK
  <2>3. file'[i] = Intact(file[i]) /\ \A j \in Idx : j # i => file'[j] = file[j]
    BY <1>0, <2>1, <2>2
  <2>4. Holds(acked[i], file'[i])
    BY <1>0, <2>2, <2>3, WholeKept DEF Holds
  <2>5. \A j \in Idx : Holds(acked'[j], file'[j])
    BY <1>0, <2>1, <2>3, <2>4
  <2> QED BY <1>q, <2>1, <2>5
<1>4. ASSUME NEW i \in Idx, file'[i] \in Seq(Chunk), Len(file'[i]) = 1, file'[i][1].kind = "header",
             \A j \in Idx : j # i => file'[j] = file[j], cur'.index = i,
             acked'[i] = file'[i], \A j \in Idx : j # i => acked'[j] \in {acked[j], << >>},
             pc' \in {"rec", "ready"}
      PROVE  AckInv'
  <2>1. Holds(acked'[i], file'[i])
    BY <1>4, PrefixRefl DEF Holds, Whole
  <2>2. \A j \in Idx : j # i => Holds(acked'[j], file'[j])
    BY <1>0, <1>4, PrefixEmpty DEF Holds
  <2>3. Told'
    BY <1>4 DEF Written
  <2> QED BY <1>q, <2>1, <2>2, <2>3
<1>5. ASSUME GenesisHeader PROVE AckInv'
  <2>1. /\ 0 \in Idx /\ file'[0] \in Seq(Chunk) /\ Len(file'[0]) = 1 /\ file'[0][1].kind = "header"
        /\ \A j \in Idx : j # 0 => file'[j] = file[j]
        /\ cur'.index = 0 /\ acked' = [acked EXCEPT ![0] = file'[0]] /\ pc' = "ready"
    BY <1>5, GenesisEffect
  <2>2. acked'[0] = file'[0] /\ \A j \in Idx : j # 0 => acked'[j] = acked[j]
    BY <1>0, <2>1
  <2> QED BY <1>4, <2>1, <2>2
<1>6. ASSUME WriteHeader PROVE AckInv'
  <2>1. PICK i : i = cur.index + 1
    OBVIOUS
  <2>2. /\ i \in Idx /\ file'[i] \in Seq(Chunk) /\ Len(file'[i]) = 1 /\ file'[i][1].kind = "header"
        /\ \A j \in Idx : j # i => file'[j] = file[j]
        /\ cur'.index = i /\ acked' = [acked EXCEPT ![i] = file'[i]] /\ pc' \in {"rec", "ready"}
    BY <1>6, <2>1, HeaderEffect
  <2>3. acked'[i] = file'[i] /\ \A j \in Idx : j # i => acked'[j] = acked[j]
    BY <1>0, <2>2
  <2> QED BY <1>4, <2>2, <2>3
<1>7. ASSUME BeginWrite PROVE AckInv'
  <2>1. PICK i, s, t, n, a : i = cur.index /\ s = file[i] /\ t = file'[i] /\ n = Len(s) /\ a = acked[i]
    OBVIOUS
  <2>2. /\ n \in Nat /\ Len(t) = n + 1 /\ \A m \in 1..n : t[m] = s[m]
        /\ \A j \in Idx : j # i => file'[j] = file[j]
        /\ cur' = cur /\ acked' = acked /\ pc \in {"fin", "rec"} /\ pc' \in {"fin_write", "rec_write"}
    BY <1>0, <1>7, <2>1, BeginEffect
  <2>3. Len(a) = n /\ Holds(a, s)
    BY <1>0, <2>1, <2>2 DEF Written
  <2>4. Holds(a, t)
    BY <2>1, <2>2, <2>3 DEF Holds, IsPrefixOf
  <2>5. \A j \in Idx : Holds(acked'[j], file'[j])
    BY <1>0, <2>1, <2>2, <2>4
  <2>6. Written' = n
    BY <2>1, <2>2 DEF Written
  <2>7. Told'
    BY <2>1, <2>2, <2>3, <2>6
  <2> QED BY <1>q, <2>5, <2>7
<1>8. ASSUME FinishRecord \/ FinishFinalize PROVE AckInv'
  <2>0. PICK d \in Datum, size \in Nat :
          AppendFramed(d, size) /\ pc \in {"rec_write", "fin_write"} /\ pc' \in {"ready", "fin_sync"}
    BY <1>8, RecordEffect
  <2>1. PICK i, s, t, n, a, c : /\ i = cur.index /\ s = file[i] /\ t = file'[i] /\ n = Len(s)
                                /\ a = acked[i] /\ c = t[n]
    OBVIOUS
  <2>2. /\ i \in Idx /\ n \in Nat /\ n >= 2 /\ Len(t) = n /\ t \in Seq(Chunk)
        /\ c = Record(d, cur.last_hmac, cur.bytes_written + size)
        /\ \A m \in 1..(n - 1) : t[m] = s[m]
        /\ \A j \in Idx : j # i => file'[j] = file[j]
    BY <2>0, <2>1, FrameEffect
  <2>3. cur'.index = i /\ acked' = [acked EXCEPT ![i] = t]
    BY <2>0, <2>1, FrameEffect
  <2>4. Len(a) = n - 1 /\ Holds(a, s) /\ a \in Seq(Chunk)
    BY <1>0, <2>0, <2>1, <2>2 DEF Written
  <2>5. c.kind = "record"
    BY <2>2 DEF Record
  <2>6. \A m \in 1..(n - 1) : t[m] = a[m]
    BY <2>2, <2>4 DEF Holds, IsPrefixOf
  <2>7. a[1].kind = "header" /\ \A m \in 2..(n - 1) : a[m].kind = "record"
    BY <2>2, <2>4 DEF Holds, Whole
  <2>8. \A m \in 2..n : t[m].kind = "record"
    <3>1. \A m \in 2..n : m = n \/ (m \in 2..(n - 1) /\ m \in 1..(n - 1))
      BY <2>2
    <3> QED BY <2>1, <2>5, <2>6, <2>7, <3>1
  <2>9. Holds(t, t)
    <3>1. 1 \in 1..(n - 1) /\ t[1].kind = "header"
      BY <2>2, <2>6, <2>7
    <3>2. Whole(t)
      BY <2>2, <2>8, <3>1 DEF Whole
    <3>3. IsPrefixOf(t, t)
      BY <2>2, PrefixRefl
    <3> QED BY <3>2, <3>3 DEF Holds
  <2>12. acked'[i] = t /\ \A j \in Idx : j # i => acked'[j] = acked[j]
    BY <1>0, <2>2, <2>3
  <2>13. \A j \in Idx : Holds(acked'[j], file'[j])
    <3>1. Holds(acked'[i], file'[i])
      BY <2>1, <2>9, <2>12
    <3>2. \A j \in Idx : j # i => Holds(acked[j], file[j]) /\ file'[j] = file[j] /\ acked'[j] = acked[j]
      BY <1>0, <2>1, <2>2, <2>12
    <3> QED BY <3>1, <3>2
  <2>14. Told'
    BY <2>0, <2>1, <2>2, <2>3, <2>12 DEF Written
  <2> QED BY <1>q, <2>13, <2>14
<1>9. ASSUME CreateNext PROVE AckInv'
  <2>1. PICK i : i = cur.index + 1
    OBVIOUS
  <2>2. /\ i \in Idx /\ cur.index \in Nat /\ file'[i] = << >> /\ \A j \in Idx : j # i => file'[j] = file[j]
        /\ acked' = acked /\ cur' = cur
        /\ pc \in {"create", "open_create"} /\ pc' \in {"header", "open_header"}
    BY <1>9, <2>1, CreateEffect
  <2>3. file[i] = << >>
    BY <2>1, <2>2 DEF PlaceInv
  <2>4. \A j \in Idx : file'[j] = file[j]
    BY <2>2, <2>3
  <2>5. Told'
    BY <1>0, <2>2, <2>4 DEF Written
  <2> QED BY <1>0, <1>q, <2>2, <2>4, <2>5
<1>10. ASSUME Quiet PROVE AckInv'
  <2>1. file' = file /\ acked' = acked
    BY <1>10, QuietEffect
  <2>2. Told'
    BY <1>0, <1>10, <2>1 DEF Quiet, Ends, Errs, SyncFinalized, FlushFile, FlushDir, AppendCall,
                             WritesLand, Written
  <2> QED BY <1>0, <1>q, <2>1, <2>2
<1>11. ASSUME UNCHANGED vars PROVE AckInv'
  BY <1>11 DEF vars, AckInv, AckedSurvives, Written
<1> QED BY <1>1, <1>2, <1>3, <1>5, <1>6, <1>7, <1>8, <1>9, <1>10, <1>11, NextCases

-----------------------------------------------------------------------------
(* What a reader beside the writer may rely on. *)

\* A directory entry goes away in a power loss only.
LEMMA EntriesGrow ==
  ASSUME [Next]_vars, ~PowerLoss
  PROVE  entries \subseteq entries'
<1>1. CASE UNCHANGED vars
  BY <1>1 DEF vars
<1>2. CASE Next
  BY <1>2 DEF Next, Open, OpenFresh, OpenRefused, OpenResume, OpenAfterFinalized, Recover,
       RepairFails, GenesisHeader, AppendCall, BeginWrite, FinishRecord, FinishFinalize,
       SyncFinalized, CreateNext, IndexOverflow, WriteHeader, FlushFile, FlushDir, Close,
       ShortWrite, SyncFails, CreateFails, Kill, Fail, disk
<1> QED BY <1>1, <1>2

\* Where one chunk more than n is whole, a scan keeps it.
LEMMA IntactMore ==
  ASSUME NEW s \in Seq(Chunk), NEW n \in Nat, Chains(s), n >= 1, n <= Len(Intact(s)),
         n < Len(s), s[n + 1].kind = "record"
  PROVE  n + 1 <= Len(Intact(s))
<1>1. PICK w, z : w = SubSeq(s, 1, n + 1) /\ z = Len(Intact(s))
  OBVIOUS
<1>2. /\ z \in Nat /\ z <= Len(s) /\ Intact(s) # << >> /\ s[1].kind = "header"
      /\ \A j \in 2..z : s[j].kind = "record"
  <2>1. Len(Intact(s)) # 0
    BY IntactKinds
  <2>2. Intact(s) # << >>
    BY <2>1
  <2> QED BY <1>1, <2>2, IntactKinds
<1>3. /\ w \in Seq(Chunk) /\ Len(w) = n + 1 /\ \A j \in 1..(n + 1) : w[j] = s[j]
  BY <1>1
<1>4. /\ 1 \in 1..(n + 1)
      /\ \A j \in 2..(n + 1) : j \in 1..(n + 1) /\ (j \in 2..z \/ j = n + 1)
  BY <1>1, <1>2
<1>5. Whole(w)
  <2>1. w[1].kind = "header" /\ \A j \in 2..(n + 1) : w[j].kind = "record"
    BY <1>2, <1>3, <1>4
  <2> QED BY <1>3, <2>1 DEF Whole
<1>6. IsPrefixOf(w, s)
  <2>1. n + 1 <= Len(s)
    OBVIOUS
  <2> QED BY <1>3, <2>1 DEF IsPrefixOf
<1>7. IsPrefixOf(w, Intact(s))
  BY <1>3, <1>5, <1>6, WholeKept
<1> QED BY <1>3, <1>7 DEF IsPrefixOf

\* The record c at place p of the file s is one that recovery keeps.
Kept(s, p, c) == p \in Nat /\ p >= 1 /\ p <= Len(Intact(s)) /\ s[p] = c

\* A step of the writer keeps what recovery would keep.
LEMMA WriterKeeps ==
  ASSUME IInv, IInv', FewSegments, PlaceInv, [Next]_vars, ~PowerLoss, NEW i \in Idx
  PROVE  /\ Len(Intact(file[i])) <= Len(Intact(file'[i]))
         /\ \A p, c : Kept(file[i], p, c) => Kept(file'[i], p, c)
<1>2. PICK s, t, a, b : s = file[i] /\ t = file'[i] /\ a = Intact(s) /\ b = Intact(t)
  OBVIOUS
<1>3. s \in Seq(Chunk) /\ t \in Seq(Chunk) /\ Chains(t)
  BY <1>2 DEF IInv, TypeOK, SegmentsChain
<1>4. IsPrefixOf(a, t)
  BY <1>2, ImmutableStep
<1>5. a \in Seq(Chunk) /\ Whole(a)
  BY <1>2, <1>3, IntactKinds, WholeIntact
<1>6. IsPrefixOf(a, b)
  BY <1>2, <1>3, <1>4, <1>5, WholeKept
<1>7. Len(a) \in Nat /\ Len(b) \in Nat /\ Len(a) <= Len(b)
  BY <1>2, <1>3, <1>6, IntactKinds DEF IsPrefixOf
<1>8. ASSUME NEW p, NEW c, Kept(s, p, c) PROVE Kept(t, p, c)
  <2>1. p \in Nat /\ p >= 1 /\ p <= Len(a) /\ s[p] = c
    BY <1>2, <1>8 DEF Kept
  <2>2. p \in 1..Len(a) /\ p <= Len(b)
    BY <1>7, <2>1
  <2>3. a[p] = s[p] /\ a[p] = t[p]
    <3>1. \A j \in 1..Len(a) : a[j] = s[j]
      BY <1>2, <1>3, IntactKinds
    <3>2. \A j \in 1..Len(a) : a[j] = t[j]
      BY <1>4 DEF IsPrefixOf
    <3> QED BY <2>2, <3>1, <3>2
  <2> QED BY <1>2, <2>1, <2>2, <2>3 DEF Kept
<1> QED BY <1>2, <1>7, <1>8

-----------------------------------------------------------------------------
(* What flush returned Ok for. *)

\* What a flush covered is at the front of its file, whose entry exists.
FlushInv ==
  \A i \in Idx : Holds(flushed[i], file[i]) /\ (flushed[i] # << >> => i \in entries)

LEMMA FlushNext ==
  ASSUME IInv, FewSegments, PlaceInv, AckInv, FlushInv, [Next]_vars, ~PowerLoss
  PROVE  FlushInv'
<1>0. /\ file \in [Idx -> Seq(Chunk)] /\ flushed \in [Idx -> Seq(Chunk)] /\ cur.index \in Idx
      /\ \A j \in Idx : Holds(flushed[j], file[j]) /\ (flushed[j] # << >> => j \in entries)
      /\ \A j \in Idx : Chains(file[j])
  BY DEF IInv, TypeOK, CurType, SegmentsChain, FlushInv
<1>q. ASSUME flushed' = flushed, entries \subseteq entries', NEW i,
             \A j \in Idx : j # i => file'[j] = file[j],
             i \in Idx => Holds(flushed[i], file'[i])
      PROVE  FlushInv'
  BY <1>0, <1>q DEF FlushInv
<1>e. ASSUME NEW i \in Idx, file[i] = << >>, NEW t \in Seq(Chunk) PROVE Holds(flushed[i], t)
  <2>1. flushed[i] = << >>
    BY <1>0, <1>e, PrefixEmpty DEF Holds
  <2> QED BY <2>1, PrefixEmpty DEF Holds
<1>c. ASSUME NEW i \in Idx PROVE Holds(flushed[i], Intact(file[i]))
  BY <1>0, WholeKept DEF Holds
<1>1. ASSUME NEW k \in Keys, OpenFresh(k) PROVE FlushInv'
  <2>1. /\ file' = [file EXCEPT ![0] = << >>] /\ flushed' = flushed /\ entries = {} /\ 0 \in Idx
        /\ entries' = entries \cup {0}
    BY <1>1, VisibleAll DEF OpenFresh, Idx
  <2>2. file'[0] = << >> /\ \A j \in Idx : j # 0 => file'[j] = file[j]
    BY <1>0, <2>1
  <2>3. file[0] = << >>
    BY <2>1 DEF PlaceInv
  <2>4. Holds(flushed[0], file'[0])
    <3>1. file'[0] \in Seq(Chunk)
      BY <2>2
    <3> QED BY <1>e, <2>1, <2>3, <3>1
  <2> QED BY <1>q, <2>1, <2>2, <2>4
<1>2. ASSUME NEW i \in Idx, file'[i] = Intact(file[i]), \A j \in Idx : j # i => file'[j] = file[j],
             flushed' = flushed, entries' = entries
      PROVE  FlushInv'
  BY <1>2, <1>c, <1>q
<1>3. ASSUME NEW k \in Keys, NEW i \in Visible, Recovers(k, i) PROVE FlushInv'
  <2>1. /\ i \in Idx /\ file'[i] = Intact(file[i]) /\ \A j \in Idx : j # i => file'[j] = file[j]
        /\ flushed' = flushed /\ entries' = entries
    BY <1>3, RecoverEffect DEF Recovers
  <2> QED BY <2>1, <1>2
<1>4. ASSUME NEW k \in Keys, RepairFails(k) PROVE FlushInv'
  <2>1. PICK i \in Visible : file' = [file EXCEPT ![i] = Intact(file[i])] /\ UNCHANGED <<entries, flushed>>
    BY <1>4 DEF RepairFails
  <2>2. i \in Idx
    BY DEF Visible, IInv, TypeOK
  <2>3. file'[i] = Intact(file[i]) /\ \A j \in Idx : j # i => file'[j] = file[j]
    BY <1>0, <2>1, <2>2
  <2> QED BY <2>1, <2>2, <2>3, <1>2
<1>5. ASSUME GenesisHeader PROVE FlushInv'
  <2>1. /\ 0 \in Idx /\ file'[0] \in Seq(Chunk) /\ \A j \in Idx : j # 0 => file'[j] = file[j]
        /\ flushed' = flushed /\ entries' = entries /\ pc = "genesis"
    BY <1>5, GenesisEffect
  <2>2. Holds(flushed[0], file'[0])
    BY <1>e, <2>1 DEF PlaceInv
  <2> QED BY <1>q, <2>1, <2>2
<1>6. ASSUME CreateNext \/ WriteHeader PROVE FlushInv'
  <2>1. PICK i : i = cur.index + 1
    OBVIOUS
  <2>2. /\ i \in Idx /\ cur.index \in Nat /\ file'[i] \in Seq(Chunk)
        /\ \A j \in Idx : j # i => file'[j] = file[j]
        /\ flushed' = flushed /\ entries \subseteq entries'
        /\ pc \in {"create", "open_create", "header", "open_header"}
    <3>1. CASE CreateNext
      <4>1. file'[i] = << >>
        BY <2>1, <3>1, CreateEffect
      <4>2. file'[i] \in Seq(Chunk)
        BY <4>1
      <4> QED BY <2>1, <3>1, <4>2, CreateEffect
    <3>2. CASE WriteHeader
      BY <2>1, <3>2, HeaderEffect
    <3> QED BY <1>6, <3>1, <3>2
  <2>3. file[i] = << >>
    BY <2>1, <2>2 DEF PlaceInv
  <2> QED BY <1>e, <1>q, <2>2, <2>3
<1>7. ASSUME BeginWrite PROVE FlushInv'
  <2>1. PICK i, s, t, n : i = cur.index /\ s = file[i] /\ t = file'[i] /\ n = Len(s)
    OBVIOUS
  <2>2. /\ n \in Nat /\ Len(t) = n + 1 /\ \A m \in 1..n : t[m] = s[m]
        /\ \A j \in Idx : j # i => file'[j] = file[j]
        /\ flushed' = flushed /\ entries' = entries
    BY <1>0, <1>7, <2>1, BeginEffect
  <2>3. Holds(flushed[i], t)
    <3>1. PICK a, l : a = flushed[i] /\ l = Len(a)
      OBVIOUS
    <3>2. a \in Seq(Chunk) /\ Holds(a, s)
      BY <1>0, <2>1, <3>1
    <3>3. l \in Nat /\ l <= n /\ \A m \in 1..l : a[m] = s[m]
      BY <2>1, <3>1, <3>2 DEF Holds, IsPrefixOf
    <3>4. l <= n + 1 /\ \A m \in 1..l : a[m] = t[m]
      BY <2>2, <3>3
    <3> QED BY <2>2, <3>1, <3>2, <3>4 DEF Holds, IsPrefixOf
  <2> QED BY <1>q, <2>1, <2>2, <2>3
<1>8. ASSUME FinishRecord \/ FinishFinalize PROVE FlushInv'
  <2>0. PICK d \in Datum, size \in Nat :
          AppendFramed(d, size) /\ pc \in {"rec_write", "fin_write"} /\ UNCHANGED <<entries, flushed>>
    BY <1>8, RecordEffect
  <2>1. PICK i, s, t, n, a, l : /\ i = cur.index /\ s = file[i] /\ t = file'[i] /\ n = Len(s)
                                /\ a = flushed[i] /\ l = Len(a)
    OBVIOUS
  <2>2. /\ i \in Idx /\ n \in Nat /\ n >= 2 /\ Len(t) = n /\ s[n].kind = "torn"
        /\ \A m \in 1..(n - 1) : t[m] = s[m]
        /\ \A j \in Idx : j # i => file'[j] = file[j]
    BY <2>0, <2>1, FrameEffect
  <2>3. /\ l \in Nat /\ l <= n /\ (\A m \in 1..l : a[m] = s[m]) /\ Whole(a)
        /\ (l >= 2 => a # << >>)
    BY <1>0, <2>1, <2>2 DEF Holds, IsPrefixOf
  <2>4. \A m \in 2..l : a[m].kind = "record"
    BY <2>1, <2>3 DEF Whole
  <2>5. l <= n - 1
    <3> SUFFICES ASSUME l = n PROVE FALSE
      BY <2>2, <2>3
    <3>1. n \in 1..l /\ n \in 2..l
      BY <2>2
    <3> QED BY <2>2, <2>3, <2>4, <3>1
  <2>6. \A m \in 1..l : a[m] = t[m]
    BY <2>2, <2>3, <2>5
  <2>7. Holds(a, t)
    BY <2>1, <2>2, <2>3, <2>6 DEF Holds, IsPrefixOf
  <2> QED BY <1>q, <2>0, <2>1, <2>2, <2>7
<1>9. ASSUME Quiet PROVE FlushInv'
  <2>1. file' = file /\ entries' = entries
    BY <1>9, QuietEffect
  <2>2. CASE flushed' = flushed
    BY <1>0, <2>1, <2>2 DEF FlushInv
  <2>3. CASE flushed' = acked
    <3>1. ASSUME NEW i \in Idx PROVE Holds(acked[i], file[i]) /\ (acked[i] # << >> => i \in entries)
      <4>1. Holds(acked[i], file[i]) /\ acked[i] \in Seq(Chunk)
        BY DEF AckInv, AckedSurvives, Holds, IInv, TypeOK
      <4>2. file[i] = << >> => acked[i] = << >>
        BY <4>1, PrefixEmpty DEF Holds
      <4> QED BY <4>1, <4>2 DEF PlaceInv
    <3> QED BY <2>1, <2>3, <3>1 DEF FlushInv
  <2> QED BY <1>9, <2>2, <2>3 DEF Quiet, Ends, Errs, SyncFinalized, FlushFile, FlushDir, AppendCall
<1>10. ASSUME UNCHANGED vars PROVE FlushInv'
  BY <1>10 DEF vars, FlushInv
<1> QED BY <1>1, <1>3, <1>4, <1>5, <1>6, <1>7, <1>8, <1>9, <1>10, NextCases

\* A machine that loses power was not killed before, and rollover alone closes segments,
\* with a sync that works.
PowerAlone ==
  "power_loss" \in Faults =>
    "kill" \notin Faults /\ "sync" \notin Faults /\ ReservedInputs = {}

EndsFinalized(s) == s # << >> /\ IsFinalize(s[Len(s)])

\* Only the last segment with a header, not ending in segment.finalized unless rollover is
\* about to sync it, has unsynced bytes; a flush covers nothing else.
DurableInv ==
  /\ \A i \in Idx : synced[i] <= Len(file[i])
  /\ \A i, j \in Idx : i < j /\ HasHeader(file[j]) => synced[i] = Len(file[i])
  /\ pc \in {"create", "header", "open_create", "open_header", "flush_dir"} =>
       synced[cur.index] = Len(file[cur.index])
  /\ \A i \in Idx : EndsFinalized(file[i]) /\ ~(pc = "fin_sync" /\ i = cur.index) =>
                      synced[i] = Len(file[i])
  /\ \A i \in Idx : /\ Len(flushed[i]) <= synced[i]
                    /\ flushed[i] # << >> => i \in dirSynced

\* A step that touches the file i alone, no file behind it having a header.
LEMMA DurableOne ==
  ASSUME IInv, DurableInv, NEW i \in Idx, pc = "fin_sync" => cur.index = i,
         pc' = "fin_sync" => cur'.index = i,
         \A j \in Idx : j # i => file'[j] = file[j] /\ synced'[j] = synced[j],
         \A j \in Idx : j > i => ~HasHeader(file[j]),
         HasHeader(file'[i]) => \A j \in Idx : j < i => synced[j] = Len(file[j]),
         synced'[i] <= Len(file'[i]), Len(flushed[i]) <= synced'[i],
         EndsFinalized(file'[i]) /\ pc' # "fin_sync" => synced'[i] = Len(file'[i]),
         flushed' = flushed, dirSynced' = dirSynced,
         pc' \in {"create", "header", "open_create", "open_header", "flush_dir"} =>
           synced'[cur'.index] = Len(file'[cur'.index])
  PROVE  DurableInv'
<1>1. \A j \in Idx : synced'[j] <= Len(file'[j])
  BY DEF DurableInv
<1>2. \A j \in Idx : EndsFinalized(file'[j]) /\ ~(pc' = "fin_sync" /\ j = cur'.index) =>
                       synced'[j] = Len(file'[j])
  BY DEF DurableInv
<1>3. \A j \in Idx : Len(flushed[j]) <= synced'[j]
  BY DEF DurableInv
<1>4. ASSUME NEW j \in Idx, NEW m \in Idx, j < m, HasHeader(file'[m])
      PROVE  synced'[j] = Len(file'[j])
  <2>1. /\ j # m /\ (m > i \/ m = i \/ m < i)
        /\ m > i => m # i
        /\ m < i => j # i /\ m # i
    BY <1>4 DEF Idx
  <2>2. CASE m > i
    BY <1>4, <2>1, <2>2
  <2>3. CASE m = i
    BY <1>4, <2>1, <2>3
  <2>4. CASE m < i
    BY <1>4, <2>1, <2>4 DEF DurableInv
  <2> QED BY <2>1, <2>2, <2>3, <2>4
<1> QED BY <1>1, <1>2, <1>3, <1>4 DEF DurableInv

LEMMA DurableNext ==
  ASSUME IInv, FewSegments, WritesLand, "kill" \notin Faults, "sync" \notin Faults,
         ReservedInputs = {},
         PlaceInv, AckInv, FlushInv, DurableInv, [Next]_vars, ~PowerLoss
  PROVE  DurableInv'
<1>0. /\ file \in [Idx -> Seq(Chunk)] /\ flushed \in [Idx -> Seq(Chunk)] /\ cur.index \in Idx
      /\ synced \in [Idx -> Nat]
  BY DEF IInv, TypeOK, CurType
<1>a. ASSUME NEW i \in Idx, file[i] = << >>
      PROVE  synced[i] = 0 /\ Len(flushed[i]) = 0 /\ ~HasHeader(file[i])
  <2>1. synced[i] \in Nat /\ flushed[i] \in Seq(Chunk) /\ Len(flushed[i]) \in Nat
    BY <1>0
  <2>2. synced[i] <= 0 /\ Len(flushed[i]) <= synced[i]
    BY <1>a DEF DurableInv
  <2> QED BY <1>a, <2>1, <2>2 DEF HasHeader
<1>b. ASSUME pc # "closed"
      PROVE  \A j \in Idx : j > cur.index => ~HasHeader(file[j])
  BY <1>a, <1>b DEF PlaceInv
<1>c. ASSUME pc \notin {"closed", "genesis"}
      PROVE  HasHeader(file[cur.index]) /\ \A j \in Idx : j < cur.index => synced[j] = Len(file[j])
  <2>1. HasHeader(file[cur.index])
    <3>1. PICK s, n : s = file[cur.index] /\ n = Len(s)
      OBVIOUS
    <3>2. s \in Seq(Chunk) /\ n \in Nat
      BY <1>0, <3>1
    <3>3. n >= 1 /\ s[1].kind = "header"
      BY <1>c, <3>1, <3>2 DEF IInv, WriterAgrees, Written
    <3> QED BY <3>1, <3>2, <3>3 DEF HasHeader
  <2> QED BY <1>0, <2>1 DEF DurableInv
<1>1. ASSUME NEW k \in Keys, OpenFresh(k) PROVE DurableInv'
  <2>1. /\ file' = [file EXCEPT ![0] = << >>] /\ flushed' = flushed /\ entries = {} /\ 0 \in Idx
        /\ synced' = [synced EXCEPT ![0] = 0] /\ dirSynced' = dirSynced /\ pc = "closed"
        /\ pc' = "genesis"
    BY <1>1, VisibleAll DEF OpenFresh, Idx
  <2>2. /\ file'[0] = << >> /\ synced'[0] = 0
        /\ \A j \in Idx : j # 0 => file'[j] = file[j] /\ synced'[j] = synced[j]
    BY <1>0, <2>1
  <2>3. \A j \in Idx : file[j] = << >>
    BY <2>1 DEF PlaceInv
  <2>4. Len(flushed[0]) = 0 /\ \A j \in Idx : ~HasHeader(file[j])
    BY <1>a, <2>1, <2>3
  <2>5. ~HasHeader(file'[0]) /\ ~EndsFinalized(file'[0]) /\ Len(file'[0]) = 0
    BY <2>2 DEF HasHeader, EndsFinalized
  <2> QED BY <2>1, <2>2, <2>4, <2>5, DurableOne
<1>2. ASSUME NEW k \in Keys, NEW i \in Visible, Recovers(k, i) PROVE DurableInv'
  <2>1. PICK s, t : s = file[i] /\ t = file'[i]
    OBVIOUS
  <2>2. /\ i \in Idx /\ HasHeader(s) /\ t = Intact(s) /\ \A j \in Idx : j # i => file'[j] = file[j]
        /\ cur'.index = i /\ pc = "closed" /\ UNCHANGED <<entries, dirSynced, flushed>>
        /\ \A j \in Visible : j <= i
    BY <1>2, <2>1, RecoverEffect DEF Recovers, StateOf
  <2>3. synced' = IF t = s THEN synced ELSE [synced EXCEPT ![i] = Len(t)]
    BY <1>2, <2>1, <2>2 DEF Recovers, Recover
  <2>4. \A j \in Idx : j # i => synced'[j] = synced[j]
    BY <1>0, <2>2, <2>3
  <2>5. t # s => synced'[i] = Len(t)
    BY <1>0, <2>2, <2>3
  <2>6. \A j \in Idx : j > i => j \notin entries
    BY <2>2, VisibleAll DEF Idx
  <2>7. \A j \in Idx : j > i => ~HasHeader(file[j])
    BY <1>a, <2>6 DEF PlaceInv
  <2>8. \A j \in Idx : j < i => synced[j] = Len(file[j])
    BY <2>1, <2>2 DEF DurableInv
  <2>9. s \in Seq(Chunk) /\ t \in Seq(Chunk) /\ Len(t) \in Nat /\ Len(flushed[i]) \in Nat
    BY <1>0, <2>1, <2>2, IntactKinds
  <2>10. Len(flushed[i]) <= Len(t)
    <3>1. flushed[i] \in Seq(Chunk) /\ Holds(flushed[i], s) /\ Chains(s)
      BY <1>0, <2>1, <2>2 DEF FlushInv, IInv, SegmentsChain
    <3>2. IsPrefixOf(flushed[i], t)
      BY <2>2, <2>9, <3>1, WholeKept DEF Holds
    <3> QED BY <3>2 DEF IsPrefixOf
  <2>11. t = s => /\ synced'[i] <= Len(t) /\ Len(flushed[i]) <= synced'[i]
                  /\ EndsFinalized(t) => synced'[i] = Len(t)
    BY <2>1, <2>2, <2>3 DEF DurableInv
  <2>12. t # s => /\ synced'[i] <= Len(t) /\ Len(flushed[i]) <= synced'[i]
                  /\ EndsFinalized(t) => synced'[i] = Len(t)
    BY <2>5, <2>9, <2>10
  <2>13. pc' = "ready" \/ (pc' = "open_create" /\ EndsFinalized(t))
    <3>1. t # << >>
      BY <2>2, <2>9, IntactPrefix
    <3> QED BY <1>2, <2>1, <3>1 DEF Recovers, EndsFinalized
  <2> QED BY <2>1, <2>2, <2>4, <2>7, <2>8, <2>11, <2>12, <2>13, DurableOne
<1>3. ASSUME NEW k \in Keys, RepairFails(k) PROVE DurableInv'
  BY <1>3 DEF RepairFails
<1>4. ASSUME GenesisHeader PROVE DurableInv'
  <2>1. /\ 0 \in Idx /\ Len(file'[0]) = 1 /\ file'[0][1].kind = "header"
        /\ \A j \in Idx : j # 0 => file'[j] = file[j]
        /\ pc = "genesis" /\ pc' = "ready" /\ UNCHANGED <<synced, dirSynced, flushed>>
    BY <1>4, GenesisEffect
  <2>2. cur.index = 0 /\ file[0] = << >>
    BY <2>1 DEF PlaceInv
  <2>3. synced[0] = 0 /\ Len(flushed[0]) = 0 /\ \A j \in Idx : j > 0 => ~HasHeader(file[j])
    BY <1>a, <1>b, <2>1, <2>2
  <2>4. \A j \in Idx : ~(j < 0)
    BY DEF Idx
  <2>5. ~EndsFinalized(file'[0])
    BY <2>1 DEF EndsFinalized, IsFinalize
  <2> QED BY <2>1, <2>3, <2>4, <2>5, DurableOne
<1>5. ASSUME BeginWrite PROVE DurableInv'
  <2>1. PICK i, s, t, n : i = cur.index /\ s = file[i] /\ t = file'[i] /\ n = Len(s)
    OBVIOUS
  <2>2. /\ n \in Nat /\ Len(t) = n + 1 /\ t[n + 1] = Torn
        /\ \A j \in Idx : j # i => file'[j] = file[j]
        /\ cur' = cur /\ pc \in {"fin", "rec"} /\ pc' \in {"fin_write", "rec_write"}
        /\ UNCHANGED <<synced, dirSynced, flushed>>
    BY <1>0, <1>5, <2>1, BeginEffect
  <2>3. ~EndsFinalized(t)
    BY <2>2 DEF EndsFinalized, IsFinalize, Torn
  <2>4. synced[i] \in Nat /\ synced[i] <= n /\ Len(flushed[i]) <= synced[i]
    BY <1>0, <2>1 DEF DurableInv
  <2>5. synced[i] <= n + 1
    BY <2>2, <2>4
  <2> QED BY <1>0, <1>b, <1>c, <2>1, <2>2, <2>3, <2>4, <2>5, DurableOne
<1>6. ASSUME FinishRecord \/ FinishFinalize PROVE DurableInv'
  <2>0. PICK d \in Datum, size \in Nat :
          /\ AppendFramed(d, size) /\ pc \in {"rec_write", "fin_write"}
          /\ \/ pc' = "fin_sync"
             \/ pc' = "ready" /\ d.event # Finalized
          /\ UNCHANGED <<synced, dirSynced, flushed>>
    BY <1>6, RecordEffect DEF EventOf, Finalized
  <2>1. PICK i, s, t, n : i = cur.index /\ s = file[i] /\ t = file'[i] /\ n = Len(s)
    OBVIOUS
  <2>2. /\ n \in Nat /\ Len(t) = n /\ t[n] = Record(d, cur.last_hmac, cur.bytes_written + size)
        /\ \A j \in Idx : j # i => file'[j] = file[j]
    BY <2>0, <2>1, FrameEffect
  <2>3. cur'.index = i
    BY <2>0, <2>1, FrameEffect
  <2>4. EndsFinalized(t) => pc' = "fin_sync"
    BY <2>0, <2>2 DEF EndsFinalized, IsFinalize, Record
  <2>5. i \in Idx /\ synced[i] <= n /\ Len(flushed[i]) <= synced[i]
    BY <1>0, <2>1 DEF DurableInv
  <2>6. /\ \A j \in Idx : j > i => ~HasHeader(file[j])
        /\ \A j \in Idx : j < i => synced[j] = Len(file[j])
    BY <1>b, <1>c, <2>0, <2>1
  <2>7. /\ pc # "fin_sync" /\ UNCHANGED <<synced, dirSynced, flushed>>
        /\ pc' \notin {"create", "header", "open_create", "open_header", "flush_dir"}
    BY <2>0
  <2>8. /\ synced'[i] <= Len(file'[i]) /\ Len(flushed[i]) <= synced'[i]
        /\ ~(EndsFinalized(file'[i]) /\ pc' # "fin_sync")
    BY <2>1, <2>2, <2>4, <2>5, <2>7
  <2> QED BY <2>2, <2>3, <2>5, <2>6, <2>7, <2>8, DurableOne
<1>7. ASSUME CreateNext PROVE DurableInv'
  <2>1. PICK i : i = cur.index + 1
    OBVIOUS
  <2>2. /\ i \in Idx /\ cur.index \in Nat /\ file'[i] = << >>
        /\ \A j \in Idx : j # i => file'[j] = file[j]
        /\ synced' = [synced EXCEPT ![i] = 0] /\ cur' = cur
        /\ pc \in {"create", "open_create"} /\ pc' \in {"header", "open_header"}
        /\ UNCHANGED <<dirSynced, flushed>>
    BY <1>7, <2>1, CreateEffect
  <2>3. synced'[i] = 0 /\ \A j \in Idx : j # i => synced'[j] = synced[j]
    BY <1>0, <2>2
  <2>4. cur.index # i /\ i > cur.index /\ \A j \in Idx : j > i => j > cur.index
    BY <2>1, <2>2 DEF Idx
  <2>5. file[i] = << >>
    BY <2>2, <2>4 DEF PlaceInv
  <2>6. Len(flushed[i]) = 0 /\ \A j \in Idx : j > i => ~HasHeader(file[j])
    BY <1>a, <1>b, <2>2, <2>4, <2>5
  <2>7. ~HasHeader(file'[i]) /\ ~EndsFinalized(file'[i]) /\ Len(file'[i]) = 0
    BY <2>2 DEF HasHeader, EndsFinalized
  <2>8. synced'[cur'.index] = Len(file'[cur'.index])
    BY <1>0, <2>2, <2>3, <2>4 DEF DurableInv
  <2> QED BY <2>2, <2>3, <2>6, <2>7, <2>8, DurableOne
<1>8. ASSUME WriteHeader PROVE DurableInv'
  <2>1. PICK i : i = cur.index + 1
    OBVIOUS
  <2>2. /\ i \in Idx /\ cur.index \in Nat /\ Len(file'[i]) = 1 /\ file'[i][1].kind = "header"
        /\ \A j \in Idx : j # i => file'[j] = file[j]
        /\ pc \in {"header", "open_header"} /\ pc' \in {"rec", "ready"}
        /\ UNCHANGED <<synced, dirSynced, flushed>>
    BY <1>8, <2>1, HeaderEffect
  <2>3. /\ i > cur.index /\ \A j \in Idx : j > i => j > cur.index
        /\ \A j \in Idx : j < i => j = cur.index \/ j < cur.index
    BY <2>1, <2>2 DEF Idx
  <2>4. file[i] = << >>
    BY <2>2, <2>3 DEF PlaceInv
  <2>5. synced[i] = 0 /\ Len(flushed[i]) = 0 /\ \A j \in Idx : j > i => ~HasHeader(file[j])
    BY <1>a, <1>b, <2>2, <2>3, <2>4
  <2>6. \A j \in Idx : j < i => synced[j] = Len(file[j])
    BY <1>c, <2>2, <2>3 DEF DurableInv
  <2>7. ~EndsFinalized(file'[i])
    BY <2>2 DEF EndsFinalized, IsFinalize
  <2> QED BY <2>2, <2>5, <2>6, <2>7, DurableOne
<1>9. ASSUME SyncFinalized \/ FlushFile PROVE DurableInv'
  <2>1. PICK i : i = cur.index
    OBVIOUS
  <2>2. /\ synced' = [synced EXCEPT ![i] = Len(file[i])] /\ pc \in {"fin_sync", "ready"}
        /\ pc' \in {"create", "flush_dir"} /\ UNCHANGED <<file, cur, dirSynced, flushed>>
    BY <1>9, <2>1 DEF SyncFinalized, FlushFile
  <2>3. synced'[i] = Len(file[i]) /\ \A j \in Idx : j # i => synced'[j] = synced[j]
    BY <1>0, <2>1, <2>2
  <2>4. Len(flushed[i]) <= Len(file[i])
    BY <1>0, <2>1 DEF FlushInv, Holds, IsPrefixOf
  <2>5. Len(file[i]) \in Nat /\ i \in Idx
    BY <1>0, <2>1
  <2> QED BY <1>b, <1>c, <2>1, <2>2, <2>3, <2>4, <2>5, DurableOne
<1>10. ASSUME FlushDir PROVE DurableInv'
  <2>1. /\ pc = "flush_dir" /\ pc' = "ready" /\ flushed' = acked /\ dirSynced' = entries
        /\ UNCHANGED <<file, synced, cur>>
    BY <1>10 DEF FlushDir
  <2>2. ASSUME NEW i \in Idx
        PROVE  Len(acked[i]) <= synced[i] /\ (acked[i] # << >> => i \in entries)
    <3>1. acked[i] \in Seq(Chunk) /\ Holds(acked[i], file[i]) /\ Len(acked[i]) <= Len(file[i])
      BY DEF AckInv, AckedSurvives, Holds, IsPrefixOf, IInv, TypeOK
    <3>2. file[i] = << >> => acked[i] = << >>
      BY <3>1, PrefixEmpty DEF Holds
    <3>3. i < cur.index \/ i = cur.index => synced[i] = Len(file[i])
      BY <1>c, <2>1 DEF DurableInv
    <3>4. i > cur.index => file[i] = << >>
      BY <2>1 DEF PlaceInv
    <3>5. i < cur.index \/ i = cur.index \/ i > cur.index
      <4>1. cur.index \in Idx
        BY <1>0
      <4> QED BY <4>1 DEF Idx
    <3>6. file[i] = << >> => synced[i] = Len(file[i])
      BY <1>a
    <3> QED BY <3>1, <3>2, <3>3, <3>4, <3>5, <3>6 DEF PlaceInv
  <2> QED BY <2>1, <2>2 DEF DurableInv
<1>11. ASSUME Ends \/ Errs \/ \E v \in Inputs : AppendCall(v) PROVE DurableInv'
  <2>1. /\ UNCHANGED <<file, synced, dirSynced, flushed>> /\ pc # "fin_sync"
        /\ pc' \in {"closed", "ready", "fin", "rec"}
    BY <1>11 DEF Ends, Errs, AppendCall, disk
  <2> QED BY <2>1 DEF DurableInv
<1>12. ASSUME UNCHANGED vars PROVE DurableInv'
  BY <1>12 DEF vars, DurableInv
<1> QED BY <1>1, <1>2, <1>3, <1>4, <1>5, <1>6, <1>7, <1>8, <1>9, <1>10, <1>11, <1>12,
           NextCases DEF Quiet

\* What a flush covered survives a power loss, and is all a caller can still rely on.
LEMMA PowerNext ==
  ASSUME IInv, FlushInv, DurableInv, PowerLoss
  PROVE  AckInv' /\ FlushInv' /\ DurableInv'
<1>1. /\ synced' = [j \in Idx |-> Len(file'[j])] /\ dirSynced' = entries' /\ pc' = "closed"
      /\ acked' = flushed /\ flushed' = flushed
      /\ dirSynced \subseteq entries'
  BY DEF PowerLoss
<1>2. \A j \in Idx : synced'[j] = Len(file'[j])
  BY <1>1
<1>3. ASSUME NEW i \in Idx
      PROVE  /\ Holds(flushed[i], file'[i]) /\ (flushed[i] # << >> => i \in entries')
             /\ Len(flushed[i]) <= Len(file'[i]) /\ file'[i] \in Seq(Chunk)
  <2>1. PICK a, l, s, t : a = flushed[i] /\ l = Len(a) /\ s = file[i] /\ t = file'[i]
    OBVIOUS
  <2>2. a \in Seq(Chunk) /\ l \in Nat /\ s \in Seq(Chunk) /\ Len(s) \in Nat
    BY <2>1 DEF IInv, TypeOK
  <2>3. /\ l <= Len(s) /\ l <= synced[i] /\ (\A m \in 1..l : a[m] = s[m]) /\ Whole(a)
        /\ (a # << >> => i \in entries')
    BY <1>1, <2>1 DEF DurableInv, FlushInv, Holds, IsPrefixOf
  <2>4. CASE i \notin entries'
    <3>1. a = << >> /\ t = << >>
      BY <2>1, <2>3, <2>4, PowerEffect
    <3>2. t \in Seq(Chunk) /\ l <= Len(t)
      BY <2>1, <3>1
    <3>3. Holds(a, t)
      BY <3>1, <3>2, PrefixEmpty DEF Holds
    <3> QED BY <2>1, <2>3, <3>2, <3>3
  <2>5. CASE i \in entries'
    <3>1. PICK n \in Nat : Survivor(s, t, n, synced[i])
      BY <2>1, <2>5, PowerEffect
    <3>2. /\ n <= Len(s) /\ (n < Len(s) => synced[i] <= n) /\ t \in Seq(Chunk)
          /\ (Len(t) = n \/ Len(t) = n + 1) /\ \A m \in 1..n : t[m] = s[m]
      BY <3>1 DEF Survivor
    <3>3. synced[i] \in Nat
      BY DEF IInv, TypeOK
    <3>4. l <= n /\ l <= Len(t)
      BY <2>2, <2>3, <3>2, <3>3
    <3>5. \A m \in 1..l : a[m] = t[m]
      BY <2>2, <2>3, <3>2, <3>4
    <3> QED BY <2>1, <2>3, <2>5, <3>2, <3>4, <3>5 DEF Holds, IsPrefixOf
  <2> QED BY <2>4, <2>5
<1>4. AckInv'
  BY <1>1, <1>3 DEF AckInv, AckedSurvives, Holds
<1>5. FlushInv'
  BY <1>1, <1>3 DEF FlushInv
<1>6. \A j \in Idx : Len(file'[j]) <= Len(file'[j])
  BY <1>3
<1>7. DurableInv'
  BY <1>1, <1>2, <1>3, <1>6 DEF DurableInv
<1> QED BY <1>4, <1>5, <1>7

\* What callers rely on: in the files, and durable where a power loss can happen.
RelyInv == AckInv /\ FlushInv /\ ("power_loss" \in Faults => DurableInv)

LEMMA RelyInvariance ==
  ASSUME FewSegments, WritesLand, PowerAlone
  PROVE  Spec => []RelyInv
<1>1. Init => RelyInv
  <2> SUFFICES ASSUME Init PROVE RelyInv
    OBVIOUS
  <2>1. pc = "closed" /\ \A i \in Idx : /\ file[i] = << >> /\ acked[i] = << >> /\ flushed[i] = << >>
                                        /\ synced[i] = 0
    BY DEF Init
  <2>2. Len(<< >>) <= 0 /\ 0 <= Len(<< >>) /\ ~HasHeader(<< >>) /\ ~EndsFinalized(<< >>)
    BY DEF HasHeader, EndsFinalized
  <2>3. Holds(<< >>, << >>)
    BY DEF Holds, IsPrefixOf, Whole
  <2>4. AckInv
    BY <2>1, <2>3 DEF AckInv, AckedSurvives, Holds
  <2>5. FlushInv
    BY <2>1, <2>3 DEF FlushInv
  <2>6. DurableInv
    BY <2>1, <2>2 DEF DurableInv
  <2> QED BY <2>4, <2>5, <2>6 DEF RelyInv
<1>2. IInv /\ PlaceInv /\ RelyInv /\ [Next]_vars => RelyInv'
  <2> SUFFICES ASSUME IInv, PlaceInv, RelyInv, [Next]_vars PROVE RelyInv'
    OBVIOUS
  <2>1. CASE PowerLoss
    <3>1. "power_loss" \in Faults
      BY <2>1 DEF PowerLoss
    <3> QED BY <2>1, <3>1, PowerNext DEF RelyInv
  <2>2. CASE ~PowerLoss
    <3>1. AckInv' /\ FlushInv'
      BY <2>2, AckNext, FlushNext DEF RelyInv
    <3>2. "power_loss" \in Faults => DurableInv'
      BY <2>2, DurableNext DEF RelyInv, PowerAlone
    <3> QED BY <3>1, <3>2 DEF RelyInv
  <2> QED BY <2>1, <2>2
<1> QED BY <1>1, <1>2, Invariance, PlaceInvariance, PTL DEF Spec

\* Unless the writer goes on after a short write, what append returned Ok for stays in its
\* file until a power loss: through crashes, failed syncs, failed rollovers and repairs whose
\* own sync fails.
THEOREM AckedCorrect ==
  ASSUME FewSegments, WritesLand, PowerAlone
  PROVE  Spec => []AckedSurvives
<1>1. RelyInv => AckedSurvives
  BY DEF RelyInv, AckInv
<1> QED BY <1>1, RelyInvariance, PTL

\* What flush returned Ok for stays in its file at its place: without power losses whatever
\* else fails short of a short write, and through power losses as long as no segment was
\* closed without the sync of rollover.
THEOREM FlushedCorrect ==
  ASSUME FewSegments, WritesLand, PowerAlone
  PROVE  Spec => []FlushedSurvives
<1>1. RelyInv => FlushedSurvives
  BY DEF RelyInv, FlushInv, Holds, FlushedSurvives
<1> QED BY <1>1, RelyInvariance, PTL

-----------------------------------------------------------------------------
(* One chain across segments. *)

\* The segment s continues the segment p.
Link(s, p) ==
  /\ HasHeader(p) /\ Intact(p) = p /\ EndsFinalized(p)
  /\ s[1].key_id = p[1].key_id
  /\ s[1].prev_final = ChainAfter(p[Len(p)])

Linked(i) == HasHeader(file[i]) => i - 1 \in entries /\ Link(file[i], file[i - 1])

\* Segments are numbered without a gap.
Gapless(S) == \A i \in S, j \in Idx : j < i => j \in S

\* Segments follow one another, on disk and on stable storage, and the one behind which a
\* segment is created ends in segment.finalized.
LinkInv ==
  /\ Gapless(entries) /\ Gapless(dirSynced)
  /\ \A i \in entries \ {0} : Linked(i)
  /\ pc \in {"fin_sync", "create", "header", "open_create", "open_header"} =>
       EndsFinalized(file[cur.index])

\* A step that touches the file i alone, no file behind it having a header.
LEMMA LinkOne ==
  ASSUME IInv, LinkInv, NEW i \in Idx,
         \A j \in Idx : j # i => file'[j] = file[j],
         \A j \in Idx : j > i => ~HasHeader(file[j]),
         entries \subseteq entries', entries' \subseteq entries \cup {i},
         HasHeader(file'[i]) /\ i # 0 => i - 1 \in entries' /\ Link(file'[i], file[i - 1])
  PROVE  \A j \in entries' \ {0} : Linked(j)'
<1> SUFFICES ASSUME NEW j \in entries' \ {0}, HasHeader(file'[j])
             PROVE  j - 1 \in entries' /\ Link(file'[j], file'[j - 1])
  BY DEF Linked
<1>1. j \in Idx
  BY DEF IInv, TypeOK
<1>2. /\ j - 1 \in Idx /\ (j > i \/ j = i \/ j < i)
      /\ j > i => j # i
      /\ j = i => j - 1 # i
      /\ j < i => j # i /\ j - 1 # i
  BY <1>1 DEF Idx
<1>3. CASE j > i
  BY <1>1, <1>2, <1>3
<1>4. CASE j = i
  BY <1>1, <1>2, <1>4
<1>5. CASE j < i
  <2>1. j \in entries \ {0} /\ file'[j] = file[j] /\ file'[j - 1] = file[j - 1]
    BY <1>1, <1>2, <1>5
  <2>2. Linked(j)
    BY <2>1 DEF LinkInv
  <2> QED BY <2>1, <2>2 DEF Linked
<1> QED BY <1>2, <1>3, <1>4, <1>5

\* The header of a segment is what links it.
LEMMA LinkKept ==
  ASSUME IInv, LinkInv, NEW i \in Idx, i \in entries, HasHeader(file[i]), NEW t, t[1] = file[i][1]
  PROVE  i # 0 => i - 1 \in entries /\ Link(t, file[i - 1])
  BY DEF LinkInv, Linked, Link

LEMMA LinkNext ==
  ASSUME IInv, FewSegments, WritesLand, PlaceInv, AckInv, LinkInv, [Next]_vars, ~PowerLoss
  PROVE  LinkInv'
<1>0. /\ file \in [Idx -> Seq(Chunk)] /\ cur.index \in Idx /\ entries \subseteq Idx
      /\ Gapless(entries) /\ Gapless(dirSynced) /\ \A i \in entries \ {0} : Linked(i)
  BY DEF IInv, TypeOK, CurType, LinkInv
<1>b. ASSUME pc # "closed"
      PROVE  cur.index \in entries /\ \A j \in Idx : j > cur.index => ~HasHeader(file[j])
  BY <1>b DEF PlaceInv, HasHeader
<1>c. ASSUME pc \notin {"closed", "genesis"}
      PROVE  HasHeader(file[cur.index])
  <2>1. PICK s, n : s = file[cur.index] /\ n = Len(s)
    OBVIOUS
  <2>2. s \in Seq(Chunk) /\ n \in Nat
    BY <1>0, <2>1
  <2>3. n >= 1 /\ s[1].kind = "header"
    BY <1>c, <2>1, <2>2 DEF IInv, WriterAgrees, Written
  <2> QED BY <2>1, <2>2, <2>3 DEF HasHeader
<1>q. ASSUME UNCHANGED <<entries, dirSynced>>, \A i \in entries \ {0} : Linked(i)',
             pc' \in {"fin_sync", "create", "header", "open_create", "open_header"} =>
               EndsFinalized(file'[cur'.index])
      PROVE  LinkInv'
  BY <1>0, <1>q DEF LinkInv
<1>1. ASSUME NEW k \in Keys, OpenFresh(k) PROVE LinkInv'
  <2>1. /\ file' = [file EXCEPT ![0] = << >>] /\ entries = {} /\ 0 \in Idx
        /\ entries' = entries \cup {0} /\ dirSynced' = dirSynced /\ pc' = "genesis"
    BY <1>1, VisibleAll DEF OpenFresh, Idx
  <2>2. Gapless(entries') /\ entries' \ {0} = {}
    <3>1. \A j \in Idx : ~(j < 0)
      BY DEF Idx
    <3> QED BY <2>1, <3>1 DEF Gapless
  <2> QED BY <1>0, <2>1, <2>2 DEF LinkInv
<1>2. ASSUME NEW i \in Idx, i \in entries, HasHeader(file[i]), file'[i] = Intact(file[i]),
             \A j \in Idx : j # i => file'[j] = file[j], entries' = entries,
             \A j \in Visible : j <= i
      PROVE  \A j \in entries \ {0} : Linked(j)'
  <2>1. \A j \in Idx : j > i => j \notin entries
    BY <1>2, VisibleAll DEF Idx
  <2>2. \A j \in Idx : j > i => ~HasHeader(file[j])
    BY <2>1 DEF PlaceInv, HasHeader
  <2>3. PICK s, t : s = file[i] /\ t = Intact(s)
    OBVIOUS
  <2>4. s \in Seq(Chunk) /\ HasHeader(s)
    BY <1>0, <1>2, <2>3
  <2>5. Len(t) >= 1 /\ Len(t) \in Nat /\ \A j \in 1..Len(t) : t[j] = s[j]
    BY <2>3, <2>4, IntactPrefix, IntactKinds
  <2>6. t[1] = s[1]
    BY <2>5
  <2>7. i # 0 => i - 1 \in entries /\ Link(t, file[i - 1])
    BY <1>2, <2>3, <2>6, LinkKept
  <2> QED BY <1>2, <2>2, <2>3, <2>7, LinkOne
<1>3. ASSUME NEW k \in Keys, NEW i \in Visible, Recovers(k, i) PROVE LinkInv'
  <2>1. /\ i \in Idx /\ i \in entries /\ HasHeader(file[i]) /\ file'[i] = Intact(file[i])
        /\ \A j \in Idx : j # i => file'[j] = file[j]
        /\ cur'.index = i /\ UNCHANGED <<entries, dirSynced>> /\ \A j \in Visible : j <= i
    BY <1>3, RecoverEffect DEF Recovers, StateOf
  <2>2. Len(Intact(file[i])) >= 1 /\ Intact(file[i]) \in Seq(Chunk)
    <3>1. file[i] \in Seq(Chunk)
      BY <1>0, <2>1
    <3> QED BY <2>1, <3>1, IntactPrefix
  <2>3. file'[i] # << >>
    BY <2>1, <2>2
  <2>4. pc' = "ready" \/ (pc' = "open_create" /\ EndsFinalized(file'[i]))
    BY <1>3, <2>3 DEF Recovers, EndsFinalized
  <2> QED BY <1>2, <1>q, <2>1, <2>4
<1>4. ASSUME NEW k \in Keys, RepairFails(k) PROVE LinkInv'
  <2>1. PICK i \in Visible : /\ file' = [file EXCEPT ![i] = Intact(file[i])] /\ pc = "closed"
                             /\ Refusal(file[i], k) = "none" /\ IsLatest(i)
                             /\ UNCHANGED <<entries, dirSynced, pc>>
    BY <1>4 DEF RepairFails
  <2>2. i \in Idx /\ i \in entries /\ HasHeader(file[i]) /\ \A j \in Visible : j <= i
    BY <2>1 DEF Visible, IsLatest, Refusal, IInv, TypeOK
  <2>3. file'[i] = Intact(file[i]) /\ \A j \in Idx : j # i => file'[j] = file[j]
    BY <1>0, <2>1, <2>2
  <2>4. \A j \in entries \ {0} : Linked(j)'
    BY <1>2, <2>1, <2>2, <2>3
  <2> QED BY <1>q, <2>1, <2>4
<1>5. ASSUME GenesisHeader PROVE LinkInv'
  <2>1. /\ 0 \in Idx /\ \A j \in Idx : j # 0 => file'[j] = file[j]
        /\ pc = "genesis" /\ pc' = "ready" /\ UNCHANGED <<entries, dirSynced>>
    BY <1>5, GenesisEffect
  <2>2. cur.index = 0 /\ \A j \in Idx : j > 0 => ~HasHeader(file[j])
    BY <1>b, <2>1 DEF PlaceInv
  <2>3. \A j \in entries \ {0} : Linked(j)'
    BY <2>1, <2>2, LinkOne
  <2> QED BY <1>q, <2>1, <2>3
<1>6. ASSUME NEW i, NEW t, i = cur.index, t = file'[i], pc \notin {"closed", "genesis"},
             t[1] = file[i][1], \A j \in Idx : j # i => file'[j] = file[j], entries' = entries
      PROVE  \A j \in entries \ {0} : Linked(j)'
  <2>1. i \in Idx /\ i \in entries /\ HasHeader(file[i]) /\ \A j \in Idx : j > i => ~HasHeader(file[j])
    BY <1>0, <1>b, <1>c, <1>6
  <2>2. i # 0 => i - 1 \in entries /\ Link(t, file[i - 1])
    BY <1>6, <2>1, LinkKept
  <2> QED BY <1>6, <2>1, <2>2, LinkOne
<1>7. ASSUME BeginWrite PROVE LinkInv'
  <2>1. PICK i, s, t, n : i = cur.index /\ s = file[i] /\ t = file'[i] /\ n = Len(s)
    OBVIOUS
  <2>2. /\ n \in Nat /\ \A m \in 1..n : t[m] = s[m]
        /\ \A j \in Idx : j # i => file'[j] = file[j]
        /\ pc \in {"fin", "rec"} /\ pc' \in {"fin_write", "rec_write"}
        /\ UNCHANGED <<entries, dirSynced>>
    BY <1>0, <1>7, <2>1, BeginEffect
  <2>3. n >= 1
    BY <2>1, <2>2 DEF IInv, WriterAgrees, Written
  <2>4. t[1] = s[1]
    BY <2>2, <2>3
  <2>5. \A j \in entries \ {0} : Linked(j)'
    BY <1>6, <2>1, <2>2, <2>4
  <2> QED BY <1>q, <2>2, <2>5
<1>8. ASSUME FinishRecord \/ FinishFinalize PROVE LinkInv'
  <2>0. PICK d \in Datum, size \in Nat :
          /\ AppendFramed(d, size) /\ pc \in {"rec_write", "fin_write"}
          /\ \/ pc' = "ready"
             \/ pc' = "fin_sync" /\ d.event = Finalized
          /\ UNCHANGED <<entries, dirSynced>>
    BY <1>8, RecordEffect
  <2>1. PICK i, s, t, n : i = cur.index /\ s = file[i] /\ t = file'[i] /\ n = Len(s)
    OBVIOUS
  <2>2. /\ n \in Nat /\ n >= 2 /\ Len(t) = n
        /\ t[n] = Record(d, cur.last_hmac, cur.bytes_written + size)
        /\ \A m \in 1..(n - 1) : t[m] = s[m]
        /\ \A j \in Idx : j # i => file'[j] = file[j]
    BY <2>0, <2>1, FrameEffect
  <2>3. cur'.index = i
    BY <2>0, <2>1, FrameEffect
  <2>4. t[1] = s[1]
    BY <2>2
  <2>5. \A j \in entries \ {0} : Linked(j)'
    BY <1>6, <2>0, <2>1, <2>2, <2>4
  <2>6. t # << >>
    BY <2>2
  <2>7. d.event = Finalized => EndsFinalized(t)
    BY <2>2, <2>6 DEF EndsFinalized, IsFinalize, Record
  <2> QED BY <1>q, <2>0, <2>1, <2>3, <2>5, <2>7
<1>9. ASSUME CreateNext PROVE LinkInv'
  <2>1. PICK i : i = cur.index + 1
    OBVIOUS
  <2>2. /\ i \in Idx /\ cur.index \in Nat /\ file'[i] = << >>
        /\ \A j \in Idx : j # i => file'[j] = file[j]
        /\ entries' = entries \cup {i} /\ dirSynced' = dirSynced /\ cur' = cur
        /\ pc \in {"create", "open_create"} /\ pc' \in {"header", "open_header"}
    BY <1>9, <2>1, CreateEffect
  <2>3. i - 1 = cur.index /\ cur.index # i /\ \A j \in Idx : j > i => j > cur.index
    BY <2>1, <2>2 DEF Idx
  <2>4. Gapless(entries')
    <3>1. \A j \in Idx : j < i => j = cur.index \/ j < cur.index
      BY <2>1, <2>2 DEF Idx
    <3> QED BY <1>0, <1>b, <2>2, <3>1 DEF Gapless
  <2>5. ~HasHeader(file'[i]) /\ \A j \in Idx : j > i => ~HasHeader(file[j])
    BY <1>b, <2>2, <2>3 DEF HasHeader
  <2>6. \A j \in entries' \ {0} : Linked(j)'
    BY <2>2, <2>5, LinkOne
  <2>7. EndsFinalized(file'[cur'.index])
    BY <1>0, <2>2, <2>3 DEF LinkInv
  <2> QED BY <1>0, <2>2, <2>4, <2>6, <2>7 DEF LinkInv
<1>10. ASSUME WriteHeader PROVE LinkInv'
  <2>1. PICK c, i, s, t, n : c = cur.index /\ i = c + 1 /\ s = file[c] /\ t = file'[i] /\ n = Len(s)
    OBVIOUS
  <2>2. /\ i \in Idx /\ c \in Nat /\ t = << Header(i, cur.key_id, cur.last_hmac) >>
        /\ \A j \in Idx : j # i => file'[j] = file[j]
        /\ UNCHANGED <<entries, dirSynced>>
        /\ pc \in {"header", "open_header"} /\ pc' \in {"rec", "ready"}
    BY <1>10, <2>1, HeaderEffect
  <2>3. i - 1 = c /\ \A j \in Idx : j > i => j > c
    BY <2>1, <2>2 DEF Idx
  <2>4. s \in Seq(Chunk) /\ n \in Nat /\ acked[c] \in Seq(Chunk) /\ Chains(s)
    BY <1>0, <2>1 DEF IInv, TypeOK, SegmentsChain
  <2>5. /\ Len(acked[c]) = n /\ IsPrefixOf(acked[c], s) /\ Whole(acked[c])
    BY <1>0, <2>1, <2>2 DEF AckInv, AckedSurvives, Written
  <2>6. acked[c] = s
    BY <2>1, <2>4, <2>5, SeqEqual DEF IsPrefixOf
  <2>7. Whole(s) /\ IsPrefixOf(s, Intact(s))
    BY <2>4, <2>5, <2>6, WholeKept, PrefixRefl
  <2>8. Intact(s) = s
    <3>1. Intact(s) \in Seq(Chunk) /\ Len(Intact(s)) \in Nat /\ Len(Intact(s)) <= n
          /\ \A j \in 1..Len(Intact(s)) : Intact(s)[j] = s[j]
      BY <2>1, <2>4, IntactKinds
    <3>2. Len(Intact(s)) = n
      BY <2>1, <2>4, <2>7, <3>1 DEF IsPrefixOf
    <3> QED BY <2>1, <2>4, <3>1, <3>2, SeqEqual, SMTT(30)
  <2>9. HasHeader(s) /\ EndsFinalized(s)
    BY <1>c, <2>1, <2>2 DEF LinkInv
  <2>10. s[1].key_id = cur.key_id /\ cur.last_hmac = ChainAfter(s[n])
    <3>1. \A m \in 2..n : s[m].kind = "record"
      BY <2>1, <2>7, <2>9 DEF Whole, HasHeader
    <3> QED BY <2>1, <2>2, <3>1 DEF IInv, WriterAgrees, Written
  <2>11. t[1].key_id = cur.key_id /\ t[1].prev_final = cur.last_hmac
    BY <2>2 DEF Header
  <2>12. Link(t, s)
    BY <2>1, <2>8, <2>9, <2>10, <2>11 DEF Link
  <2>13. \A j \in entries \ {0} : Linked(j)'
    BY <1>b, <2>1, <2>2, <2>3, <2>12, LinkOne
  <2> QED BY <1>q, <2>2, <2>13
<1>11. ASSUME Quiet PROVE LinkInv'
  <2>1. UNCHANGED <<file, entries>>
    BY <1>11, QuietEffect
  <2>2. dirSynced' = dirSynced \/ dirSynced' = entries
    BY <1>11 DEF Quiet, Ends, Errs, SyncFinalized, FlushFile, FlushDir, AppendCall, disk
  <2>3. \/ pc' \notin {"fin_sync", "create", "header", "open_create", "open_header"}
        \/ pc = "fin_sync" /\ cur' = cur
    BY <1>11 DEF Quiet, Ends, Errs, SyncFinalized, FlushFile, FlushDir, AppendCall
  <2>4. \A j \in entries \ {0} : Linked(j)'
    BY <1>0, <2>1 DEF Linked
  <2> QED BY <1>0, <2>1, <2>2, <2>3, <2>4 DEF LinkInv
<1>12. ASSUME UNCHANGED vars PROVE LinkInv'
  BY <1>12 DEF vars, LinkInv, Linked
<1> QED BY <1>1, <1>3, <1>4, <1>5, <1>7, <1>8, <1>9, <1>10, <1>11, <1>12, NextCases

\* What a power loss leaves has no gap, and a segment behind which another one has its
\* header was synced.
LEMMA LinkPower ==
  ASSUME IInv, DurableInv, LinkInv, PowerLoss
  PROVE  LinkInv'
<1>1. PICK limit \in 0..(MaxIndex + 1) : entries' = dirSynced \cup {j \in entries : j < limit}
  BY DEF PowerLoss
<1>2. pc' = "closed" /\ dirSynced' = entries'
  BY DEF PowerLoss
<1>3. entries \subseteq Idx /\ dirSynced \subseteq entries /\ file \in [Idx -> Seq(Chunk)]
  BY DEF IInv, TypeOK
<1>4. ASSUME NEW i \in entries', NEW j \in Idx, j < i
      PROVE  j \in entries'
  <2>1. i \in entries /\ i \in Idx
    BY <1>1, <1>3, <1>4
  <2>2. CASE i \in dirSynced
    BY <1>1, <1>4, <2>2 DEF LinkInv, Gapless
  <2>3. CASE i < limit
    <3>1. j < limit
      BY <1>4, <2>1, <2>3 DEF Idx
    <3>2. j \in entries
      BY <1>4, <2>1 DEF LinkInv, Gapless
    <3> QED BY <1>1, <3>1, <3>2
  <2> QED BY <1>1, <1>4, <2>2, <2>3
<1>5. Gapless(entries')
  BY <1>4 DEF Gapless
<1>6. ASSUME NEW i \in entries' \ {0}, HasHeader(file'[i])
      PROVE  i - 1 \in entries' /\ Link(file'[i], file'[i - 1])
  <2>0. i \in entries /\ i \in Idx /\ i - 1 \in Idx /\ i - 1 < i /\ i - 1 \in entries'
    <3>1. i \in entries /\ i \in Idx
      BY <1>1, <1>3, <1>6
    <3>2. i - 1 \in Idx /\ i - 1 < i
      BY <1>6, <3>1 DEF Idx
    <3> QED BY <1>4, <1>6, <3>1, <3>2
  <2>1. PICK s, t, p, u : s = file[i] /\ t = file'[i] /\ p = file[i - 1] /\ u = file'[i - 1]
    OBVIOUS
  <2>2. s \in Seq(Chunk) /\ p \in Seq(Chunk) /\ Len(s) \in Nat /\ Len(p) \in Nat
    BY <1>3, <2>0, <2>1
  <2>3. PICK n \in Nat : Survivor(s, t, n, synced[i])
    BY <1>6, <2>0, <2>1, PowerEffect
  <2>4. /\ n <= Len(s) /\ t \in Seq(Chunk) /\ (Len(t) = n \/ Len(t) = n + 1)
        /\ (\A m \in 1..n : t[m] = s[m]) /\ (Len(t) = n + 1 => t[n + 1].kind \in {"torn", "bad"})
    BY <2>3 DEF Survivor
  <2>5. t # << >> /\ t[1].kind = "header"
    BY <1>6, <2>1 DEF HasHeader
  <2>6. n >= 1
    BY <2>4, <2>5
  <2>7. t[1] = s[1] /\ s # << >>
    BY <2>2, <2>4, <2>6
  <2>8. HasHeader(s)
    BY <2>5, <2>7 DEF HasHeader
  <2>9. synced[i - 1] = Len(p)
    BY <2>0, <2>1, <2>8 DEF DurableInv
  <2>10. PICK q \in Nat : Survivor(p, u, q, synced[i - 1])
    BY <2>0, <2>1, PowerEffect
  <2>11. u = p
    <3>1. q <= Len(p) /\ (q < Len(p) => synced[i - 1] <= q) /\ (q = Len(p) => u = p)
      BY <2>10 DEF Survivor
    <3> QED BY <2>2, <2>9, <3>1
  <2>12. Link(s, p)
    BY <1>6, <2>0, <2>1, <2>8 DEF LinkInv, Linked
  <2> QED BY <2>0, <2>1, <2>7, <2>11, <2>12 DEF Link
<1>7. \A i \in entries' \ {0} : Linked(i)'
  BY <1>6 DEF Linked
<1> QED BY <1>2, <1>5, <1>7 DEF LinkInv

LEMMA LinkInvariance ==
  ASSUME FewSegments, WritesLand, PowerAlone
  PROVE  Spec => []LinkInv
<1>1. Init => LinkInv
  BY DEF Init, LinkInv, Gapless
<1>2. IInv /\ PlaceInv /\ RelyInv /\ LinkInv /\ [Next]_vars => LinkInv'
  <2> SUFFICES ASSUME IInv, PlaceInv, RelyInv, LinkInv, [Next]_vars PROVE LinkInv'
    OBVIOUS
  <2>1. CASE PowerLoss
    <3>1. "power_loss" \in Faults
      BY <2>1 DEF PowerLoss
    <3> QED BY <2>1, <3>1, LinkPower DEF RelyInv
  <2>2. CASE ~PowerLoss
    BY <2>2, LinkNext DEF RelyInv
  <2> QED BY <2>1, <2>2
<1> QED BY <1>1, <1>2, Invariance, PlaceInvariance, RelyInvariance, PTL DEF Spec

\* Under the same faults the log stays one chain: a segment with a header continues the
\* whole, finalized segment before it, across rollovers, restarts and power losses.
THEOREM LinkedCorrect ==
  ASSUME FewSegments, WritesLand, PowerAlone
  PROVE  Spec => []ChainLinked
<1>1. LinkInv => ChainLinked
  BY DEF LinkInv, Linked, Link, EndsFinalized, ChainLinked
<1> QED BY <1>1, LinkInvariance, PTL

-----------------------------------------------------------------------------
(* AuditWriter implements AuditLog. *)

\* What a scan accepts of a chained file is the whole part in front of its first chunk that
\* is no record.
LEMMA IntactIs ==
  ASSUME NEW s \in Seq(Chunk), NEW w \in Seq(Chunk), Chains(s), Holds(w, s), w # << >>,
         Len(w) < Len(s) => s[Len(w) + 1].kind # "record"
  PROVE  Intact(s) = w
<1>1. PICK t, z, n, k : t = Intact(s) /\ z = Len(t) /\ n = Len(w) /\ k = Len(s)
  OBVIOUS
<1>2. /\ t \in Seq(Chunk) /\ z \in Nat /\ z <= k /\ (\A j \in 1..z : t[j] = s[j])
      /\ \A j \in 2..z : s[j].kind = "record"
  BY <1>1, IntactKinds
<1>3. n \in Nat /\ k \in Nat /\ n <= k /\ (\A j \in 1..n : w[j] = s[j]) /\ n >= 1
  BY <1>1 DEF Holds, IsPrefixOf
<1>4. n <= z
  BY <1>1, WholeKept DEF Holds, IsPrefixOf
<1>5. z <= n
  <2> SUFFICES ASSUME n < z PROVE FALSE
    BY <1>2, <1>3
  <2>1. n + 1 \in 2..z /\ n < k
    BY <1>2, <1>3
  <2> QED BY <1>1, <1>2, <2>1
<1>6. z = n /\ \A j \in 1..n : t[j] = w[j]
  BY <1>2, <1>3, <1>4, <1>5
<1> QED BY <1>1, <1>2, <1>6, SeqEqual

\* A scan of what a scan left finds the same.
LEMMA IntactTwice ==
  ASSUME NEW s \in Seq(Chunk), Chains(s)
  PROVE  Intact(Intact(s)) = Intact(s)
<1>1. PICK t : t = Intact(s)
  OBVIOUS
<1>2. t \in Seq(Chunk) /\ IsPrefixOf(t, s) /\ Whole(t)
  BY <1>1, IntactPrefix, WholeIntact
<1>3. Chains(t) /\ IsPrefixOf(t, t) /\ ~(Len(t) < Len(t))
  BY <1>2, ChainsPrefix, PrefixRefl
<1>4. CASE t = << >>
  BY <1>1, <1>4, EmptyIntact
<1>5. CASE t # << >>
  <2>1. Intact(t) = t
    BY <1>2, <1>3, <1>5, IntactIs DEF Holds
  <2> QED BY <1>1, <2>1
<1> QED BY <1>4, <1>5

\* A sequence that has one element more.
LEMMA GrownByOne ==
  ASSUME NEW a \in Seq(Chunk), NEW t \in Seq(Chunk), NEW n \in Nat, NEW c \in Chunk,
         Len(t) = n, Len(a) = n - 1, t[n] = c, \A m \in 1..(n - 1) : t[m] = a[m]
  PROVE  t = Append(a, c)
<1>1. PICK b : b = Append(a, c)
  OBVIOUS
<1>2. b \in Seq(Chunk) /\ Len(b) = n /\ b[n] = c /\ \A m \in 1..(n - 1) : b[m] = a[m]
  BY <1>1
<1>3. \A m \in 1..n : m = n \/ m \in 1..(n - 1)
  OBVIOUS
<1>4. \A m \in 1..n : b[m] = t[m]
  BY <1>2, <1>3
<1>5. b = t
  BY <1>2, <1>4
<1> QED BY <1>1, <1>5

\* While a writer is open, callers were told exactly what a recovery would find.
ToldInv ==
  pc \notin {"closed", "genesis"} => \A i \in Idx : acked[i] = Intact(file[i])

\* That holds of the current segment whenever AckInv does.
LEMMA ToldCurrent ==
  ASSUME NEW s \in Seq(Chunk), NEW a \in Seq(Chunk), Chains(s), Holds(a, s), Len(a) >= 1,
         Len(a) = Len(s) \/ (Len(a) = Len(s) - 1 /\ s[Len(s)].kind = "torn")
  PROVE  Intact(s) = a
<1>1. Len(a) \in Nat /\ Len(s) \in Nat /\ a # << >>
  OBVIOUS
<1>2. Len(a) < Len(s) => s[Len(a) + 1].kind # "record"
  <2>1. Len(a) < Len(s) => Len(a) + 1 = Len(s) /\ s[Len(s)].kind = "torn"
    BY <1>1
  <2> QED BY <2>1
<1> QED BY <1>1, <1>2, IntactIs

LEMMA ToldNext ==
  ASSUME IInv, IInv', FewSegments, PlaceInv, AckInv, AckInv', ToldInv, [Next]_vars, ~PowerLoss
  PROVE  ToldInv'
<1>0. /\ file \in [Idx -> Seq(Chunk)] /\ acked \in [Idx -> Seq(Chunk)] /\ cur.index \in Idx
      /\ \A j \in Idx : Chains(file[j])
  BY DEF IInv, TypeOK, CurType, SegmentsChain
<1>c. ASSUME pc' \notin {"closed", "genesis"}
      PROVE  acked'[cur'.index] = Intact(file'[cur'.index])
  <2>1. PICK s, a, w : s = file'[cur'.index] /\ a = acked'[cur'.index] /\ w = Written'
    OBVIOUS
  <2>2. s \in Seq(Chunk) /\ a \in Seq(Chunk) /\ Chains(s)
    BY <2>1 DEF IInv, TypeOK, CurType, SegmentsChain
  <2>3. Holds(a, s) /\ Len(a) = w
    BY <1>c, <2>1 DEF AckInv, AckedSurvives, Holds, IInv, TypeOK, CurType
  <2>4. w >= 1 /\ (w = Len(s) \/ (w = Len(s) - 1 /\ s[Len(s)].kind = "torn"))
    BY <1>c, <2>1 DEF IInv, WriterAgrees, StepInv, Written
  <2> QED BY <2>1, <2>2, <2>3, <2>4, ToldCurrent
<1>q. ASSUME NEW i, cur'.index = i, \A j \in Idx : j # i => acked'[j] = Intact(file'[j])
      PROVE  ToldInv'
  BY <1>c, <1>q DEF ToldInv
<1>1. ASSUME NEW k \in Keys, OpenFresh(k) PROVE ToldInv'
  BY <1>1 DEF OpenFresh, ToldInv
<1>2. ASSUME NEW k \in Keys, NEW i \in Visible, Recovers(k, i) PROVE ToldInv'
  <2>1. i \in Idx /\ (\A j \in Idx : j # i => file'[j] = file[j]) /\ cur'.index = i
    BY <1>2, RecoverEffect DEF Recovers, StateOf
  <2>2. acked' = [j \in Idx |-> Relied(j)]
    BY <1>2 DEF Recovers, Recover
  <2>3. \A j \in Idx : j # i => acked'[j] = Intact(file'[j])
    BY <2>1, <2>2, ReliedIsIntact
  <2> QED BY <1>q, <2>1, <2>3
<1>3. ASSUME NEW k \in Keys, RepairFails(k) PROVE ToldInv'
  BY <1>3 DEF RepairFails, ToldInv
<1>4. ASSUME GenesisHeader PROVE ToldInv'
  <2>1. /\ \A j \in Idx : j # 0 => file'[j] = file[j]
        /\ cur'.index = 0 /\ acked' = [acked EXCEPT ![0] = file'[0]]
        /\ pc = "genesis" /\ 0 \in Idx
    BY <1>4, GenesisEffect
  <2>2. \A j \in Idx : j # 0 => file[j] = << >>
    <3>1. \A j \in Idx : j # 0 => j > 0
      BY DEF Idx
    <3> QED BY <2>1, <3>1 DEF PlaceInv
  <2>3. \A j \in Idx : j # 0 => acked'[j] = Intact(file'[j])
    <3>1. ASSUME NEW j \in Idx, j # 0 PROVE acked'[j] = << >> /\ file'[j] = << >>
      <4>1. acked[j] \in Seq(Chunk) /\ file[j] = << >> /\ IsPrefixOf(acked[j], file[j])
        BY <1>0, <2>2, <3>1 DEF AckInv, AckedSurvives
      <4>2. acked[j] = << >>
        BY <4>1, PrefixEmpty
      <4>3. acked'[j] = acked[j] /\ file'[j] = file[j]
        BY <1>0, <2>1, <3>1
      <4> QED BY <4>1, <4>2, <4>3
    <3> QED BY <3>1, EmptyIntact
  <2> QED BY <1>q, <2>1, <2>3
<1>5. ASSUME NEW i, cur'.index = i, pc \notin {"closed", "genesis"},
             \A j \in Idx : j # i => file'[j] = file[j] /\ acked'[j] = acked[j]
      PROVE  ToldInv'
  BY <1>5, <1>q DEF ToldInv
<1>6. ASSUME BeginWrite PROVE ToldInv'
  BY <1>5, <1>6, BeginEffect
<1>7. ASSUME FinishRecord \/ FinishFinalize PROVE ToldInv'
  <2>1. PICK d \in Datum, size \in Nat : AppendFramed(d, size) /\ pc \in {"rec_write", "fin_write"}
    BY <1>7, RecordEffect
  <2>2. PICK i : i = cur.index
    OBVIOUS
  <2>3. (\A j \in Idx : j # i => file'[j] = file[j]) /\ cur'.index = i
    BY <2>1, <2>2, FrameEffect
  <2>4. \A j \in Idx : j # i => acked'[j] = acked[j]
    BY <1>0, <2>1, <2>2 DEF AppendFramed
  <2> QED BY <1>5, <2>1, <2>3, <2>4
<1>8. ASSUME WriteHeader PROVE ToldInv'
  <2>1. PICK i : i = cur.index + 1
    OBVIOUS
  <2>2. /\ \A j \in Idx : j # i => file'[j] = file[j]
        /\ cur'.index = i /\ acked' = [acked EXCEPT ![i] = file'[i]] /\ pc \in {"header", "open_header"}
    BY <1>8, <2>1, HeaderEffect
  <2>3. \A j \in Idx : j # i => acked'[j] = acked[j]
    BY <1>0, <2>2
  <2> QED BY <1>5, <2>2, <2>3
<1>9. ASSUME CreateNext PROVE ToldInv'
  <2>1. PICK i : i = cur.index + 1
    OBVIOUS
  <2>2. /\ i \in Idx /\ cur.index \in Nat /\ file'[i] = << >> /\ \A j \in Idx : j # i => file'[j] = file[j]
        /\ acked' = acked /\ pc \in {"create", "open_create"}
    BY <1>9, <2>1, CreateEffect
  <2>3. file[i] = << >>
    BY <2>1, <2>2 DEF PlaceInv
  <2>4. \A j \in Idx : file'[j] = file[j]
    BY <2>2, <2>3
  <2> QED BY <2>2, <2>4 DEF ToldInv
<1>10. ASSUME Quiet PROVE ToldInv'
  <2>1. UNCHANGED <<file, acked>>
    BY <1>10, QuietEffect
  <2>2. pc' = "closed" \/ pc \notin {"closed", "genesis"}
    BY <1>10 DEF Quiet, Ends, Errs, SyncFinalized, FlushFile, FlushDir, AppendCall
  <2> QED BY <2>1, <2>2 DEF ToldInv
<1>11. ASSUME UNCHANGED vars PROVE ToldInv'
  BY <1>11 DEF vars, ToldInv
<1> QED BY <1>1, <1>2, <1>3, <1>4, <1>6, <1>7, <1>8, <1>9, <1>10, <1>11, NextCases

\* e is the caller's record at place p of the segment s with index i.
IsPlaced(e, i, p, s) == p \in Callers(s) /\ e = <<i, p, s[p].datum.input>>

LEMMA PlacedIn ==
  ASSUME NEW f, NEW e
  PROVE  e \in Placed(f) <=> \E i \in Idx : \E p \in Callers(f[i]) : IsPlaced(e, i, p, f[i])
  BY DEF Placed, IsPlaced

\* Segments with the same callers' records make the same log.
LEMMA PlacedSame ==
  ASSUME NEW f, NEW g,
         \A i \in Idx : /\ Callers(f[i]) = Callers(g[i])
                        /\ \A p \in Callers(f[i]) : f[i][p].datum.input = g[i][p].datum.input
  PROVE  Placed(f) = Placed(g)
<1>1. ASSUME NEW e PROVE e \in Placed(f) <=> e \in Placed(g)
  <2>1. \A i \in Idx : \A p : IsPlaced(e, i, p, f[i]) <=> IsPlaced(e, i, p, g[i])
    BY DEF IsPlaced
  <2> QED BY <2>1, PlacedIn DEF IsPlaced
<1> QED BY <1>1

LEMMA CallersShort ==
  ASSUME NEW s \in Seq(Chunk), Len(s) <= 1
  PROVE  Callers(s) = {}
  BY DEF Callers

LEMMA CallersAppend ==
  ASSUME NEW s \in Seq(Chunk), NEW c \in Chunk, Len(s) >= 1
  PROVE  /\ \A p \in 2..Len(s) : Append(s, c)[p] = s[p]
         /\ c.datum.input = NoInput => Callers(Append(s, c)) = Callers(s)
         /\ c.datum.input # NoInput => /\ Callers(Append(s, c)) = Callers(s) \cup {Len(s) + 1}
                                       /\ Append(s, c)[Len(s) + 1] = c
<1>1. PICK t, n : t = Append(s, c) /\ n = Len(s)
  OBVIOUS
<1>2. n \in Nat /\ n >= 1 /\ Len(t) = n + 1 /\ t[n + 1] = c /\ \A p \in 1..n : t[p] = s[p]
  BY <1>1
<1>3. /\ \A p \in 2..(n + 1) : p \in 2..n \/ p = n + 1
      /\ \A p \in 2..n : p \in 1..n /\ p \in 2..(n + 1)
      /\ n + 1 \in 2..(n + 1)
  BY <1>2
<1>4. \A p \in 2..n : t[p] = s[p]
  BY <1>2, <1>3
<1>5. c.datum.input = NoInput => Callers(t) = Callers(s)
  BY <1>1, <1>2, <1>3, <1>4 DEF Callers
<1>6. c.datum.input # NoInput => Callers(t) = Callers(s) \cup {n + 1}
  BY <1>1, <1>2, <1>3, <1>4 DEF Callers
<1> QED BY <1>1, <1>2, <1>4, <1>5, <1>6

\* The segments g are f with c behind the segment s, whose index is i.
OneMore(f, g, i, s, c) ==
  f[i] = s /\ g[i] = Append(s, c) /\ \A j \in Idx : j # i => g[j] = f[j]

\* A caller's record at the end of segment i is one record more.
LEMMA PlacedAppend ==
  ASSUME NEW f, NEW g, NEW i \in Idx, NEW c \in Chunk, NEW s \in Seq(Chunk), NEW new,
         OneMore(f, g, i, s, c), Len(s) >= 1,
         c.datum.input # NoInput, new = <<i, Len(s) + 1, c.datum.input>>
  PROVE  Placed(g) = Placed(f) \cup {new}
<1> USE DEF OneMore
<1>1. PICK t, n : s = f[i] /\ t = g[i] /\ n = Len(s) /\ new = <<i, n + 1, c.datum.input>>
  OBVIOUS
<1>2. /\ Callers(t) = Callers(s) \cup {n + 1} /\ t[n + 1] = c
      /\ \A p \in Callers(s) : t[p] = s[p]
  BY <1>1, CallersAppend DEF Callers
<1>3. \A e, p : IsPlaced(e, i, p, t) <=> IsPlaced(e, i, p, s) \/ (p = n + 1 /\ e = new)
  <2>1. n + 1 \notin Callers(s)
    <3>1. n \in Nat
      BY <1>1
    <3> QED BY <1>1, <3>1 DEF Callers
  <2> QED BY <1>1, <1>2, <2>1 DEF IsPlaced
<1>4. ASSUME NEW e PROVE e \in Placed(g) <=> e \in Placed(f) \/ e = new
  <2>1. e \in Placed(g) => e \in Placed(f) \/ e = new
    <3> SUFFICES ASSUME NEW j \in Idx, NEW p \in Callers(g[j]), IsPlaced(e, j, p, g[j])
                 PROVE  e \in Placed(f) \/ e = new
      BY PlacedIn
    <3>1. CASE j = i
      <4>1. IsPlaced(e, i, p, s) \/ e = new
        BY <1>1, <1>3, <3>1
      <4> QED BY <1>1, <4>1, PlacedIn DEF IsPlaced
    <3>2. CASE j # i
      BY <3>2, PlacedIn
    <3> QED BY <3>1, <3>2
  <2>2. e \in Placed(f) => e \in Placed(g)
    <3> SUFFICES ASSUME NEW j \in Idx, NEW p \in Callers(f[j]), IsPlaced(e, j, p, f[j])
                 PROVE  e \in Placed(g)
      BY PlacedIn
    <3>1. IsPlaced(e, j, p, g[j])
      BY <1>1, <1>3
    <3> QED BY <3>1, PlacedIn DEF IsPlaced
  <2>3. e = new => e \in Placed(g)
    <3>1. e = new => IsPlaced(e, i, n + 1, t)
      BY <1>3
    <3> QED BY <1>1, <3>1, PlacedIn DEF IsPlaced
  <2> QED BY <2>1, <2>2, <2>3
<1> QED BY <1>1, <1>4

\* The log and what of it is durable, as AuditLog sees them.
SameLog == Placed(Recovered)' = Placed(Recovered) /\ Placed(flushed)' = Placed(flushed)

\* Every step but a power loss appends a record, flushes, or changes nothing that a caller
\* of the library can see.
LEMMA ImplementsNext ==
  ASSUME IInv, FewSegments, PlaceInv, AckInv, ToldInv, ToldInv', [Next]_vars, ~PowerLoss
  PROVE  Abstract!LogNext \/ SameLog
<1>0. /\ file \in [Idx -> Seq(Chunk)] /\ acked \in [Idx -> Seq(Chunk)] /\ cur.index \in Idx
      /\ \A j \in Idx : Chains(file[j])
      /\ \A j \in Idx : Recovered[j] = Intact(file[j]) /\ Recovered'[j] = Intact(file'[j])
  BY DEF IInv, TypeOK, CurType, SegmentsChain, Recovered
<1>q. ASSUME flushed' = flushed, NEW i, \A j \in Idx : j # i => file'[j] = file[j],
             i \in Idx => /\ Callers(Intact(file'[i])) = Callers(Intact(file[i]))
                          /\ \A p \in Callers(Intact(file[i])) :
                               Intact(file'[i])[p].datum.input = Intact(file[i])[p].datum.input
      PROVE  SameLog
  <2>1. Placed(Recovered) = Placed(Recovered')
    <3>1. PICK f, g : f = Recovered /\ g = Recovered'
      OBVIOUS
    <3>2. \A j \in Idx : f[j] = Intact(file[j]) /\ g[j] = Intact(file'[j])
      BY <1>0, <3>1
    <3>3. ASSUME NEW j \in Idx
          PROVE  /\ Callers(f[j]) = Callers(g[j])
                 /\ \A p \in Callers(f[j]) : f[j][p].datum.input = g[j][p].datum.input
      <4>1. CASE j = i
        BY <1>q, <3>2, <4>1
      <4>2. CASE j # i
        BY <1>q, <3>2, <4>2
      <4> QED BY <4>1, <4>2
    <3> QED BY <3>1, <3>3, PlacedSame
  <2> QED BY <1>q, <2>1 DEF SameLog, Placed
<1>e. ASSUME flushed' = flushed, NEW i, \A j \in Idx : j # i => file'[j] = file[j],
             i \in Idx => file[i] = << >> /\ file'[i] \in Seq(Chunk) /\ Len(file'[i]) <= 1
      PROVE  SameLog
  <2>1. i \in Idx => Callers(Intact(file[i])) = {}
    <3>1. Callers(<< >>) = {}
      BY DEF Callers
    <3> QED BY <1>e, <3>1, EmptyIntact
  <2>2. i \in Idx => Callers(Intact(file'[i])) = {}
    <3> SUFFICES ASSUME i \in Idx PROVE Callers(Intact(file'[i])) = {}
      OBVIOUS
    <3>1. PICK t, u : t = file'[i] /\ u = Intact(t)
      OBVIOUS
    <3>2. t \in Seq(Chunk) /\ Len(t) <= 1
      BY <1>e, <3>1
    <3>3. u \in Seq(Chunk) /\ Len(u) \in Nat /\ Len(u) <= Len(t)
      BY <3>1, <3>2, IntactKinds
    <3>4. Len(u) <= 1
      BY <3>2, <3>3
    <3> QED BY <3>1, <3>3, <3>4, CallersShort
  <2> QED BY <1>e, <1>q, <2>1, <2>2
<1>c. ASSUME flushed' = flushed, NEW i \in Idx, \A j \in Idx : j # i => file'[j] = file[j],
             Intact(file'[i]) = Intact(file[i])
      PROVE  SameLog
  BY <1>c, <1>q
<1>1. ASSUME NEW k \in Keys, OpenFresh(k) PROVE SameLog
  <2>1. file' = [file EXCEPT ![0] = << >>] /\ flushed' = flushed /\ entries = {} /\ 0 \in Idx
    BY <1>1, VisibleAll DEF OpenFresh, Idx
  <2>2. file'[0] = << >> /\ \A j \in Idx : j # 0 => file'[j] = file[j]
    BY <1>0, <2>1
  <2>3. file[0] = << >>
    BY <2>1 DEF PlaceInv
  <2>4. file'[0] \in Seq(Chunk) /\ Len(file'[0]) <= 1
    BY <2>2
  <2> QED BY <1>e, <2>1, <2>2, <2>3, <2>4
<1>2. ASSUME NEW k \in Keys, NEW i \in Visible, Recovers(k, i) PROVE SameLog
  <2>1. /\ i \in Idx /\ file'[i] = Intact(file[i]) /\ \A j \in Idx : j # i => file'[j] = file[j]
        /\ flushed' = flushed
    BY <1>2, RecoverEffect DEF Recovers
  <2>2. Intact(file'[i]) = Intact(file[i])
    BY <1>0, <2>1, IntactTwice
  <2> QED BY <1>c, <2>1, <2>2
<1>3. ASSUME NEW k \in Keys, RepairFails(k) PROVE SameLog
  <2>1. PICK i \in Visible : file' = [file EXCEPT ![i] = Intact(file[i])] /\ flushed' = flushed
    BY <1>3 DEF RepairFails
  <2>2. i \in Idx
    BY DEF Visible, IInv, TypeOK
  <2>3. file'[i] = Intact(file[i]) /\ \A j \in Idx : j # i => file'[j] = file[j]
    BY <1>0, <2>1, <2>2
  <2>4. Intact(file'[i]) = Intact(file[i])
    BY <1>0, <2>2, <2>3, IntactTwice
  <2> QED BY <1>c, <2>1, <2>2, <2>3, <2>4
<1>4. ASSUME GenesisHeader PROVE SameLog
  <2>1. /\ file'[0] \in Seq(Chunk) /\ Len(file'[0]) = 1 /\ \A j \in Idx : j # 0 => file'[j] = file[j]
        /\ flushed' = flushed /\ pc = "genesis"
    BY <1>4, GenesisEffect
  <2>2. file[0] = << >> /\ Len(file'[0]) <= 1
    BY <2>1 DEF PlaceInv
  <2> QED BY <1>e, <2>1, <2>2
<1>5. ASSUME CreateNext \/ WriteHeader PROVE SameLog
  <2>1. PICK i : i = cur.index + 1
    OBVIOUS
  <2>2. /\ i \in Idx /\ cur.index \in Nat /\ file'[i] \in Seq(Chunk) /\ Len(file'[i]) <= 1
        /\ \A j \in Idx : j # i => file'[j] = file[j]
        /\ flushed' = flushed
        /\ pc \in {"create", "open_create", "header", "open_header"}
    <3>1. CASE CreateNext
      <4>1. file'[i] = << >>
        BY <2>1, <3>1, CreateEffect
      <4>2. file'[i] \in Seq(Chunk) /\ Len(file'[i]) <= 1
        BY <4>1
      <4> QED BY <2>1, <3>1, <4>2, CreateEffect
    <3>2. CASE WriteHeader
      <4>1. Len(file'[i]) = 1 /\ file'[i] \in Seq(Chunk)
        BY <2>1, <3>2, HeaderEffect
      <4>2. Len(file'[i]) <= 1
        BY <4>1
      <4> QED BY <2>1, <3>2, <4>1, <4>2, HeaderEffect
    <3> QED BY <1>5, <3>1, <3>2
  <2>3. file[i] = << >>
    BY <2>1, <2>2 DEF PlaceInv
  <2> QED BY <1>e, <2>2, <2>3
<1>6. ASSUME BeginWrite PROVE SameLog
  <2>1. PICK i : i = cur.index
    OBVIOUS
  <2>2. /\ \A j \in Idx : j # i => file'[j] = file[j]
        /\ pc \in {"fin", "rec"} /\ pc' \in {"fin_write", "rec_write"} /\ UNCHANGED <<acked, flushed>>
    BY <1>6, <2>1, BeginEffect
  <2>3. Intact(file'[i]) = Intact(file[i])
    BY <1>0, <2>1, <2>2 DEF ToldInv
  <2> QED BY <1>0, <1>c, <2>1, <2>2, <2>3
<1>7. ASSUME FinishRecord \/ FinishFinalize PROVE Abstract!LogNext \/ SameLog
  <2>0. PICK d \in Datum, size \in Nat :
          /\ AppendFramed(d, size) /\ pc \in {"rec_write", "fin_write"} /\ pc' \in {"ready", "fin_sync"}
          /\ (d.input \in Inputs \/ d.input = NoInput)
          /\ flushed' = flushed
    BY <1>7, RecordEffect
  <2>a. PICK i, a, t, n : i = cur.index /\ a = acked[i] /\ t = file'[i] /\ n = Len(t)
    OBVIOUS
  <2>b. PICK c : c = t[n]
    OBVIOUS
  <2>1. i = cur.index /\ a = acked[i] /\ t = file'[i] /\ n = Len(t) /\ c = t[n]
    BY <2>a, <2>b
  <2>2. /\ i \in Idx /\ n \in Nat /\ n >= 2 /\ t \in Seq(Chunk) /\ Len(file[i]) = n
        /\ c = Record(d, cur.last_hmac, cur.bytes_written + size)
        /\ \A j \in Idx : j # i => file'[j] = file[j]
    BY <2>0, <2>1, FrameEffect
  <2>3. acked' = [acked EXCEPT ![i] = t] /\ \A m \in 1..(n - 1) : t[m] = file[i][m]
    BY <2>0, <2>1, <2>2, FrameEffect
  <2>4. /\ a \in Seq(Chunk) /\ Len(a) = n - 1 /\ a = Intact(file[i]) /\ Append(a, c) = Intact(t)
    <3>0. a \in Seq(Chunk) /\ acked'[i] = t
      BY <1>0, <2>1, <2>2, <2>3
    <3>2. Len(a) = n - 1 /\ IsPrefixOf(a, file[i])
      BY <2>0, <2>1, <2>2 DEF AckInv, AckedSurvives, Written
    <3>1. a \in Seq(Chunk) /\ acked'[i] = Append(a, c)
      <4>1. \A m \in 1..(n - 1) : t[m] = a[m]
        BY <2>2, <2>3, <3>2 DEF IsPrefixOf
      <4>2. n \in 1..n
        BY <2>2
      <4>3. n \in 1..Len(t) /\ t \in Seq(Chunk)
        BY <2>1, <2>2, <4>2
      <4>4. t[n] \in Chunk
        BY <4>3, ElementOfSeq
      <4>5. c \in Chunk /\ t[n] = c
        BY <2>1, <4>4
      <4>6. t \in Seq(Chunk) /\ n \in Nat /\ Len(t) = n
        BY <2>1, <2>2
      <4>7. t = Append(a, c)
        BY <3>0, <3>2, <4>1, <4>5, <4>6, GrownByOne
      <4> QED BY <3>0, <4>7
    <3>3. a = Intact(file[i]) /\ acked'[i] = Intact(t)
      BY <2>0, <2>1, <2>2 DEF ToldInv
    <3> QED BY <3>1, <3>2, <3>3
  <2>5. c \in Chunk /\ c.datum.input = d.input
    <3>1. n \in 1..Len(t)
      BY <2>1, <2>2
    <3>2. t \in Seq(Chunk)
      BY <2>2
    <3>3. t[n] \in Chunk
      BY <3>1, <3>2, ElementOfSeq
    <3> QED BY <2>1, <2>2, <3>3 DEF Record
  <2>6. Len(a) >= 1
    BY <2>2, <2>4
  <2>7. CASE d.input = NoInput
    <3>1. Callers(Append(a, c)) = Callers(a) /\ \A p \in 2..Len(a) : Append(a, c)[p] = a[p]
      BY <2>4, <2>5, <2>6, <2>7, CallersAppend
    <3>2. /\ Callers(Intact(file'[i])) = Callers(Intact(file[i]))
          /\ \A p \in Callers(Intact(file[i])) :
               Intact(file'[i])[p].datum.input = Intact(file[i])[p].datum.input
      <4>1. Intact(file'[i]) = Append(a, c) /\ Intact(file[i]) = a
        BY <2>1, <2>4
      <4>2. \A p \in Callers(a) : p \in 2..Len(a)
        BY DEF Callers
      <4>3. \A p \in Callers(a) : Append(a, c)[p].datum.input = a[p].datum.input
        BY <3>1, <4>2, Zenon
      <4> QED BY <3>1, <4>1, <4>3, Zenon
    <3> QED BY <1>q, <2>0, <2>2, <3>2
  <2>8. CASE d.input \in Inputs
    <3>1. PICK f, g, e : f = Recovered /\ g = Recovered' /\ e = <<i, n, d.input>>
      OBVIOUS
    <3>2. f[i] = a /\ g[i] = Append(a, c) /\ \A j \in Idx : j # i => g[j] = f[j]
      <4>1. \A j \in Idx : f[j] = Intact(file[j]) /\ g[j] = Intact(file'[j])
        BY <1>0, <3>1
      <4>2. f[i] = a /\ g[i] = Append(a, c)
        BY <2>1, <2>2, <2>4, <4>1
      <4>3. \A j \in Idx : j # i => g[j] = f[j]
        BY <2>2, <4>1
      <4> QED BY <4>2, <4>3
    <3>3. c.datum.input # NoInput /\ Len(a) + 1 = n
      BY <2>2, <2>4, <2>5, <2>8
    <3>4. e = <<i, Len(a) + 1, c.datum.input>>
      BY <2>5, <3>1, <3>3
    <3>5. Placed(g) = Placed(f) \cup {e}
      <4>1. i \in Idx /\ c \in Chunk /\ a \in Seq(Chunk) /\ Len(a) >= 1
        BY <2>2, <2>4, <2>5, <2>6
      <4>2. OneMore(f, g, i, a, c)
        BY <3>2 DEF OneMore
      <4> QED BY <3>3, <3>4, <4>1, <4>2, PlacedAppend
    <3>6. ASSUME NEW r \in Placed(f) PROVE Abstract!Precedes(r, e)
      <4>1. PICK j \in Idx : \E p \in Callers(f[j]) : IsPlaced(r, j, p, f[j])
        BY PlacedIn
      <4>a. PICK p \in Callers(f[j]) : r = <<j, p, f[j][p].datum.input>>
        BY <4>1 DEF IsPlaced
      <4>2. r[1] = j /\ r[2] = p /\ e[1] = i /\ e[2] = n
        BY <3>1, <4>a
      <4>3. p \in 2..Len(f[j])
        BY DEF Callers
      <4>4. CASE j = i
        <5>1. p < n
          BY <2>2, <2>4, <3>2, <4>3, <4>4
        <5> QED BY <4>2, <4>4, <5>1 DEF Abstract!Precedes
      <4>5. CASE j # i
        <5>1. j > i => file[j] = << >>
          BY <2>0, <2>1 DEF PlaceInv
        <5>2. j > i => f[j] = << >>
          BY <1>0, <3>1, <5>1, EmptyIntact
        <5>3. ~(j > i)
          BY <4>3, <5>2
        <5>4. j < i
          BY <2>2, <4>5, <5>3 DEF Idx
        <5> QED BY <4>2, <5>4 DEF Abstract!Precedes
      <4> QED BY <4>4, <4>5
    <3>7. e \notin Placed(f)
      <4>1. e[1] = i /\ e[2] = n /\ ~(n < n) /\ ~(i < i)
        <5>1. i \in Nat
          BY <2>2 DEF Idx
        <5> QED BY <2>2, <3>1, <5>1
      <4>2. ~Abstract!Precedes(e, e)
        BY <4>1 DEF Abstract!Precedes
      <4> QED BY <3>6, <4>2
    <3>8. e \in Abstract!PlacedRecords
      <4>1. i \in Nat
        BY <2>2 DEF Idx
      <4> QED BY <2>2, <2>8, <3>1, <4>1 DEF Abstract!PlacedRecords
    <3>9. Placed(Recovered)' = Placed(g) /\ Placed(flushed)' = Placed(flushed)
      BY <2>0, <3>1 DEF Placed
    <3>10. Abstract!LogAppend
      BY <3>1, <3>5, <3>6, <3>7, <3>8, <3>9 DEF Abstract!LogAppend
    <3> QED BY <3>10 DEF Abstract!LogNext
  <2> QED BY <2>0, <2>7, <2>8
<1>8. ASSUME FlushDir PROVE Abstract!LogNext
  <2>1. pc = "flush_dir" /\ flushed' = acked /\ file' = file
    BY <1>8 DEF FlushDir
  <2>2. \A j \in Idx : acked[j] = Recovered[j]
    BY <1>0, <2>1 DEF ToldInv
  <2>3. Placed(flushed)' = Placed(Recovered)
    <3>1. Placed(acked) = Placed(Recovered)
      BY <2>2, PlacedSame
    <3> QED BY <2>1, <3>1 DEF Placed
  <2>4. Placed(Recovered)' = Placed(Recovered)
    BY <2>1 DEF Placed, Recovered
  <2> QED BY <2>3, <2>4 DEF Abstract!LogNext, Abstract!LogFlush
<1>9. ASSUME Ends \/ Errs \/ SyncFinalized \/ FlushFile \/ \E v \in Inputs : AppendCall(v)
      PROVE  SameLog
  <2>1. file' = file /\ flushed' = flushed
    BY <1>9 DEF Ends, Errs, SyncFinalized, FlushFile, AppendCall, disk
  <2> QED BY <2>1 DEF SameLog, Placed, Recovered
<1>10. ASSUME UNCHANGED vars PROVE SameLog
  BY <1>10 DEF vars, SameLog, Placed, Recovered
<1> QED BY <1>1, <1>2, <1>3, <1>4, <1>5, <1>6, <1>7, <1>8, <1>9, <1>10, NextCases DEF Quiet

\* What recovery finds in a file that survived a power loss is the front of what it would
\* have found before.
LEMMA SurvivorIntact ==
  ASSUME NEW s \in Seq(Chunk), NEW t, NEW n \in Nat, NEW y, Chains(s), Survivor(s, t, n, y)
  PROVE  IsPrefixOf(Intact(t), Intact(s))
<1>1. /\ t \in Seq(Chunk) /\ n <= Len(s) /\ (Len(t) = n \/ Len(t) = n + 1)
      /\ (\A m \in 1..n : t[m] = s[m]) /\ (Len(t) = n + 1 => t[n + 1].kind \in {"torn", "bad"})
  BY DEF Survivor
<1>2. PICK u, z : u = Intact(t) /\ z = Len(u)
  OBVIOUS
<1>3. /\ u \in Seq(Chunk) /\ z \in Nat /\ z <= Len(t) /\ (\A j \in 1..z : u[j] = t[j])
      /\ (u # << >> => t[1].kind = "header") /\ (\A j \in 2..z : t[j].kind = "record")
      /\ Whole(u)
  BY <1>1, <1>2, IntactKinds, WholeIntact
<1>4. z <= n
  <2> SUFFICES ASSUME ~(z <= n) PROVE FALSE
    OBVIOUS
  <2>1. z = n + 1 /\ Len(t) = n + 1
    BY <1>1, <1>3
  <2>2. CASE n = 0
    <3>0. n + 1 = 1 /\ Len(u) # 0
      BY <1>2, <2>1, <2>2
    <3>1. u # << >> /\ n + 1 = 1
      BY <3>0
    <3> QED BY <1>1, <1>3, <2>1, <3>1
  <2>3. CASE n # 0
    <3>1. n + 1 \in 2..z
      BY <2>1, <2>3
    <3> QED BY <1>1, <1>3, <2>1, <3>1
  <2> QED BY <2>2, <2>3
<1>5. IsPrefixOf(u, s)
  <2>1. z <= Len(s) /\ \A j \in 1..z : u[j] = s[j]
    BY <1>1, <1>3, <1>4
  <2> QED BY <1>2, <2>1 DEF IsPrefixOf
<1> QED BY <1>2, <1>3, <1>5, WholeKept

LEMMA PlacedFront ==
  ASSUME NEW f, NEW g, NEW i \in Idx, f[i] \in Seq(Chunk), g[i] \in Seq(Chunk),
         IsPrefixOf(f[i], g[i])
  PROVE  /\ \A e, p : IsPlaced(e, i, p, f[i]) => IsPlaced(e, i, p, g[i])
         /\ \A e, p : IsPlaced(e, i, p, g[i]) /\ p <= Len(f[i]) => IsPlaced(e, i, p, f[i])
<1>1. PICK s, t, m, n : s = f[i] /\ t = g[i] /\ m = Len(s) /\ n = Len(t)
  OBVIOUS
<1>2. m \in Nat /\ n \in Nat /\ m <= n /\ \A j \in 1..m : s[j] = t[j]
  BY <1>1 DEF IsPrefixOf
<1>3. \A p \in 2..m : p \in 2..n /\ s[p] = t[p]
  BY <1>2
<1>4. \A p \in 2..n : p <= m => p \in 2..m
  BY <1>2
<1>5. \A e, p : IsPlaced(e, i, p, s) => IsPlaced(e, i, p, t)
  BY <1>1, <1>3 DEF IsPlaced, Callers
<1>6. \A e, p : IsPlaced(e, i, p, t) /\ p <= m => IsPlaced(e, i, p, s)
  BY <1>1, <1>3, <1>4 DEF IsPlaced, Callers
<1> QED BY <1>1, <1>5, <1>6

\* A power loss takes a tail of the log away, and nothing of what was durable.
LEMMA ImplementsPower ==
  ASSUME IInv, IInv', DurableInv, LinkInv, LinkInv', FlushInv', PowerLoss
  PROVE  Abstract!LogNext
<1>1. PICK f, g, h : f = Recovered /\ g = Recovered' /\ h = flushed
  OBVIOUS
<1>2. flushed' = h /\ flushed = h
  BY <1>1 DEF PowerLoss
<1>3. /\ file \in [Idx -> Seq(Chunk)] /\ file' \in [Idx -> Seq(Chunk)]
      /\ h \in [Idx -> Seq(Chunk)]
      /\ \A i \in Idx : Chains(file[i]) /\ Chains(file'[i])
  BY <1>1 DEF IInv, TypeOK, SegmentsChain
<1>4. \A i \in Idx : f[i] = Intact(file[i]) /\ g[i] = Intact(file'[i])
  BY <1>1 DEF Recovered
<1>5. \A i \in Idx : f[i] \in Seq(Chunk) /\ g[i] \in Seq(Chunk) /\ h[i] \in Seq(Chunk)
  BY <1>3, <1>4, IntactKinds
<1>6. ASSUME NEW i \in Idx PROVE IsPrefixOf(g[i], f[i])
  <2>1. CASE i \in entries'
    <3>1. PICK n \in Nat : Survivor(file[i], file'[i], n, synced[i])
      BY <2>1, PowerEffect
    <3> QED BY <1>3, <1>4, <3>1, SurvivorIntact
  <2>2. CASE i \notin entries'
    <3>1. g[i] = << >>
      BY <1>4, <2>2, PowerEffect, EmptyIntact
    <3> QED BY <1>5, <3>1, PrefixEmpty
  <2> QED BY <2>1, <2>2
<1>7. ASSUME NEW i \in Idx PROVE IsPrefixOf(h[i], g[i])
  <2>1. IsPrefixOf(h[i], file'[i]) /\ Whole(h[i])
    BY <1>2 DEF FlushInv, Holds
  <2> QED BY <1>3, <1>4, <1>5, <2>1, WholeKept
<1>8. ASSUME NEW i \in Idx, NEW j \in Idx, i < j, g[j] # << >> PROVE g[i] = f[i]
  <2>1. j \in entries'
    BY <1>4, <1>8, PowerEffect, EmptyIntact
  <2>2. i \in entries'
    BY <1>8, <2>1 DEF LinkInv, Gapless
  <2>3. HasHeader(file[j])
    <3>1. IsPrefixOf(g[j], f[j]) /\ f[j] \in Seq(Chunk) /\ g[j] \in Seq(Chunk)
      BY <1>5, <1>6
    <3>2. f[j] # << >>
      BY <1>8, <3>1, PrefixEmpty
    <3>3. file[j] \in Seq(Chunk) /\ Intact(file[j]) # << >>
      BY <1>3, <1>4, <3>2
    <3> QED BY <3>3, IntactKinds, EmptyIntact DEF HasHeader
  <2>4. synced[i] = Len(file[i])
    BY <1>8, <2>3 DEF DurableInv
  <2>5. PICK n \in Nat : Survivor(file[i], file'[i], n, synced[i])
    BY <2>2, PowerEffect
  <2>6. file'[i] = file[i]
    <3>1. PICK s, t, y : s = file[i] /\ t = file'[i] /\ y = synced[i]
      OBVIOUS
    <3>2. n <= Len(s) /\ (n < Len(s) => y <= n) /\ (n = Len(s) => t = s)
      BY <2>5, <3>1 DEF Survivor
    <3>3. Len(s) \in Nat /\ y = Len(s)
      BY <1>3, <2>4, <3>1
    <3>4. t = s
      BY <3>2, <3>3
    <3> QED BY <3>1, <3>4
  <2> QED BY <1>4, <2>6
<1>9. Placed(g) \subseteq Placed(f)
  <2> SUFFICES ASSUME NEW e \in Placed(g) PROVE e \in Placed(f)
    OBVIOUS
  <2>1. PICK i \in Idx : \E p \in Callers(g[i]) : IsPlaced(e, i, p, g[i])
    BY PlacedIn
  <2>2. PICK p : IsPlaced(e, i, p, g[i])
    BY <2>1
  <2>3. IsPlaced(e, i, p, f[i])
    BY <1>5, <1>6, <2>2, PlacedFront
  <2> QED BY <2>3, PlacedIn DEF IsPlaced
<1>10. Placed(h) \subseteq Placed(g)
  <2> SUFFICES ASSUME NEW e \in Placed(h) PROVE e \in Placed(g)
    OBVIOUS
  <2>1. PICK i \in Idx : \E p \in Callers(h[i]) : IsPlaced(e, i, p, h[i])
    BY PlacedIn
  <2>2. PICK p : IsPlaced(e, i, p, h[i])
    BY <2>1
  <2>3. IsPlaced(e, i, p, g[i])
    BY <1>5, <1>7, <2>2, PlacedFront
  <2> QED BY <2>3, PlacedIn DEF IsPlaced
<1>11. ASSUME NEW e \in Placed(g), NEW r \in Placed(f), Abstract!Precedes(r, e)
       PROVE  r \in Placed(g)
  <2>1. PICK j \in Idx : \E q \in Callers(g[j]) : IsPlaced(e, j, q, g[j])
    BY PlacedIn
  <2>2. PICK q : IsPlaced(e, j, q, g[j])
    BY <2>1
  <2>3. PICK i \in Idx : \E p \in Callers(f[i]) : IsPlaced(r, i, p, f[i])
    BY PlacedIn
  <2>4. PICK p : IsPlaced(r, i, p, f[i])
    BY <2>3
  <2>5. q \in 2..Len(g[j]) /\ p \in 2..Len(f[i])
    BY <2>2, <2>4 DEF IsPlaced, Callers
  <2>6. e[1] = j /\ e[2] = q /\ r[1] = i /\ r[2] = p
    <3>1. e = <<j, q, g[j][q].datum.input>> /\ r = <<i, p, f[i][p].datum.input>>
      BY <2>2, <2>4 DEF IsPlaced
    <3> QED BY <3>1
  <2>7. i < j \/ (i = j /\ p < q)
    BY <1>11, <2>6 DEF Abstract!Precedes
  <2>8. CASE i < j
    <3>1. g[j] # << >>
      BY <2>5
    <3>2. IsPlaced(r, i, p, g[i])
      BY <1>8, <2>4, <2>8, <3>1
    <3> QED BY <3>2, PlacedIn DEF IsPlaced
  <2>9. CASE i = j /\ p < q
    <3>1. Len(g[i]) \in Nat
      BY <1>5
    <3>2. p <= Len(g[i])
      BY <2>5, <2>9, <3>1
    <3>3. IsPlaced(r, i, p, g[i])
      BY <1>5, <1>6, <2>4, <3>2, PlacedFront
    <3> QED BY <3>3, PlacedIn DEF IsPlaced
  <2> QED BY <2>7, <2>8, <2>9
<1>12. /\ Placed(Recovered) = Placed(f) /\ Placed(Recovered)' = Placed(g)
       /\ Placed(flushed) = Placed(h) /\ Placed(flushed)' = Placed(h)
  BY <1>1, <1>2 DEF Placed
<1>13. Abstract!LogLose
  BY <1>9, <1>10, <1>11, <1>12 DEF Abstract!LogLose
<1> QED BY <1>13 DEF Abstract!LogNext

LEMMA ToldInvariance ==
  ASSUME FewSegments, WritesLand, PowerAlone
  PROVE  Spec => []ToldInv
<1>1. Init => ToldInv
  BY DEF Init, ToldInv
<1>2. IInv /\ IInv' /\ PlaceInv /\ RelyInv /\ RelyInv' /\ ToldInv /\ [Next]_vars => ToldInv'
  <2> SUFFICES ASSUME IInv, IInv', PlaceInv, RelyInv, RelyInv', ToldInv, [Next]_vars PROVE ToldInv'
    OBVIOUS
  <2>1. CASE PowerLoss
    BY <2>1 DEF PowerLoss, ToldInv
  <2>2. CASE ~PowerLoss
    BY <2>2, ToldNext DEF RelyInv
  <2> QED BY <2>1, <2>2
<1> QED BY <1>1, <1>2, Invariance, PlaceInvariance, RelyInvariance, PTL DEF Spec

\* Under the same faults the segment files implement one append-only log with a durable
\* prefix: append adds one record behind all others, flush makes everything durable, a power
\* loss takes an unflushed tail, and opening, repairing, rolling over and failing show nothing.
THEOREM ImplementsCorrect ==
  ASSUME FewSegments, WritesLand, PowerAlone
  PROVE  Spec => ImplementsAuditLog
<1>1. Init => Abstract!LogInit
  <2> SUFFICES ASSUME Init PROVE Abstract!LogInit
    OBVIOUS
  <2>1. \A i \in Idx : Recovered[i] = << >> /\ flushed[i] = << >>
    BY EmptyIntact DEF Init, Recovered
  <2>2. Callers(<< >>) = {}
    BY DEF Callers
  <2> QED BY <2>1, <2>2 DEF Abstract!LogInit, Placed
<1>2. ASSUME IInv, IInv', PlaceInv, RelyInv, RelyInv', LinkInv, LinkInv', ToldInv, ToldInv',
             [Next]_vars
      PROVE  Abstract!LogNext \/ SameLog
  <2>1. CASE PowerLoss
    <3>1. "power_loss" \in Faults
      BY <2>1 DEF PowerLoss
    <3> QED BY <1>2, <2>1, <3>1, ImplementsPower DEF RelyInv
  <2>2. CASE ~PowerLoss
    BY <1>2, <2>2, ImplementsNext DEF RelyInv
  <2> QED BY <2>1, <2>2
<1>3. IInv /\ IInv' /\ PlaceInv /\ RelyInv /\ RelyInv' /\ LinkInv /\ LinkInv' /\ ToldInv /\ ToldInv'
        /\ [Next]_vars => [Abstract!LogNext]_<<Placed(Recovered), Placed(flushed)>>
  BY <1>2 DEF SameLog
<1> QED BY <1>1, <1>3, Invariance, PlaceInvariance, RelyInvariance, LinkInvariance, ToldInvariance,
           PTL DEF Spec, ImplementsAuditLog, Abstract!LogSpec
=============================================================================
