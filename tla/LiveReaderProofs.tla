--------------------------- MODULE LiveReaderProofs ---------------------------
(***************************************************************************)
(* What a RecordIterator returns while a Writer works in its directory,    *)
(* for every value of the constants and every failure short of a power     *)
(* loss.                                                                   *)
(***************************************************************************)
EXTENDS LiveReader, AuditWriterProofs

USE WriterAssumption

\* The reader leaves the writer alone: what holds of the writer holds here.
LEMMA LiveWriter == LiveSpec => Spec
<1>1. LiveInit => Init
  BY DEF LiveInit
<1>2. [LiveNext]_lvars => [Next]_vars
  BY DEF LiveNext, WriterNext, ReaderNext, lvars
<1> QED BY <1>1, <1>2, PTL DEF LiveSpec, Spec

LEMMA NoPowerLoss == ~PowerLoss
  BY ReaderAssumption DEF PowerLoss

\* Which step of next_record is next says how far the iterator is.
CallInv ==
  /\ rpc \in {"header", "stat", "exists", "read"} => ropen
  /\ rpc \in {"stat", "exists", "read"} => rhdr
  /\ rpc = "header" => ~rhdr
  /\ ropen /\ ~rhdr => roff = 1

ReadInv == ReaderTypeOK /\ CallInv

\* A record at the offset, as ReadRecord appends it.
LEMMA AtRecordType ==
  ASSUME IInv, ReadInv, rpc = "read", AtRecord
  PROVE  /\ rseg \in Idx /\ roff \in Nat /\ roff >= 1 /\ ropen /\ rhdr
         /\ roff < Len(file[rseg]) /\ file[rseg][roff + 1].kind = "record"
         /\ file[rseg] \in Seq(Chunk)
         /\ <<rseg, roff + 1, file[rseg][roff + 1]>> \in Idx \X Nat \X Chunk
<1>1. ropen /\ rhdr /\ roff \in Nat /\ roff >= 1 /\ rseg \in entries
  BY DEF ReadInv, CallInv, ReaderTypeOK
<1>2. rseg \in Idx /\ file[rseg] \in Seq(Chunk)
  BY <1>1 DEF IInv, TypeOK
<1>3. roff < Len(file[rseg]) /\ file[rseg][roff + 1].kind = "record"
  BY DEF AtRecord
<1>4. roff + 1 \in 1..Len(file[rseg])
  BY <1>1, <1>2, <1>3
<1>5. file[rseg][roff + 1] \in Chunk
  BY <1>2, <1>4, ElementOfSeq
<1> QED BY <1>1, <1>2, <1>3, <1>5

LEMMA ReadNext ==
  ASSUME IInv, ReadInv, [LiveNext]_lvars
  PROVE  ReadInv'
<1>1. CASE [Next]_vars /\ UNCHANGED rvars
  <2>1. entries \subseteq entries'
    BY <1>1, NoPowerLoss, EntriesGrow
  <2> QED BY <1>1, <2>1 DEF ReadInv, ReaderTypeOK, CallInv, rvars
<1>2. CASE NextRecord /\ UNCHANGED vars
  BY <1>2 DEF NextRecord, ReadInv, ReaderTypeOK, CallInv, ReaderSteps, vars
<1>3. CASE OpenSegment /\ UNCHANGED vars
  <2>1. CASE rseg + 1 \in entries
    <3>1. rseg + 1 \in Idx
      BY <2>1 DEF IInv, TypeOK
    <3>2. rseg + 1 \in -1..MaxIndex
      BY <3>1 DEF Idx
    <3>3. /\ rseg' = rseg + 1 /\ ropen' = TRUE /\ rhdr' = FALSE /\ roff' = 1 /\ rpc' = "header"
          /\ UNCHANGED <<rtorn, yielded, entries>>
      BY <1>3, <2>1 DEF OpenSegment, vars
    <3>4. CallInv'
      BY <3>3 DEF CallInv
    <3>5. rpc' \in ReaderSteps /\ rhdr' \in BOOLEAN /\ ropen' \in BOOLEAN /\ (rhdr' => ropen')
      BY <3>3 DEF ReaderSteps
    <3>6. rseg' \in -1..MaxIndex /\ rseg' \in entries' /\ roff' \in Nat /\ roff' >= 1
      BY <2>1, <3>2, <3>3
    <3>7. rtorn' \in BOOLEAN /\ yielded' \in Seq(Idx \X Nat \X Chunk)
      BY <3>3 DEF ReadInv, ReaderTypeOK
    <3> QED BY <3>4, <3>5, <3>6, <3>7 DEF ReadInv, ReaderTypeOK
  <2>2. CASE rseg + 1 \notin entries
    BY <1>3, <2>2 DEF OpenSegment, ReadInv, ReaderTypeOK, CallInv, ReaderSteps, vars
  <2> QED BY <2>1, <2>2
<1>4. CASE ReadHeader /\ UNCHANGED vars
  <2>1. HasHeader(file[rseg]) \in BOOLEAN
    BY DEF HasHeader
  <2> QED BY <1>4, <2>1 DEF ReadHeader, ReadInv, ReaderTypeOK, CallInv, ReaderSteps, vars
<1>5. CASE StatLength /\ UNCHANGED vars
  BY <1>5 DEF StatLength, ReadInv, ReaderTypeOK, CallInv, ReaderSteps, vars
<1>6. CASE CheckNextSegment /\ UNCHANGED vars
  BY <1>6 DEF CheckNextSegment, ReadInv, ReaderTypeOK, CallInv, ReaderSteps, vars
<1>7. CASE ReadRecord /\ UNCHANGED vars
  <2>1. PICK e : e = <<rseg, roff + 1, file[rseg][roff + 1]>>
    OBVIOUS
  <2>2. e \in Idx \X Nat \X Chunk /\ roff \in Nat /\ roff >= 1 /\ ropen /\ rhdr
    BY <1>7, <2>1, AtRecordType DEF ReadRecord
  <2>3. yielded' = Append(yielded, e) /\ roff' = roff + 1 /\ rpc' = "idle"
        /\ UNCHANGED <<rseg, ropen, rhdr, rtorn, entries>>
    BY <1>7, <2>1 DEF ReadRecord, vars
  <2>4. yielded' \in Seq(Idx \X Nat \X Chunk)
    BY <2>2, <2>3 DEF ReadInv, ReaderTypeOK
  <2> QED BY <2>2, <2>3, <2>4 DEF ReadInv, ReaderTypeOK, CallInv, ReaderSteps
<1>8. CASE ReadFails /\ UNCHANGED vars
  BY <1>8 DEF ReadFails, ReadInv, ReaderTypeOK, CallInv, ReaderSteps, vars
<1> QED BY <1>1, <1>2, <1>3, <1>4, <1>5, <1>6, <1>7, <1>8
        DEF LiveNext, WriterNext, ReaderNext, ReaderStep, lvars

LEMMA ReadInvariance == LiveSpec => []ReadInv
<1>1. LiveInit => ReadInv
  <2> SUFFICES ASSUME ReaderInit PROVE ReadInv
    BY DEF LiveInit
  <2>1. yielded \in Seq(Idx \X Nat \X Chunk)
    <3>1. PICK S : S = Idx \X Nat \X Chunk
      OBVIOUS
    <3>2. << >> \in Seq(S)
      OBVIOUS
    <3> QED BY <3>1, <3>2 DEF ReaderInit
  <2>2. rseg \in -1..MaxIndex
    BY DEF ReaderInit
  <2> QED BY <2>1, <2>2 DEF ReaderInit, ReadInv, ReaderTypeOK, CallInv, ReaderSteps
<1>2. IInv /\ ReadInv /\ [LiveNext]_lvars => ReadInv'
  BY ReadNext
<1> QED BY <1>1, <1>2, LiveWriter, Invariance, PTL DEF LiveSpec

\* The iterator keeps its types while a writer works, dies and recovers: its file stays
\* open and in the directory, its offset behind the header.
THEOREM ReaderTypeCorrect == LiveSpec => []ReaderTypeOK
<1>1. ReadInv => ReaderTypeOK
  BY DEF ReadInv
<1> QED BY <1>1, ReadInvariance, PTL

-----------------------------------------------------------------------------
(* In order and without a gap. *)

\* Everything yielded stands at or before the offset, and everything of the current
\* segment up to the offset was yielded.
OrderInv ==
  /\ YieldedInOrder
  /\ \A n \in 1..Len(yielded) :
       yielded[n][1] <= rseg /\ (yielded[n][1] = rseg => yielded[n][2] <= roff)
  /\ ropen => \A p \in 2..roff :
       \E m \in 1..Len(yielded) : yielded[m][1] = rseg /\ yielded[m][2] = p

LEMMA OrderNext ==
  ASSUME IInv, ReadInv, OrderInv, [LiveNext]_lvars
  PROVE  OrderInv'
<1>1. CASE UNCHANGED <<yielded, rseg, roff>> /\ (ropen' => ropen)
  BY <1>1 DEF OrderInv, YieldedInOrder, Before
<1>2. CASE OpenSegment /\ rseg + 1 \in entries
  <2>1. rseg' = rseg + 1 /\ roff' = 1 /\ yielded' = yielded
    BY <1>2 DEF OpenSegment
  <2>2. rseg \in Int /\ yielded \in Seq(Idx \X Nat \X Chunk)
    BY DEF ReadInv, ReaderTypeOK
  <2>3. YieldedInOrder'
    BY <2>1 DEF OrderInv, YieldedInOrder, Before
  <2>4. ASSUME NEW n \in 1..Len(yielded)
        PROVE  yielded[n][1] <= rseg + 1 /\ yielded[n][1] # rseg + 1
    <3>1. yielded[n] \in Idx \X Nat \X Chunk
      BY <2>2, ElementOfSeq
    <3>2. yielded[n][1] \in Int /\ yielded[n][1] <= rseg
      BY <3>1 DEF OrderInv, Idx
    <3> QED BY <2>2, <3>2
  <2>5. 2..1 = {}
    OBVIOUS
  <2> QED BY <2>1, <2>3, <2>4, <2>5 DEF OrderInv
<1>3. CASE ReadRecord
  <2>1. PICK y, z, e, l : y = yielded /\ z = yielded' /\ l = Len(y)
                          /\ e = <<rseg, roff + 1, file[rseg][roff + 1]>>
    OBVIOUS
  <2>2. /\ z = Append(y, e) /\ roff' = roff + 1 /\ rseg' = rseg /\ ropen' = ropen
        /\ rpc = "read" /\ AtRecord
    BY <1>3, <2>1 DEF ReadRecord
  <2>3. e \in Idx \X Nat \X Chunk /\ roff \in Nat /\ rseg \in Idx /\ ropen
    BY <2>1, <2>2, AtRecordType
  <2>4. y \in Seq(Idx \X Nat \X Chunk) /\ l \in Nat
    BY <2>1 DEF ReadInv, ReaderTypeOK
  <2>5. e[1] = rseg /\ e[2] = roff + 1
    BY <2>1
  <2>6. Len(z) = l + 1 /\ z[l + 1] = e /\ \A n \in 1..l : z[n] = y[n]
    BY <2>1, <2>2, <2>3, <2>4
  <2>7. \A n \in 1..l : y[n][1] \in Int /\ y[n][2] \in Int
    <3> SUFFICES ASSUME NEW n \in 1..l PROVE y[n][1] \in Int /\ y[n][2] \in Int
      OBVIOUS
    <3>1. y[n] \in Idx \X Nat \X Chunk
      BY <2>1, <2>4, ElementOfSeq
    <3> QED BY <3>1 DEF Idx
  <2>8. /\ \A n \in 1..l : y[n][1] <= rseg /\ (y[n][1] = rseg => y[n][2] <= roff)
        /\ \A p \in 2..roff : \E m \in 1..l : y[m][1] = rseg /\ y[m][2] = p
    BY <2>1, <2>3 DEF OrderInv
  <2>9. ASSUME NEW n \in 1..l
        PROVE  /\ \A m \in 1..(n - 1) : Before(y[m], y[n])
               /\ \A p \in 2..(y[n][2] - 1) :
                    \E m \in 1..(n - 1) : y[m][1] = y[n][1] /\ y[m][2] = p
    BY <2>1 DEF OrderInv, YieldedInOrder
  <2>10. /\ \A n \in 1..(l + 1) : n \in 1..l \/ n = l + 1
         /\ \A n \in 1..l : n \in 1..(l + 1)
         /\ (l + 1) - 1 = l /\ (roff + 1) - 1 = roff
         /\ \A n \in 1..l : \A m \in 1..(n - 1) : m \in 1..l
         /\ \A p \in 2..(roff + 1) : p \in 2..roff \/ p = roff + 1
         /\ l + 1 \in 1..(l + 1)
    BY <2>3, <2>4
  <2>11. ASSUME NEW n \in 1..l PROVE Before(y[n], e)
    <3>1. y[n][1] < rseg \/ (y[n][1] = rseg /\ y[n][2] < roff + 1)
      <4>1. rseg \in Int
        BY <2>3 DEF Idx
      <4> QED BY <2>3, <2>7, <2>8, <4>1
    <3> QED BY <2>5, <3>1 DEF Before
  <2>12. ASSUME NEW n \in 1..(l + 1)
         PROVE  /\ \A m \in 1..(n - 1) : Before(z[m], z[n])
                /\ \A p \in 2..(z[n][2] - 1) :
                     \E m \in 1..(n - 1) : z[m][1] = z[n][1] /\ z[m][2] = p
    <3>1. CASE n \in 1..l
      <4>1. z[n] = y[n] /\ \A m \in 1..(n - 1) : z[m] = y[m]
        BY <2>6, <2>10, <3>1
      <4>2. /\ \A m \in 1..(n - 1) : Before(y[m], y[n])
            /\ \A p \in 2..(y[n][2] - 1) :
                 \E m \in 1..(n - 1) : y[m][1] = y[n][1] /\ y[m][2] = p
        BY <2>9, <3>1
      <4> QED BY <4>1, <4>2
    <3>2. CASE n = l + 1
      <4>1. \A m \in 1..l : Before(z[m], e)
        BY <2>6, <2>11
      <4>2. \A p \in 2..roff : \E m \in 1..l : z[m][1] = rseg /\ z[m][2] = p
        BY <2>6, <2>8
      <4> QED BY <2>5, <2>6, <2>10, <3>2, <4>1, <4>2
    <3> QED BY <2>10, <3>1, <3>2
  <2>13. YieldedInOrder'
    BY <2>1, <2>6, <2>12 DEF YieldedInOrder
  <2>14. \A n \in 1..(l + 1) : z[n][1] <= rseg /\ (z[n][1] = rseg => z[n][2] <= roff + 1)
    <3>1. \A n \in 1..l : z[n][1] <= rseg /\ (z[n][1] = rseg => z[n][2] <= roff + 1)
      BY <2>3, <2>6, <2>7, <2>8
    <3>2. z[l + 1][1] <= rseg /\ z[l + 1][2] <= roff + 1
      BY <2>3, <2>5, <2>6 DEF Idx
    <3> QED BY <2>10, <3>1, <3>2
  <2>15. \A p \in 2..(roff + 1) : \E m \in 1..(l + 1) : z[m][1] = rseg /\ z[m][2] = p
    BY <2>5, <2>6, <2>8, <2>10
  <2> QED BY <2>1, <2>2, <2>6, <2>13, <2>14, <2>15 DEF OrderInv
<1>4. CASE OpenSegment /\ rseg + 1 \notin entries
  BY <1>1, <1>4 DEF OpenSegment
<1>5. CASE NextRecord \/ ReadHeader \/ StatLength \/ CheckNextSegment \/ ReadFails
  BY <1>1, <1>5 DEF NextRecord, ReadHeader, StatLength, CheckNextSegment, ReadFails
<1>6. CASE UNCHANGED rvars
  BY <1>1, <1>6 DEF rvars
<1> QED BY <1>2, <1>3, <1>4, <1>5, <1>6 DEF LiveNext, WriterNext, ReaderNext, ReaderStep, lvars

\* Whatever the writer and its restarts do between two system calls of the iterator, it
\* yields in append order, nothing twice, and leaves no gap within a segment.
THEOREM OrderCorrect == LiveSpec => []YieldedInOrder
<1>1. LiveInit => OrderInv
  <2> SUFFICES ASSUME ReaderInit PROVE OrderInv
    BY DEF LiveInit
  <2>1. yielded = << >> /\ Len(<< >>) = 0 /\ 1..0 = {} /\ ropen = FALSE
    BY DEF ReaderInit
  <2> QED BY <2>1 DEF OrderInv, YieldedInOrder
<1>2. IInv /\ ReadInv /\ OrderInv /\ [LiveNext]_lvars => OrderInv'
  BY OrderNext
<1>3. OrderInv => YieldedInOrder
  BY DEF OrderInv
<1> QED BY <1>1, <1>2, <1>3, LiveWriter, Invariance, ReadInvariance, PTL DEF LiveSpec

-----------------------------------------------------------------------------
(* Never taken back. *)

\* The iterator has passed nothing, and yielded nothing, that a repair would cut off.
StableInv ==
  /\ rhdr => roff <= Len(Intact(file[rseg]))
  /\ \A n \in 1..Len(yielded) : Kept(file[yielded[n][1]], yielded[n][2], yielded[n][3])

LEMMA StableNext ==
  ASSUME IInv, IInv', FewSegments, PlaceInv, ReadInv, StableInv, [LiveNext]_lvars
  PROVE  StableInv'
<1>0. /\ yielded \in Seq(Idx \X Nat \X Chunk) /\ roff \in Nat /\ (rhdr => rseg \in Idx)
      /\ file \in [Idx -> Seq(Chunk)] /\ \A i \in Idx : Chains(file[i])
  BY DEF ReadInv, ReaderTypeOK, IInv, TypeOK, SegmentsChain
<1>1. ASSUME NEW n \in 1..Len(yielded) PROVE yielded[n][1] \in Idx
  <2>1. yielded[n] \in Idx \X Nat \X Chunk
    BY <1>0, ElementOfSeq
  <2> QED BY <2>1
<1>2. CASE [Next]_vars /\ UNCHANGED rvars
  <2>1. rhdr => roff <= Len(Intact(file'[rseg]))
    <3> SUFFICES ASSUME rhdr PROVE roff <= Len(Intact(file'[rseg]))
      OBVIOUS
    <3>1. PICK l, m : l = Len(Intact(file[rseg])) /\ m = Len(Intact(file'[rseg]))
      OBVIOUS
    <3>2. roff <= l /\ l <= m
      BY <1>0, <1>2, <3>1, NoPowerLoss, WriterKeeps DEF StableInv
    <3>3. l \in Nat /\ m \in Nat
      BY <1>0, <3>1, IntactKinds DEF IInv, TypeOK
    <3> QED BY <1>0, <3>1, <3>2, <3>3
  <2>2. \A n \in 1..Len(yielded) : Kept(file'[yielded[n][1]], yielded[n][2], yielded[n][3])
    BY <1>1, <1>2, NoPowerLoss, WriterKeeps DEF StableInv
  <2> QED BY <1>2, <2>1, <2>2 DEF StableInv, rvars
<1>3. CASE UNCHANGED <<file, yielded, rseg, roff>> /\ (rhdr' => rhdr)
  BY <1>3 DEF StableInv
<1>4. CASE OpenSegment /\ UNCHANGED vars
  BY <1>4 DEF OpenSegment, StableInv, vars
<1>5. CASE ReadHeader /\ UNCHANGED vars
  <2>1. roff = 1 /\ rseg \in Idx
    BY <1>5 DEF ReadHeader, ReadInv, CallInv, ReaderTypeOK, IInv, TypeOK
  <2>2. HasHeader(file[rseg]) => roff <= Len(Intact(file[rseg]))
    BY <1>0, <2>1, IntactPrefix, IntactKinds
  <2> QED BY <1>5, <2>2 DEF ReadHeader, StableInv, vars
<1>6. CASE ReadRecord /\ UNCHANGED vars
  <2>1. PICK s, c, p : s = file[rseg] /\ p = roff + 1 /\ c = s[p]
    OBVIOUS
  <2>2. /\ rseg \in Idx /\ roff >= 1 /\ rhdr /\ s \in Seq(Chunk)
        /\ roff < Len(s) /\ s[roff + 1].kind = "record"
    BY <1>6, <2>1, AtRecordType DEF ReadRecord
  <2>3. Chains(s) /\ roff <= Len(Intact(s))
    BY <1>0, <2>1, <2>2 DEF StableInv
  <2>4. roff + 1 <= Len(Intact(s))
    BY <1>0, <2>2, <2>3, IntactMore
  <2>5. Kept(s, p, c)
    BY <1>0, <2>1, <2>4 DEF Kept
  <2>6. PICK y, z, e, l : y = yielded /\ z = yielded' /\ l = Len(y) /\ e = <<rseg, p, c>>
    OBVIOUS
  <2>7. z = Append(y, e) /\ roff' = roff + 1 /\ rseg' = rseg /\ rhdr' = rhdr /\ file' = file
    BY <1>6, <2>1, <2>6 DEF ReadRecord, vars
  <2>8. y \in Seq(Idx \X Nat \X Chunk) /\ l \in Nat /\ e \in Idx \X Nat \X Chunk
    BY <1>0, <1>6, <2>1, <2>6, AtRecordType DEF ReadRecord
  <2>9. Len(z) = l + 1 /\ z[l + 1] = e /\ \A n \in 1..l : z[n] = y[n]
    BY <2>6, <2>7, <2>8
  <2>10. e[1] = rseg /\ e[2] = p /\ e[3] = c
    BY <2>6
  <2>11. \A n \in 1..l : Kept(file[z[n][1]], z[n][2], z[n][3])
    BY <2>6, <2>9 DEF StableInv
  <2>12. Kept(file[z[l + 1][1]], z[l + 1][2], z[l + 1][3])
    BY <2>1, <2>5, <2>9, <2>10
  <2>13. \A n \in 1..(l + 1) : n \in 1..l \/ n = l + 1
    BY <2>8
  <2>14. \A n \in 1..Len(z) : Kept(file[z[n][1]], z[n][2], z[n][3])
    BY <2>9, <2>11, <2>12, <2>13
  <2> QED BY <2>1, <2>4, <2>6, <2>7, <2>14 DEF StableInv
<1> QED BY <1>2, <1>3, <1>4, <1>5, <1>6 DEF LiveNext, WriterNext, ReaderNext, ReaderStep, lvars,
           vars, rvars, NextRecord, StatLength, CheckNextSegment, ReadFails

\* A record the iterator yielded stays where it was read, whatever fails short of a power
\* loss: the iterator goes no further than a recovery scan would, and a repair cuts behind that.
THEOREM StableCorrect ==
  ASSUME FewSegments
  PROVE  LiveSpec => []YieldedStable
<1>1. LiveInit => StableInv
  <2> SUFFICES ASSUME ReaderInit PROVE StableInv
    BY DEF LiveInit
  <2>1. yielded = << >> /\ Len(<< >>) = 0 /\ 1..0 = {} /\ rhdr = FALSE
    BY DEF ReaderInit
  <2> QED BY <2>1 DEF StableInv
<1>2. IInv /\ IInv' /\ PlaceInv /\ ReadInv /\ StableInv /\ [LiveNext]_lvars => StableInv'
  BY StableNext
<1>3. IInv /\ ReadInv /\ StableInv => YieldedStable
  <2> SUFFICES ASSUME IInv, ReadInv, StableInv, NEW n \in 1..Len(yielded)
               PROVE  /\ yielded[n][2] <= Len(file[yielded[n][1]])
                      /\ file[yielded[n][1]][yielded[n][2]] = yielded[n][3]
    BY DEF YieldedStable
  <2>1. yielded[n] \in Idx \X Nat \X Chunk
    BY ElementOfSeq DEF ReadInv, ReaderTypeOK
  <2>2. PICK s, p, c : s = file[yielded[n][1]] /\ p = yielded[n][2] /\ c = yielded[n][3]
    OBVIOUS
  <2>3. s \in Seq(Chunk)
    BY <2>1, <2>2 DEF IInv, TypeOK
  <2>4. p \in Nat /\ p <= Len(Intact(s)) /\ s[p] = c
    BY <2>2 DEF StableInv, Kept
  <2>5. p <= Len(s)
    BY <2>3, <2>4, IntactKinds
  <2> QED BY <2>2, <2>4, <2>5
<1> QED BY <1>1, <1>2, <1>3, LiveWriter, Invariance, PlaceInvariance, ReadInvariance,
           PTL DEF LiveSpec
=============================================================================
