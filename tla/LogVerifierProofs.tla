--------------------------- MODULE LogVerifierProofs ---------------------------
(***************************************************************************)
(* What a verification of the HMAC log shows, for every value of the       *)
(* constants, beside a live writer and after any number of outside changes.*)
(***************************************************************************)
EXTENDS LogVerifier, AuditWriterProofs

USE WriterAssumption

-----------------------------------------------------------------------------
(* The files. *)

\* A header is the first chunk of its file or none.
Headed(s) == \A n \in 2..Len(s) : s[n].kind # "header"

FileInv ==
  /\ file \in [Idx -> Seq(Chunk)] /\ entries \subseteq Idx
  /\ \A i \in Idx : Headed(file[i])

LEMMA NoPowerLoss == ~PowerLoss
  BY VerifierAssumption DEF PowerLoss

LEMMA HeadedPrefix ==
  ASSUME NEW s \in Seq(Chunk), NEW t \in Seq(Chunk), IsPrefixOf(t, s), Headed(s)
  PROVE  Headed(t)
<1>1. Len(t) \in Nat /\ Len(s) \in Nat /\ Len(t) <= Len(s)
  BY DEF IsPrefixOf
<1>2. \A n \in 2..Len(t) : n \in 2..Len(s) /\ n \in 1..Len(t)
  BY <1>1
<1> QED BY <1>2 DEF Headed, IsPrefixOf

\* Records are written behind a header, and no header behind anything.
LEMMA FileNext ==
  ASSUME IInv, IInv', FileInv, [Next]_vars
  PROVE  FileInv'
<1>0. /\ file \in [Idx -> Seq(Chunk)] /\ cur.index \in Idx
      /\ \A j \in Idx : Headed(file[j]) /\ file'[j] \in Seq(Chunk)
  BY DEF IInv, TypeOK, CurType, FileInv
<1> SUFFICES \A j \in Idx : Headed(file'[j])
  BY DEF IInv, TypeOK, FileInv
<1>o. ASSUME NEW i, \A j \in Idx : j # i => file'[j] = file[j], i \in Idx => Headed(file'[i])
      PROVE  \A j \in Idx : Headed(file'[j])
  BY <1>0, <1>o
<1>s. ASSUME NEW i, \A j \in Idx : j # i => file'[j] = file[j], Len(file'[i]) \in {0, 1}
      PROVE  \A j \in Idx : Headed(file'[j])
  <2>1. Headed(file'[i])
    BY <1>s DEF Headed
  <2> QED BY <1>o, <1>s, <2>1
<1>1. ASSUME NEW k \in Keys, OpenFresh(k) PROVE \A j \in Idx : Headed(file'[j])
  <2>1. file' = [file EXCEPT ![0] = << >>] /\ 0 \in Idx
    BY <1>1 DEF OpenFresh, Idx
  <2>2. file'[0] = << >> /\ \A j \in Idx : j # 0 => file'[j] = file[j]
    BY <2>1, <1>0
  <2> QED BY <1>s, <2>2
<1>2. ASSUME NEW i \in Visible, file'[i] = Intact(file[i]), \A j \in Idx : j # i => file'[j] = file[j]
      PROVE  \A j \in Idx : Headed(file'[j])
  <2>1. i \in Idx
    BY DEF Visible, IInv, TypeOK
  <2>2. Headed(file'[i])
    BY <1>0, <1>2, <2>1, IntactPrefix, HeadedPrefix
  <2> QED BY <1>o, <1>2, <2>2
<1>3. ASSUME NEW k \in Keys, RepairFails(k) PROVE \A j \in Idx : Headed(file'[j])
  <2>1. PICK i \in Visible : file' = [file EXCEPT ![i] = Intact(file[i])]
    BY <1>3 DEF RepairFails
  <2>2. i \in Idx
    BY DEF Visible, IInv, TypeOK
  <2> QED BY <1>0, <1>2, <2>1, <2>2
<1>4. ASSUME NEW k \in Keys, NEW i \in Visible, Recovers(k, i) PROVE \A j \in Idx : Headed(file'[j])
  BY <1>2, <1>4, RecoverEffect DEF Recovers
<1>5. ASSUME BeginWrite \/ FinishRecord \/ FinishFinalize PROVE \A j \in Idx : Headed(file'[j])
  <2>1. PICK i, s, t, n : i = cur.index /\ s = file[i] /\ t = file'[i] /\ n = Len(t)
    OBVIOUS
  <2>2. /\ n \in Nat /\ n >= 1 /\ t[n].kind # "header" /\ (\A m \in 1..(n - 1) : t[m] = s[m])
        /\ n - 1 <= Len(s) /\ \A j \in Idx : j # i => file'[j] = file[j]
    <3>1. CASE BeginWrite
      <4>1. /\ Len(t) = Len(s) + 1 /\ t[n] = Torn /\ (\A m \in 1..Len(s) : t[m] = s[m])
            /\ Len(s) \in Nat /\ \A j \in Idx : j # i => file'[j] = file[j]
        BY <1>0, <2>1, <3>1, BeginEffect
      <4> QED BY <2>1, <4>1 DEF Torn
    <3>2. CASE FinishRecord \/ FinishFinalize
      <4>1. PICK d \in Datum, size \in Nat :
              AppendFramed(d, size) /\ pc \in {"rec_write", "fin_write"}
        BY <3>2, RecordEffect
      <4>2. /\ Len(t) = Len(s) /\ n \in Nat /\ n >= 2 /\ (\A m \in 1..(n - 1) : t[m] = s[m])
            /\ \A j \in Idx : j # i => file'[j] = file[j]
            /\ t[n] = Record(d, cur.last_hmac, cur.bytes_written + size)
        BY <2>1, <4>1, FrameEffect
      <4> QED BY <2>1, <4>2 DEF Record
    <3> QED BY <1>5, <3>1, <3>2
  <2>3. i \in Idx /\ Headed(s) /\ Len(s) \in Nat
    BY <1>0, <2>1
  <2>4. \A m \in 2..n : m = n \/ (m \in 1..(n - 1) /\ m \in 2..Len(s))
    BY <2>2, <2>3
  <2>5. Headed(t)
    BY <2>1, <2>2, <2>3, <2>4 DEF Headed
  <2> QED BY <1>o, <2>1, <2>2, <2>5
<1>6. ASSUME GenesisHeader \/ CreateNext \/ WriteHeader PROVE \A j \in Idx : Headed(file'[j])
  <2>1. CASE GenesisHeader
    BY <1>s, <2>1, GenesisEffect
  <2>2. CASE CreateNext
    <3>1. Len(file'[cur.index + 1]) = 0
      BY <2>2, CreateEffect
    <3> QED BY <1>s, <2>2, <3>1, CreateEffect
  <2>3. CASE WriteHeader
    BY <1>s, <2>3, HeaderEffect
  <2> QED BY <1>6, <2>1, <2>2, <2>3
<1>7. ASSUME Quiet \/ UNCHANGED vars PROVE \A j \in Idx : Headed(file'[j])
  <2>1. file' = file
    BY <1>7, QuietEffect DEF vars
  <2> QED BY <1>0, <2>1
<1> QED BY <1>1, <1>3, <1>4, <1>5, <1>6, <1>7, NextCases, NoPowerLoss

\* t is made of the first chunk of s, later chunks of s and unusable ones.
Stems(t, s) ==
  /\ t \in Seq(Chunk)
  /\ t # << >> => s # << >> /\ t[1] = s[1]
  /\ \A n \in 2..Len(t) : t[n] \in {Torn, Bad} \/ \E m \in 2..Len(s) : t[n] = s[m]

\* What someone without the key does to a file.
LEMMA EditStems ==
  ASSUME FileInv, AlterRecord \/ RemoveRecord \/ CutSegment \/ DeleteSegment
  PROVE  entries' \subseteq Idx /\ file' \in [Idx -> Seq(Chunk)]
         /\ \A i \in Idx : Stems(file'[i], file[i])
<1>0. file \in [Idx -> Seq(Chunk)] /\ entries \subseteq Idx
  BY DEF FileInv
<1>o. ASSUME NEW i \in Idx, NEW t, file' = [file EXCEPT ![i] = t], Stems(t, file[i]),
             entries' \subseteq entries
      PROVE  entries' \subseteq Idx /\ file' \in [Idx -> Seq(Chunk)]
             /\ \A j \in Idx : Stems(file'[j], file[j])
  <2>1. t \in Seq(Chunk)
    BY <1>o DEF Stems
  <2>2. file' \in [Idx -> Seq(Chunk)] /\ file'[i] = t /\ \A j \in Idx : j # i => file'[j] = file[j]
    BY <1>0, <1>o, <2>1
  <2>3. \A j \in Idx : Stems(file[j], file[j])
    BY <1>0 DEF Stems
  <2>4. \A j \in Idx : Stems(file'[j], file[j])
    BY <1>o, <2>2, <2>3
  <2> QED BY <1>0, <1>o, <2>2, <2>4
<1>p. ASSUME NEW s \in Seq(Chunk), NEW n \in 0..Len(s)
      PROVE  /\ SubSeq(s, 1, n) \in Seq(Chunk) /\ Len(SubSeq(s, 1, n)) = n
             /\ \A m \in 1..n : SubSeq(s, 1, n)[m] = s[m]
  OBVIOUS
<1>1. CASE AlterRecord
  <2>a. PICK i \in entries : \E n \in 2..Len(file[i]), c \in {Torn, Bad} :
          file' = [file EXCEPT ![i][n] = c] /\ entries' = entries
    BY <1>1 DEF AlterRecord
  <2>1. PICK n \in 2..Len(file[i]), c \in {Torn, Bad} :
          file' = [file EXCEPT ![i][n] = c] /\ entries' = entries
    BY <2>a
  <2>2. PICK s, t, l : s = file[i] /\ t = [s EXCEPT ![n] = c] /\ l = Len(s)
    OBVIOUS
  <2>3. i \in Idx /\ s \in Seq(Chunk) /\ l \in Nat /\ n \in 2..l /\ c \in Chunk
    BY <1>0, <2>2, UnusableType
  <2>4. n \in 1..Len(s)
    BY <2>2, <2>3
  <2>5. t \in Seq(Chunk) /\ Len(t) = l /\ \A j \in 1..l : t[j] = IF j = n THEN c ELSE s[j]
    BY <2>2, <2>3, <2>4, ExceptSeq
  <2>6. s # << >> /\ 1 \in 1..l /\ 1 # n /\ \A j \in 2..l : j \in 1..l
    BY <2>2, <2>3
  <2>7. Stems(t, s)
    BY <2>2, <2>5, <2>6 DEF Stems
  <2> QED BY <1>o, <2>1, <2>2, <2>3, <2>7
<1>2. CASE RemoveRecord
  <2>a. PICK i \in entries : \E n \in 2..Len(file[i]) :
          /\ file' = [file EXCEPT ![i] = SubSeq(@, 1, n - 1) \o SubSeq(@, n + 1, Len(@))]
          /\ entries' = entries
    BY <1>2 DEF RemoveRecord
  <2>1. PICK n \in 2..Len(file[i]) :
          /\ file' = [file EXCEPT ![i] = SubSeq(@, 1, n - 1) \o SubSeq(@, n + 1, Len(@))]
          /\ entries' = entries
    BY <2>a
  <2>2. PICK s, l, a, b : s = file[i] /\ l = Len(s) /\ a = SubSeq(s, 1, n - 1) /\ b = SubSeq(s, n + 1, l)
    OBVIOUS
  <2>3. i \in Idx /\ s \in Seq(Chunk) /\ l \in Nat /\ n \in 2..l
    BY <1>0, <2>2
  <2>4. n - 1 \in 0..Len(s) /\ n - 1 \in Nat
    BY <2>2, <2>3
  <2>5. a \in Seq(Chunk) /\ Len(a) = n - 1 /\ \A m \in 1..(n - 1) : a[m] = s[m]
    BY <1>p, <2>2, <2>3, <2>4
  <2>6. b \in Seq(Chunk) /\ Len(b) = l - n /\ \A m \in 1..(l - n) : b[m] = s[n + m]
    <3>1. \A m \in (n + 1)..l : s[m] \in Chunk
      <4>1. \A m \in (n + 1)..l : m \in 1..Len(s)
        BY <2>2, <2>3
      <4> QED BY <2>3, <4>1, ElementOfSeq
    <3>2. n + 1 \in Int /\ l \in Int
      BY <2>3
    <3>3. /\ b \in Seq(Chunk) /\ Len(b) = IF n + 1 <= l THEN l - (n + 1) + 1 ELSE 0
          /\ \A m \in 1..(l - (n + 1) + 1) : b[m] = s[(n + 1) + m - 1]
      BY <2>2, <3>1, <3>2, SubSeqProperties
    <3>4. Len(b) = l - n
      BY <2>3, <3>3
    <3>5. l - (n + 1) + 1 = l - n /\ \A m \in 1..(l - n) : (n + 1) + m - 1 = n + m
      BY <2>3
    <3> QED BY <3>3, <3>4, <3>5
  <2>7. PICK t : t = a \o b
    OBVIOUS
  <2>8. /\ t \in Seq(Chunk) /\ Len(t) = Len(a) + Len(b)
        /\ \A m \in 1..(Len(a) + Len(b)) : t[m] = IF m <= Len(a) THEN a[m] ELSE b[m - Len(a)]
    <3>1. /\ (a \o b) \in Seq(Chunk) /\ Len(a \o b) = Len(a) + Len(b)
          /\ \A m \in 1..(Len(a) + Len(b)) :
               (a \o b)[m] = IF m <= Len(a) THEN a[m] ELSE b[m - Len(a)]
      <4>1. a \in Seq(Chunk) /\ b \in Seq(Chunk)
        BY <2>5, <2>6
      <4> QED BY <4>1, ConcatProperties, ZenonT(40)
    <3> QED BY <2>7, <3>1, Zenon
  <2>9. Len(a) + Len(b) = l - 1
    BY <2>3, <2>5, <2>6
  <2>10. \A m \in 1..(l - 1) : t[m] = IF m <= n - 1 THEN a[m] ELSE b[m - (n - 1)]
    BY <2>5, <2>8, <2>9
  <2>11. \A m \in 1..(l - 1) : t[m] = IF m <= n - 1 THEN s[m] ELSE s[m + 1]
    <3> SUFFICES ASSUME NEW m \in 1..(l - 1) PROVE t[m] = IF m <= n - 1 THEN s[m] ELSE s[m + 1]
      OBVIOUS
    <3>1. CASE m <= n - 1
      <4>1. m \in 1..(n - 1)
        BY <2>3, <3>1
      <4> QED BY <2>5, <2>10, <3>1, <4>1
    <3>2. CASE ~(m <= n - 1)
      <4>1. m - (n - 1) \in 1..(l - n) /\ n + (m - (n - 1)) = m + 1
        BY <2>3, <3>2
      <4>2. b[m - (n - 1)] = s[n + (m - (n - 1))]
        BY <2>6, <4>1
      <4> QED BY <2>10, <3>2, <4>1, <4>2
    <3> QED BY <3>1, <3>2
  <2>12. /\ s # << >> /\ 1 \in 1..(l - 1) /\ 1 <= n - 1
         /\ \A m \in 2..(l - 1) : m \in 1..(l - 1) /\ m \in 2..l /\ m + 1 \in 2..l
    BY <2>2, <2>3
  <2>13. Len(t) = l - 1
    BY <2>8, <2>9
  <2>14. t[1] = s[1] /\ \A m \in 2..(l - 1) : \E j \in 2..l : t[m] = s[j]
    BY <2>11, <2>12
  <2>15. Stems(t, s)
    BY <2>2, <2>8, <2>12, <2>13, <2>14 DEF Stems
  <2> QED BY <1>o, <2>1, <2>2, <2>3, <2>7, <2>15
<1>3. CASE CutSegment
  <2>a. PICK i \in entries : \E n \in 0..(Len(file[i]) - 1) :
          file' = [file EXCEPT ![i] = SubSeq(@, 1, n)] /\ entries' = entries
    BY <1>3 DEF CutSegment
  <2>1. PICK n \in 0..(Len(file[i]) - 1) :
          file' = [file EXCEPT ![i] = SubSeq(@, 1, n)] /\ entries' = entries
    BY <2>a
  <2>2. PICK s, t, l : s = file[i] /\ t = SubSeq(s, 1, n) /\ l = Len(s)
    OBVIOUS
  <2>3. i \in Idx /\ s \in Seq(Chunk) /\ l \in Nat /\ n \in 0..(l - 1)
    BY <1>0, <2>2
  <2>4. n \in 0..Len(s)
    BY <2>2, <2>3
  <2>5. t \in Seq(Chunk) /\ Len(t) = n /\ \A m \in 1..n : t[m] = s[m]
    BY <1>p, <2>2, <2>3, <2>4
  <2>6. /\ t # << >> => s # << >> /\ 1 \in 1..n
        /\ \A m \in 2..n : m \in 1..n /\ m \in 2..l
    BY <2>2, <2>3, <2>5
  <2>7. Stems(t, s)
    BY <2>2, <2>5, <2>6 DEF Stems
  <2> QED BY <1>o, <2>1, <2>2, <2>3, <2>7
<1>4. CASE DeleteSegment
  <2>1. PICK i \in entries : file' = [file EXCEPT ![i] = << >>] /\ entries' = entries \ {i}
    BY <1>4 DEF DeleteSegment
  <2>2. i \in Idx /\ Stems(<< >>, file[i])
    BY <1>0 DEF Stems
  <2> QED BY <1>o, <2>1, <2>2
<1> QED BY <1>1, <1>2, <1>3, <1>4

LEMMA StemsHeaded ==
  ASSUME NEW s \in Seq(Chunk), NEW t, Stems(t, s), Headed(s)
  PROVE  Headed(t)
  BY DEF Stems, Headed, Torn, Bad

\* The hash that a key holder signs again.
LEMMA ResignedType ==
  ASSUME NEW h \in Hash, NEW p \in Nat, p >= 1, NEW w \in Inputs
  PROVE  Resigned(h, p, w) \in Hash /\ Len(Resigned(h, p, w)) = Len(h)
<1>0. h \in Seq(Datum) /\ Len(h) \in Nat
  BY DEF Hash
<1>1. CASE Len(h) < p
  BY <1>1 DEF Resigned
<1>2. CASE ~(Len(h) < p)
  <2>1. p \in 1..Len(h)
    BY <1>0, <1>2
  <2>2. h[p] \in Datum
    BY <1>0, <2>1, ElementOfSeq
  <2>3. PICK d : d = [h[p] EXCEPT !.input = w]
    OBVIOUS
  <2>4. d \in Datum
    BY <2>2, <2>3 DEF Datum
  <2>5. [h EXCEPT ![p] = d] \in Seq(Datum) /\ Len([h EXCEPT ![p] = d]) = Len(h)
    BY <1>0, <2>1, <2>4, ExceptSeq
  <2>6. [h EXCEPT ![p] = d] = [h EXCEPT ![p].input = w]
    BY <2>3
  <2> QED BY <1>2, <2>5, <2>6 DEF Resigned, Hash
<1> QED BY <1>1, <1>2

LEMMA ResignedChunkType ==
  ASSUME NEW c \in Chunk, NEW p \in Nat, p >= 1, NEW w \in Inputs
  PROVE  ResignedChunk(c, p, w) \in Chunk /\ ResignedChunk(c, p, w).kind = c.kind
<1>1. CASE c.kind = "header"
  <2>1. c \in [kind : {"header"}, index : Idx, key_id : Keys, prev_final : Hash, end : Nat]
    BY <1>1 DEF Chunk, Torn, Bad
  <2>2. PICK h : h = Resigned(c.prev_final, p, w)
    OBVIOUS
  <2>3. h \in Hash
    BY <2>1, <2>2, ResignedType
  <2>4. ResignedChunk(c, p, w) = [c EXCEPT !.prev_final = h]
    BY <1>1, <2>2 DEF ResignedChunk
  <2>5. /\ [c EXCEPT !.prev_final = h]
             \in [kind : {"header"}, index : Idx, key_id : Keys, prev_final : Hash, end : Nat]
        /\ [c EXCEPT !.prev_final = h].kind = c.kind
    BY <2>1, <2>3
  <2> QED BY <2>4, <2>5 DEF Chunk
<1>2. CASE c.kind = "record"
  <2>1. c \in [kind : {"record"}, datum : Datum, prev_hash : Hash, end : Nat]
    BY <1>2 DEF Chunk, Torn, Bad
  <2>2. PICK h, g, d : h = Resigned(c.prev_hash, p, w) /\ g = Resigned(Mac(c.prev_hash, c.datum), p, w)
                       /\ d = g[Len(c.prev_hash) + 1]
    OBVIOUS
  <2>3. h \in Hash /\ Len(c.prev_hash) \in Nat
    BY <2>1, <2>2, ResignedType DEF Hash
  <2>4. Mac(c.prev_hash, c.datum) \in Hash /\ Len(Mac(c.prev_hash, c.datum)) = Len(c.prev_hash) + 1
    BY <2>1 DEF Mac, Hash
  <2>5. g \in Hash /\ Len(g) = Len(c.prev_hash) + 1
    BY <2>2, <2>4, ResignedType
  <2>6. Len(c.prev_hash) + 1 \in 1..Len(g) /\ g \in Seq(Datum)
    BY <2>3, <2>5 DEF Hash
  <2>7. d \in Datum
    BY <2>2, <2>6, ElementOfSeq
  <2>8. ResignedChunk(c, p, w) = [c EXCEPT !.prev_hash = h, !.datum = d]
    BY <1>2, <2>2 DEF ResignedChunk
  <2>9. /\ [c EXCEPT !.prev_hash = h, !.datum = d]
             \in [kind : {"record"}, datum : Datum, prev_hash : Hash, end : Nat]
        /\ [c EXCEPT !.prev_hash = h, !.datum = d].kind = c.kind
    BY <2>1, <2>3, <2>7
  <2> QED BY <2>8, <2>9 DEF Chunk
<1>3. CASE c.kind \notin {"header", "record"}
  BY <1>3 DEF ResignedChunk
<1> QED BY <1>1, <1>2, <1>3

\* No outside change moves a header or leaves something that is no file.
LEMMA EditKeeps ==
  ASSUME FileInv, Edit
  PROVE  FileInv'
<1>0. file \in [Idx -> Seq(Chunk)] /\ entries \subseteq Idx /\ \A i \in Idx : Headed(file[i])
  BY DEF FileInv
<1>1. CASE AlterRecord \/ RemoveRecord \/ CutSegment \/ DeleteSegment
  BY <1>0, <1>1, EditStems, StemsHeaded DEF FileInv
<1>2. CASE RewriteHistory
  <2>1. PICK i \in entries : \E n \in 2..Len(file[i]), w \in Inputs :
          /\ file[i][n].kind = "record" /\ entries' = entries
          /\ file' = [j \in Idx |-> [m \in 1..Len(file[j]) |->
               ResignedChunk(file[j][m], Len(file[i][n].prev_hash) + 1, w)]]
    BY <1>2 DEF RewriteHistory
  <2>2. PICK n \in 2..Len(file[i]), w \in Inputs :
          /\ file[i][n].kind = "record" /\ entries' = entries
          /\ file' = [j \in Idx |-> [m \in 1..Len(file[j]) |->
               ResignedChunk(file[j][m], Len(file[i][n].prev_hash) + 1, w)]]
    BY <2>1
  <2>3. PICK p : p = Len(file[i][n].prev_hash) + 1
    OBVIOUS
  <2>4. p \in Nat /\ p >= 1
    <3>1. file[i] \in Seq(Chunk)
      BY <1>0
    <3>2. n \in 1..Len(file[i])
      BY <3>1
    <3>3. file[i][n] \in Chunk
      BY <3>1, <3>2, ElementOfSeq
    <3>4. file[i][n].prev_hash \in Seq(Datum)
      BY <2>2, <3>3, RecordFields DEF Hash
    <3> QED BY <2>3, <3>4
  <2>5. ASSUME NEW j \in Idx PROVE file'[j] \in Seq(Chunk) /\ Headed(file'[j])
    <3>1. PICK s, t, l : s = file[j] /\ t = file'[j] /\ l = Len(s)
      OBVIOUS
    <3>2. s \in Seq(Chunk) /\ l \in Nat /\ Headed(s)
      BY <1>0, <3>1
    <3>3. t = [m \in 1..l |-> ResignedChunk(s[m], p, w)]
      BY <2>2, <2>3, <3>1
    <3>4. \A m \in 1..l : s[m] \in Chunk
      BY <3>1, <3>2, ElementOfSeq
    <3>5. \A m \in 1..l : ResignedChunk(s[m], p, w) \in Chunk
                          /\ ResignedChunk(s[m], p, w).kind = s[m].kind
      BY <2>4, <3>4, ResignedChunkType
    <3>6. t \in [1..l -> Chunk]
      BY <3>3, <3>5
    <3>7. t \in Seq(Chunk) /\ Len(t) = l
      BY <3>2, <3>6
    <3>8. \A m \in 2..l : m \in 1..l
      BY <3>2
    <3>9. Headed(t)
      BY <3>1, <3>2, <3>3, <3>5, <3>7, <3>8 DEF Headed
    <3> QED BY <3>1, <3>7, <3>9
  <2>6. file' = [j \in Idx |-> file'[j]]
    BY <2>2
  <2>7. file' \in [Idx -> Seq(Chunk)]
    BY <2>5, <2>6
  <2> QED BY <1>0, <2>2, <2>5, <2>7 DEF FileInv
<1> QED BY <1>1, <1>2 DEF Edit

-----------------------------------------------------------------------------
(* The state of a verification. *)

Checkpoint == [segment : Int, record_id : Int, key_id : Keys \cup {NoHash}, hmac : Hash]

OptsType == [key_id : Keys \cup {NoHash}, forensic : BOOLEAN, checkpoint : Checkpoint]

WalkType ==
  [todo : SUBSET Idx, seg : Idx, pos : Nat, prev : Hash, prior_final : Hash,
   prior_ts : Int, next_id : Int, reached : BOOLEAN]

ViolationType == [kind : Kinds, segment : Int, record_id : Int]

ReportType ==
  [error : {"none", "NoSegments", "CheckpointKeyMismatch"}, violation : ViolationType,
   additional : Seq(ViolationType), last_segment : Int, final_hmac : Hash]

StateInv ==
  /\ vpc \in {"idle", "header", "record", "done"} /\ listed \subseteq Idx
  /\ opts \in OptsType /\ walk \in WalkType /\ vreport \in ReportType /\ saved \in Checkpoint
  /\ walked \in Seq(Idx \X Chunk) /\ edits \in 0..MaxEdits

LEMMA NoHashType == NoHash \in Hash
<1>1. PICK S : S = Datum
  OBVIOUS
<1>2. << >> \in Seq(S)
  OBVIOUS
<1> QED BY <1>1, <1>2 DEF NoHash, Hash

LEMMA StartTypes ==
  /\ NoCheckpoint \in Checkpoint /\ NoOpts \in OptsType
  /\ StartWalk \in WalkType /\ StartReport \in ReportType
<1>1. NoCheckpoint \in Checkpoint
  BY NoHashType DEF NoCheckpoint, Checkpoint
<1>2. NoOpts \in OptsType
  BY <1>1 DEF NoOpts, OptsType
<1>3. StartWalk \in WalkType
  BY NoHashType DEF StartWalk, WalkType, Idx
<1>4. NoViolation \in ViolationType
  BY DEF NoViolation, ViolationType, Kinds
<1>5. << >> \in Seq(ViolationType)
  <2>1. PICK S : S = ViolationType
    OBVIOUS
  <2>2. << >> \in Seq(S)
    OBVIOUS
  <2> QED BY <2>1, <2>2
<1>6. StartReport \in ReportType
  BY <1>4, <1>5, NoHashType DEF StartReport, ReportType
<1> QED BY <1>1, <1>2, <1>3, <1>6

\* push_violation keeps the rest of the report.
LEMMA PushedEffect ==
  ASSUME NEW r \in ReportType, NEW v \in ViolationType, v.kind # "none"
  PROVE  /\ Pushed(r, v) \in ReportType
         /\ Pushed(r, v).violation # NoViolation
         /\ Pushed(r, v).error = r.error
         /\ Pushed(r, v).last_segment = r.last_segment
         /\ Pushed(r, v).final_hmac = r.final_hmac
         /\ r.violation = NoViolation => Pushed(r, v).additional = r.additional
<1>1. v # NoViolation
  BY DEF NoViolation
<1>2. CASE r.violation = NoViolation
  <2>1. [r EXCEPT !.violation = v] \in ReportType
    BY DEF ReportType
  <2>2. /\ [r EXCEPT !.violation = v].violation = v
        /\ [r EXCEPT !.violation = v].error = r.error
        /\ [r EXCEPT !.violation = v].last_segment = r.last_segment
        /\ [r EXCEPT !.violation = v].final_hmac = r.final_hmac
        /\ [r EXCEPT !.violation = v].additional = r.additional
    BY DEF ReportType
  <2> QED BY <1>1, <1>2, <2>1, <2>2 DEF Pushed
<1>3. CASE r.violation # NoViolation
  <2>0. PICK a : a = Append(r.additional, v)
    OBVIOUS
  <2>1. a \in Seq(ViolationType)
    <3>1. r.additional \in Seq(ViolationType)
      BY DEF ReportType
    <3> QED BY <2>0, <3>1, AppendProperties
  <2>2. Pushed(r, v) = [r EXCEPT !.additional = a]
    BY <1>3, <2>0 DEF Pushed
  <2>3. [r EXCEPT !.additional = a] \in ReportType
    BY <2>1 DEF ReportType
  <2>4. /\ [r EXCEPT !.additional = a].violation = r.violation
        /\ [r EXCEPT !.additional = a].error = r.error
        /\ [r EXCEPT !.additional = a].last_segment = r.last_segment
        /\ [r EXCEPT !.additional = a].final_hmac = r.final_hmac
    BY DEF ReportType
  <2> QED BY <1>3, <2>2, <2>3, <2>4
<1> QED BY <1>2, <1>3

\* What the loop leaves behind when it goes on with the next segment or ends.
LEMMA LeaveEffect ==
  ASSUME opts \in OptsType, NEW r \in ReportType, NEW w \in WalkType, LeaveSegment(r, w)
  PROVE  /\ walk' = w
         /\ vpc' = IF w.todo = {} THEN "done" ELSE "header"
         /\ vreport' \in ReportType
         /\ vreport'.error = r.error /\ vreport'.last_segment = r.last_segment
         /\ vreport'.additional = r.additional
         /\ vpc' = "header" => vreport' = r
         /\ vpc' = "done" => vreport'.final_hmac = w.prior_final
         /\ vreport'.violation = NoViolation => r.violation = NoViolation
         /\ vpc' = "done" /\ vreport'.violation = NoViolation /\ opts.checkpoint # NoCheckpoint
              => w.reached
<1>1. CASE w.todo # {}
  BY <1>1 DEF LeaveSegment
<1>2. CASE w.todo = {}
  <2>1. vpc' = "done" /\ walk' = w /\ vreport' = Finished(r, w)
    BY <1>2 DEF LeaveSegment
  <2>2. PICK s, h : h = w.prior_final /\ s = [r EXCEPT !.final_hmac = h]
    OBVIOUS
  <2>3. h \in Hash
    BY <2>2 DEF WalkType
  <2>4. s \in ReportType
    BY <2>2, <2>3 DEF ReportType
  <2>5. /\ s.final_hmac = h /\ s.error = r.error /\ s.last_segment = r.last_segment
        /\ s.additional = r.additional /\ s.violation = r.violation
    BY <2>2 DEF ReportType
  <2>6. CASE opts.checkpoint # NoCheckpoint /\ ~w.reached /\ r.violation = NoViolation
    <3>1. PICK v : v = [kind |-> "CheckpointTruncated", segment |-> opts.checkpoint.segment,
                        record_id |-> opts.checkpoint.record_id]
      OBVIOUS
    <3>2. v \in ViolationType /\ v.kind # "none"
      BY <3>1 DEF ViolationType, OptsType, Checkpoint, Kinds
    <3>3. vreport' = Pushed(s, v)
      BY <2>1, <2>2, <2>6, <3>1 DEF Finished
    <3>4. /\ vreport' \in ReportType /\ vreport'.violation # NoViolation /\ vreport'.error = s.error
          /\ vreport'.last_segment = s.last_segment /\ vreport'.final_hmac = s.final_hmac
          /\ vreport'.additional = s.additional
      BY <2>4, <2>5, <2>6, <3>2, <3>3, PushedEffect
    <3> QED BY <1>2, <2>1, <2>2, <2>5, <3>4
  <2>7. CASE ~(opts.checkpoint # NoCheckpoint /\ ~w.reached /\ r.violation = NoViolation)
    <3>1. vreport' = s
      BY <2>1, <2>2, <2>7 DEF Finished
    <3> QED BY <1>2, <2>1, <2>2, <2>4, <2>5, <2>7, <3>1
  <2> QED BY <2>6, <2>7
<1> QED BY <1>1, <1>2

\* A violation stands, and only a forensic verification goes on after it.
LEMMA ViolateEffect ==
  ASSUME opts \in OptsType, NEW r \in ReportType, NEW w \in WalkType,
         NEW kind \in Kinds, kind # "none", NEW id \in Int, Violate(r, w, kind, id)
  PROVE  /\ walk' = w
         /\ vpc' = "done" \/ (vpc' = "header" /\ w.todo # {} /\ opts.forensic)
         /\ vreport' \in ReportType
         /\ vreport'.violation # NoViolation
         /\ vreport'.error = r.error /\ vreport'.last_segment = r.last_segment
         /\ r.violation = NoViolation => vreport'.additional = r.additional
<1>1. PICK s, v : v = [kind |-> kind, segment |-> w.seg, record_id |-> id] /\ s = Pushed(r, v)
  OBVIOUS
<1>2. v \in ViolationType /\ v.kind # "none"
  BY <1>1 DEF ViolationType, WalkType, Idx
<1>3. /\ s \in ReportType /\ s.violation # NoViolation /\ s.error = r.error
      /\ s.last_segment = r.last_segment
      /\ r.violation = NoViolation => s.additional = r.additional
  BY <1>1, <1>2, PushedEffect
<1>4. CASE opts.forensic
  <2>1. LeaveSegment(s, w)
    BY <1>1, <1>4 DEF Violate
  <2> QED BY <1>3, <1>4, <2>1, LeaveEffect
<1>5. CASE ~opts.forensic
  <2>1. vpc' = "done" /\ walk' = w /\ vreport' = s
    BY <1>1, <1>5 DEF Violate
  <2> QED BY <1>3, <2>1
<1> QED BY <1>4, <1>5

-----------------------------------------------------------------------------
(* The chain that a verification has followed. *)

\* h is the HMAC after the genesis of key k and the records recs.
CommitsTo(h, recs, k) ==
  /\ h \in Hash /\ Len(h) = Len(recs) + 1 /\ h[1] = GenesisMac(k)[1]
  /\ \A n \in 1..Len(recs) : h[n + 1] = recs[n][2].datum

\* The walk w has passed the checkpoint cp only where the chain h holds it.
Meets(w, cp, h) == w.reached => cp.hmac \in Hash /\ IsPrefixOf(cp.hmac, h)

LEMMA CommitsStart ==
  ASSUME NEW k \in Keys
  PROVE  CommitsTo(GenesisMac(k), << >>, k)
<1>1. GenesisMac(k) \in Hash /\ Len(GenesisMac(k)) = 1 /\ Len(<< >>) = 0
  BY GenesisMacType DEF GenesisMac
<1> QED BY <1>1 DEF CommitsTo

LEMMA CommitsNext ==
  ASSUME NEW h \in Hash, NEW recs \in Seq(Idx \X Chunk), NEW k, CommitsTo(h, recs, k),
         NEW i \in Idx, NEW c \in Chunk, c.kind = "record", c.prev_hash = h
  PROVE  /\ CommitsTo(ChainAfter(c), Append(recs, <<i, c>>), k)
         /\ IsPrefixOf(h, ChainAfter(c))
<1>1. PICK g, d, n, e, q : /\ g = ChainAfter(c) /\ d = c.datum /\ n = Len(recs)
                           /\ e = <<i, c>> /\ q = Append(recs, e)
  OBVIOUS
<1>2. d \in Datum /\ h \in Seq(Datum) /\ n \in Nat /\ Len(h) = n + 1 /\ e \in Idx \X Chunk
  BY <1>1, RecordFields DEF Hash, CommitsTo
<1>3. g = Append(h, d)
  BY <1>1 DEF ChainAfter, Mac
<1>4. /\ g \in Seq(Datum) /\ Len(g) = n + 2 /\ g[n + 2] = d
      /\ \A m \in 1..(n + 1) : g[m] = h[m]
  BY <1>2, <1>3
<1>5. Len(q) = n + 1 /\ q[n + 1] = e /\ \A m \in 1..n : q[m] = recs[m]
  <2>1. /\ Len(Append(recs, e)) = Len(recs) + 1 /\ Append(recs, e)[Len(recs) + 1] = e
        /\ \A m \in 1..Len(recs) : Append(recs, e)[m] = recs[m]
    BY <1>2, AppendProperties
  <2> QED BY <1>1, <2>1
<1>6. IsPrefixOf(h, g)
  BY <1>2, <1>4 DEF IsPrefixOf
<1>7. ASSUME NEW m \in 1..(n + 1) PROVE g[m + 1] = q[m][2].datum
  <2>1. CASE m = n + 1
    <3>1. m + 1 = n + 2 /\ q[m] = e /\ e[2] = c
      BY <1>1, <1>2, <1>5, <2>1
    <3> QED BY <1>1, <1>4, <3>1
  <2>2. CASE m # n + 1
    <3>1. m \in 1..n /\ m + 1 \in 1..(n + 1)
      BY <1>2, <2>2
    <3>2. h[m + 1] = recs[m][2].datum
      BY <1>1, <3>1 DEF CommitsTo
    <3> QED BY <1>4, <1>5, <3>1, <3>2
  <2> QED BY <2>1, <2>2
<1>8. g[1] = GenesisMac(k)[1]
  <2>1. 1 \in 1..(n + 1)
    BY <1>2
  <2> QED BY <1>4, <2>1 DEF CommitsTo
<1>9. Len(g) = Len(q) + 1 /\ g \in Hash
  BY <1>2, <1>4, <1>5 DEF Hash
<1>10. CommitsTo(g, q, k)
  BY <1>5, <1>7, <1>8, <1>9 DEF CommitsTo
<1> QED BY <1>1, <1>6, <1>10

LEMMA CommitsIs ==
  ASSUME NEW h, NEW recs \in Seq(Idx \X Chunk), NEW k \in Keys, CommitsTo(h, recs, k)
  PROVE  h = GenesisMac(k) \o DatumsOf(recs)
<1>1. PICK n, a, b : n = Len(recs) /\ a = GenesisMac(k) /\ b = DatumsOf(recs)
  OBVIOUS
<1>2. /\ n \in Nat /\ h \in Seq(Datum) /\ Len(h) = n + 1 /\ h[1] = a[1]
      /\ \A m \in 1..n : h[m + 1] = recs[m][2].datum
  BY <1>1 DEF CommitsTo, Hash
<1>3. a \in Seq(Datum) /\ Len(a) = 1
  BY <1>1, GenesisMacType DEF GenesisMac, Hash
<1>4. b = [m \in 1..n |-> recs[m][2].datum]
  BY <1>1 DEF DatumsOf
<1>5. \A m \in 1..n : recs[m][2].datum \in Datum
  <2>1. \A m \in 1..n : m + 1 \in 1..Len(h)
    BY <1>2
  <2> QED BY <1>2, <2>1, ElementOfSeq
<1>6. b \in [1..n -> Datum]
  BY <1>4, <1>5
<1>7. b \in Seq(Datum) /\ Len(b) = n
  BY <1>2, <1>6
<1>8. /\ (a \o b) \in Seq(Datum) /\ Len(a \o b) = Len(a) + Len(b)
      /\ \A m \in 1..(Len(a) + Len(b)) : (a \o b)[m] = IF m <= Len(a) THEN a[m] ELSE b[m - Len(a)]
  <2>1. a \in Seq(Datum) /\ b \in Seq(Datum)
    BY <1>3, <1>7
  <2> QED BY <2>1, ConcatProperties, ZenonT(40)
<1>9. PICK t : t = a \o b
  OBVIOUS
<1>10. /\ t \in Seq(Datum) /\ Len(t) = n + 1
       /\ \A m \in 1..(n + 1) : t[m] = IF m <= 1 THEN a[m] ELSE b[m - 1]
  <2>1. Len(a) = 1 /\ Len(b) = n /\ Len(a) + Len(b) = n + 1
    BY <1>2, <1>3, <1>7
  <2> QED BY <1>8, <1>9, <2>1
<1>11. ASSUME NEW m \in 1..(n + 1) PROVE h[m] = t[m]
  <2>1. CASE m = 1
    BY <1>2, <1>10, <2>1
  <2>2. CASE m # 1
    <3>1. m - 1 \in 1..n /\ (m - 1) + 1 = m /\ ~(m <= 1)
      BY <1>2, <2>2
    <3>2. h[m] = recs[m - 1][2].datum
      BY <1>2, <3>1
    <3>3. b[m - 1] = recs[m - 1][2].datum
      BY <1>4, <3>1
    <3> QED BY <1>10, <3>1, <3>2, <3>3
  <2> QED BY <2>1, <2>2
<1>12. h = t
  BY <1>2, <1>10, <1>11, SeqEqual
<1> QED BY <1>1, <1>9, <1>12

LEMMA FirstOf ==
  ASSUME NEW S \in SUBSET Idx, S # {}
  PROVE  First(S) \in S /\ \A j \in S : First(S) <= j
<1>1. S \in SUBSET Nat
  BY DEF Idx
<1>2. \E i \in S : \A j \in S : i <= j
  BY <1>1, LeastNat
<1> QED BY <1>2 DEF First

-----------------------------------------------------------------------------
(* The steps of a verification. *)

\* Where the verification is, and what it has reported so far.
PathInv ==
  /\ walk.todo \subseteq listed
  /\ vpc # "idle" => opts.key_id \in Keys /\ listed \subseteq entries
  /\ vpc = "header" => walk.todo # {}
  /\ vpc = "record" => walk.seg \in listed /\ walk.pos >= 1 /\ vreport.last_segment \in listed
  /\ vpc = "done" /\ vreport.error = "none" => vreport.last_segment \in listed
  /\ vreport.violation = NoViolation => vreport.additional = << >>
  /\ vreport.additional # << >> => opts.forensic
  /\ vpc \in {"header", "record"} => vreport.error = "none"
  /\ vpc \in {"header", "record"} /\ ~opts.forensic => vreport.violation = NoViolation

\* What a verification that starts at the genesis has followed while it has
\* nothing to report.
CheckInv ==
  0 \in listed /\ vreport.violation = NoViolation /\ vreport.error = "none" =>
    /\ vpc = "header" =>
         \/ 0 \in walk.todo /\ walked = << >> /\ walk.prior_final = NoHash /\ ~walk.reached
         \/ /\ 0 \notin walk.todo
            /\ CommitsTo(walk.prior_final, walked, opts.key_id)
            /\ Meets(walk, opts.checkpoint, walk.prior_final)
    /\ vpc = "record" =>
         /\ 0 \notin walk.todo
         /\ CommitsTo(walk.prev, walked, opts.key_id)
         /\ Meets(walk, opts.checkpoint, walk.prev)
    /\ vpc = "done" =>
         /\ CommitsTo(vreport.final_hmac, walked, opts.key_id)
         /\ Meets(walk, opts.checkpoint, vreport.final_hmac)
         /\ opts.checkpoint # NoCheckpoint => walk.reached

VerifyInv == FileInv /\ StateInv /\ PathInv /\ CheckInv

\* A violation leaves nothing to claim of the chain.
LEMMA ViolateKeeps ==
  ASSUME StateInv, PathInv, vpc \in {"header", "record"},
         NEW r \in ReportType, NEW w \in WalkType, NEW kind \in Kinds, kind # "none",
         NEW id \in Int, Violate(r, w, kind, id),
         w.todo \subseteq listed, r.last_segment \in listed, r.violation = vreport.violation,
         r.additional = vreport.additional, r.error = vreport.error,
         UNCHANGED <<opts, listed, saved, edits, walked, entries>>
  PROVE  StateInv' /\ PathInv' /\ CheckInv' /\ vpc' # "record"
<1>0. opts \in OptsType
  BY DEF StateInv
<1>1. /\ walk' = w /\ vpc' \in {"done", "header"}
      /\ vpc' = "header" => w.todo # {} /\ opts.forensic
      /\ vreport' \in ReportType /\ vreport'.violation # NoViolation
      /\ vreport'.error = r.error /\ vreport'.last_segment = r.last_segment
      /\ r.violation = NoViolation => vreport'.additional = r.additional
  BY <1>0, ViolateEffect
<1>2. StateInv'
  BY <1>1 DEF StateInv
<1>3. CheckInv'
  BY <1>1 DEF CheckInv
<1>4. opts.key_id \in Keys /\ listed \subseteq entries /\ vreport.error = "none"
  BY DEF PathInv
<1>5. vreport'.additional # << >> => opts.forensic
  <2>1. CASE opts.forensic
    BY <2>1
  <2>2. CASE ~opts.forensic
    <3>1. vreport.violation = NoViolation /\ vreport.additional = << >>
      BY <2>2 DEF PathInv
    <3> QED BY <1>1, <3>1
  <2> QED BY <2>1, <2>2
<1>6. PathInv'
  BY <1>1, <1>4, <1>5 DEF PathInv
<1> QED BY <1>1, <1>2, <1>3, <1>6

LEMMA StartKeeps ==
  ASSUME VerifyInv, NEW k \in Keys, NEW forensic \in BOOLEAN, NEW cp \in {NoCheckpoint, saved},
         StartVerify(k, forensic, cp), UNCHANGED vars
  PROVE  StateInv' /\ PathInv' /\ CheckInv'
<1>0. /\ Visible \subseteq entries /\ Visible \subseteq Idx /\ cp \in Checkpoint
      /\ entries' = entries
  BY StartTypes DEF VerifyInv, FileInv, StateInv, Visible, vars
<1>1. PICK o, w : o = [key_id |-> k, forensic |-> forensic, checkpoint |-> cp]
                  /\ w = [StartWalk EXCEPT !.todo = Visible]
  OBVIOUS
<1>2. o \in OptsType
  <2>1. k \in Keys \cup {NoHash}
    OBVIOUS
  <2> QED BY <1>0, <1>1, <2>1 DEF OptsType
<1>3. w \in WalkType /\ w.todo = Visible /\ w.prior_final = NoHash /\ w.reached = FALSE
  BY <1>0, <1>1, StartTypes DEF WalkType, StartWalk
<1>4. /\ opts' = o /\ listed' = Visible /\ walk' = w /\ walked' = << >>
      /\ saved' = saved /\ edits' = edits
  BY <1>1 DEF StartVerify
<1>5. walked' \in Seq(Idx \X Chunk)
  <2>1. PICK S : S = Idx \X Chunk
    OBVIOUS
  <2>2. << >> \in Seq(S)
    OBVIOUS
  <2> QED BY <1>4, <2>1, <2>2
<1>6. StartReport.violation = NoViolation /\ StartReport.additional = << >> /\ StartReport.error = "none"
  BY DEF StartReport
<1>7. o.key_id = k
  BY <1>1
<1>e. ASSUME NEW e \in {"NoSegments", "CheckpointKeyMismatch"}, vpc' = "done",
             vreport' = [StartReport EXCEPT !.error = e]
      PROVE  StateInv' /\ PathInv' /\ CheckInv'
  <2>1. vreport' \in ReportType /\ vreport'.error = e /\ vreport'.additional = << >>
        /\ vreport'.violation = NoViolation
    <3>1. StartReport \in ReportType
      BY StartTypes
    <3> QED BY <1>e, <1>6, <3>1 DEF ReportType
  <2>2. StateInv'
    BY <1>0, <1>2, <1>3, <1>4, <1>5, <1>e, <2>1 DEF StateInv, VerifyInv
  <2>3. PathInv'
    BY <1>0, <1>3, <1>4, <1>7, <1>e, <2>1 DEF PathInv
  <2>4. CheckInv'
    BY <2>1 DEF CheckInv
  <2> QED BY <2>2, <2>3, <2>4
<1>g. ASSUME Visible # {}, vpc' = "header", vreport' = StartReport
      PROVE  StateInv' /\ PathInv' /\ CheckInv'
  <2>2. StateInv'
    BY <1>0, <1>2, <1>3, <1>4, <1>5, <1>g, StartTypes DEF StateInv, VerifyInv
  <2>3. PathInv'
    BY <1>0, <1>3, <1>4, <1>6, <1>7, <1>g DEF PathInv
  <2>4. CheckInv'
    BY <1>3, <1>4, <1>g DEF CheckInv
  <2> QED BY <2>2, <2>3, <2>4
<1> QED BY <1>e, <1>g DEF StartVerify

\* The checks of a segment header.
LEMMA HeaderChecked ==
  ASSUME FileInv, NEW i \in Idx
  PROVE  /\ HeaderFault(i) \in Kinds
         /\ HeaderFault(i) = "none" =>
              /\ file[i] # << >> /\ file[i][1] \in Chunk /\ file[i][1].kind = "header"
              /\ file[i][1].prev_final \in Hash
<1>1. HeaderFault(i) \in Kinds
  BY DEF HeaderFault, Kinds
<1>2. ASSUME HeaderFault(i) = "none"
      PROVE  /\ file[i] # << >> /\ file[i][1] \in Chunk /\ file[i][1].kind = "header"
             /\ file[i][1].prev_final \in Hash
  <2>1. HasHeader(file[i])
    BY <1>2 DEF HeaderFault
  <2>2. file[i] # << >> /\ file[i][1].kind = "header" /\ file[i] \in Seq(Chunk)
    BY <2>1 DEF HasHeader, FileInv
  <2>3. 1 \in 1..Len(file[i])
    BY <2>2
  <2>4. file[i][1] \in Chunk
    BY <2>2, <2>3, ElementOfSeq
  <2> QED BY <2>2, <2>4, HeaderFields
<1> QED BY <1>1, <1>2

LEMMA HeaderKeeps ==
  ASSUME VerifyInv, VerifyHeader, UNCHANGED vars
  PROVE  /\ StateInv' /\ PathInv' /\ CheckInv'
         /\ vpc' = "record" => /\ walk'.seg \in Idx /\ walk'.pos = 1
                               /\ HasHeader(file[walk'.seg])
<1>1. PICK i, h, r, w : /\ i = First(walk.todo) /\ h = file[i][1]
                        /\ r = [vreport EXCEPT !.last_segment = i]
                        /\ w = [walk EXCEPT !.todo = @ \ {i}, !.seg = i]
  OBVIOUS
<1>2. /\ walk \in WalkType /\ vreport \in ReportType /\ walk.todo \subseteq Idx
      /\ walk.todo # {} /\ walk.todo \subseteq listed /\ vpc = "header"
  BY DEF VerifyInv, StateInv, PathInv, WalkType, VerifyHeader
<1>3. i \in walk.todo /\ i \in Idx /\ i \in listed /\ (\A j \in walk.todo : i <= j)
  BY <1>1, <1>2, FirstOf
<1>4. /\ w \in WalkType /\ w.todo = walk.todo \ {i} /\ w.seg = i
      /\ w.prior_final = walk.prior_final /\ w.reached = walk.reached
  <2>1. walk.todo \ {i} \in SUBSET Idx
    BY <1>2
  <2>2. PICK td : td = walk.todo \ {i}
    OBVIOUS
  <2>3. w = [walk EXCEPT !.todo = td, !.seg = i] /\ td \in SUBSET Idx
    BY <1>1, <2>1, <2>2
  <2>4. w \in WalkType /\ w.todo = td /\ w.seg = i
    BY <1>2, <1>3, <2>3 DEF WalkType
  <2>5. w.prior_final = walk.prior_final /\ w.reached = walk.reached
    BY <1>2, <2>3 DEF WalkType
  <2> QED BY <2>2, <2>4, <2>5
<1>5. /\ r \in ReportType /\ r.last_segment = i /\ r.violation = vreport.violation
      /\ r.additional = vreport.additional /\ r.error = vreport.error
  <2>1. i \in Int
    BY <1>3 DEF Idx
  <2> QED BY <1>1, <1>2, <2>1 DEF ReportType
<1>6. UNCHANGED <<opts, listed, saved, edits, walked, entries>>
  BY DEF VerifyHeader, vars
<1>7. FileInv /\ StateInv /\ PathInv /\ CheckInv
  BY DEF VerifyInv
<1>v. ASSUME NEW kind \in Kinds, kind # "none", Violate(r, w, kind, -1)
      PROVE  StateInv' /\ PathInv' /\ CheckInv' /\ vpc' # "record"
  <2>1. -1 \in Int /\ w.todo \subseteq listed /\ r.last_segment \in listed
        /\ vpc \in {"header", "record"}
    BY <1>2, <1>3, <1>4, <1>5
  <2> QED BY <1>4, <1>5, <1>6, <1>7, <1>v, <2>1, ViolateKeeps
<1>8. CASE HeaderFault(i) # "none"
  <2>1. Violate(r, w, HeaderFault(i), -1)
    BY <1>1, <1>8 DEF VerifyHeader
  <2> QED BY <1>3, <1>7, <1>8, <1>v, <2>1, HeaderChecked
<1>9. CASE HeaderFault(i) = "none" /\ w.prior_final # NoHash /\ h.prev_final # w.prior_final
  <2>1. Violate(r, w, "SegmentDiscontinuity", -1)
    BY <1>1, <1>9 DEF VerifyHeader
  <2>2. "SegmentDiscontinuity" \in Kinds
    BY DEF Kinds
  <2> QED BY <1>v, <2>1, <2>2
<1>10. CASE HeaderFault(i) = "none" /\ ~(w.prior_final # NoHash /\ h.prev_final # w.prior_final)
  <2>1. PICK g : g = SegmentStart(i, h)
    OBVIOUS
  <2>2. /\ walk' = [w EXCEPT !.pos = 1, !.next_id = 0, !.prev = g]
        /\ vreport' = r /\ vpc' = "record"
    BY <1>1, <1>10, <2>1 DEF VerifyHeader
  <2>3. opts.key_id \in Keys /\ listed \subseteq entries
    BY <1>2, <1>7 DEF PathInv
  <2>4. h.prev_final \in Hash
    BY <1>1, <1>3, <1>7, <1>10, HeaderChecked
  <2>5. g \in Hash
    BY <2>1, <2>3, <2>4, GenesisMacType DEF SegmentStart
  <2>6. walk' \in WalkType
    <3>0. PICK z \in Int : z = 0
      OBVIOUS
    <3>1. PICK a, b : a = [w EXCEPT !.pos = 1] /\ b = [a EXCEPT !.next_id = z]
      OBVIOUS
    <3>2. a \in WalkType
      BY <1>4, <3>1 DEF WalkType
    <3>3. b \in WalkType
      BY <3>1, <3>2 DEF WalkType
    <3>4. [b EXCEPT !.prev = g] \in WalkType
      BY <2>5, <3>3 DEF WalkType
    <3> QED BY <2>2, <3>0, <3>1, <3>4
  <2>7. /\ walk'.todo = w.todo /\ walk'.seg = i /\ walk'.pos = 1
        /\ walk'.prev = g /\ walk'.reached = walk.reached
    BY <1>4, <2>2 DEF WalkType
  <2>8. StateInv'
    BY <1>5, <1>6, <1>7, <2>2, <2>6 DEF StateInv
  <2>9. vreport'.last_segment \in listed' /\ walk'.seg \in listed' /\ walk'.pos >= 1
        /\ walk'.todo \subseteq listed'
    BY <1>2, <1>3, <1>4, <1>5, <1>6, <2>2, <2>7
  <2>10. PathInv'
    BY <1>2, <1>5, <1>6, <1>7, <2>2, <2>3, <2>9 DEF PathInv
  <2>11. ASSUME 0 \in listed, vreport.violation = NoViolation
         PROVE  0 \notin walk'.todo /\ CommitsTo(g, walked, opts.key_id) /\ Meets(walk', opts.checkpoint, g)
    <3>0. /\ vreport.error = "none"
          /\ \/ 0 \in walk.todo /\ walked = << >> /\ walk.prior_final = NoHash /\ ~walk.reached
             \/ /\ 0 \notin walk.todo
                /\ CommitsTo(walk.prior_final, walked, opts.key_id)
                /\ Meets(walk, opts.checkpoint, walk.prior_final)
      <4>1. vreport.error = "none"
        BY <1>2, <1>7 DEF PathInv
      <4> QED BY <1>2, <1>7, <2>11, <4>1 DEF CheckInv
    <3>1. CASE 0 \in walk.todo /\ walked = << >> /\ ~walk.reached
      <4>1. i = 0
        BY <1>3, <3>1 DEF Idx
      <4>2. g = GenesisMac(opts.key_id)
        BY <2>1, <4>1 DEF SegmentStart
      <4>3. CommitsTo(g, walked, opts.key_id)
        BY <2>3, <3>1, <4>2, CommitsStart
      <4>4. Meets(walk', opts.checkpoint, g)
        BY <2>7, <3>1 DEF Meets
      <4> QED BY <1>4, <2>7, <4>1, <4>3, <4>4
    <3>2. CASE /\ 0 \notin walk.todo
               /\ CommitsTo(walk.prior_final, walked, opts.key_id)
               /\ Meets(walk, opts.checkpoint, walk.prior_final)
      <4>1. i # 0 /\ 0 \notin walk'.todo
        BY <1>3, <1>4, <2>7, <3>2
      <4>2. walk.prior_final # NoHash
        <5>1. Len(walk.prior_final) = Len(walked) + 1 /\ Len(walked) \in Nat
          BY <1>7, <3>2 DEF CommitsTo, StateInv
        <5> QED BY <5>1 DEF NoHash
      <4>3. g = walk.prior_final
        BY <1>4, <1>10, <2>1, <4>1, <4>2 DEF SegmentStart
      <4>4. Meets(walk', opts.checkpoint, g)
        BY <2>7, <3>2, <4>3 DEF Meets
      <4> QED BY <3>2, <4>1, <4>3, <4>4
    <3> QED BY <3>0, <3>1, <3>2
  <2>12. CheckInv'
    BY <1>5, <1>6, <2>2, <2>7, <2>11 DEF CheckInv
  <2>13. HasHeader(file[i])
    BY <1>3, <1>7, <1>10, HeaderChecked DEF HasHeader
  <2> QED BY <1>3, <2>7, <2>8, <2>10, <2>12, <2>13
<1> QED BY <1>8, <1>9, <1>10

LEMMA SegmentEndKeeps ==
  ASSUME VerifyInv, VerifySegmentEnd, UNCHANGED vars
  PROVE  StateInv' /\ PathInv' /\ CheckInv'
<1>1. PICK w : w = [walk EXCEPT !.prior_final = walk.prev]
  OBVIOUS
<1>2. /\ walk \in WalkType /\ vreport \in ReportType /\ opts \in OptsType
      /\ vpc = "record" /\ walk.todo \subseteq listed /\ walk.prev \in Hash
  BY DEF VerifyInv, StateInv, PathInv, WalkType, VerifySegmentEnd
<1>3. w \in WalkType
  BY <1>1, <1>2 DEF WalkType
<1>4. w.todo = walk.todo /\ w.prior_final = walk.prev /\ w.reached = walk.reached
  BY <1>1, <1>2 DEF WalkType
<1>5. LeaveSegment(vreport, w)
  BY <1>1 DEF VerifySegmentEnd
<1>6. UNCHANGED <<opts, listed, saved, edits, walked, entries>>
  BY DEF VerifySegmentEnd, vars
<1>7. /\ walk' = w /\ vpc' = (IF w.todo = {} THEN "done" ELSE "header")
      /\ vreport' \in ReportType
      /\ vreport'.error = vreport.error /\ vreport'.last_segment = vreport.last_segment
      /\ vreport'.additional = vreport.additional
      /\ vpc' = "header" => vreport' = vreport
      /\ vpc' = "done" => vreport'.final_hmac = w.prior_final
      /\ vreport'.violation = NoViolation => vreport.violation = NoViolation
      /\ vpc' = "done" /\ vreport'.violation = NoViolation /\ opts.checkpoint # NoCheckpoint
           => w.reached
  BY <1>2, <1>3, <1>5, LeaveEffect
<1>8. StateInv'
  BY <1>3, <1>6, <1>7 DEF StateInv, VerifyInv
<1>9. PathInv'
  <2>1. /\ vreport.last_segment \in listed /\ vreport.error = "none"
        /\ opts.key_id \in Keys /\ listed \subseteq entries
        /\ vreport.violation = NoViolation => vreport.additional = << >>
        /\ vreport.additional # << >> => opts.forensic
        /\ ~opts.forensic => vreport.violation = NoViolation
    BY <1>2 DEF VerifyInv, PathInv
  <2> QED BY <1>2, <1>4, <1>6, <1>7, <2>1 DEF PathInv
<1>10. CheckInv'
  <2>1. ASSUME 0 \in listed, vreport'.violation = NoViolation
        PROVE  /\ 0 \notin walk.todo /\ CommitsTo(walk.prev, walked, opts.key_id)
               /\ Meets(walk, opts.checkpoint, walk.prev)
    BY <1>2, <1>7, <2>1 DEF VerifyInv, PathInv, CheckInv
  <2>2. \A h : Meets(walk, opts.checkpoint, h) => Meets(walk', opts.checkpoint, h)
    BY <1>4, <1>7 DEF Meets
  <2> QED BY <1>4, <1>6, <1>7, <2>1, <2>2 DEF CheckInv
<1> QED BY <1>8, <1>9, <1>10

\* The checks of framed bytes behind a header.
LEMMA RecordChecked ==
  ASSUME NEW c \in Chunk, c.kind # "header", StateInv
  PROVE  /\ Judgement(c) = "accept" =>
              /\ c.kind = "record" /\ c.prev_hash = walk.prev
              /\ AtCheckpoint(c) => ChainAfter(c) = opts.checkpoint.hmac
         /\ Judgement(c) # "accept" =>
              Judgement(c) \in Kinds \ {"none"} /\ ReportedId(c, Judgement(c)) \in Int
<1>1. c.kind \in {"record", "torn", "bad"}
  BY DEF Chunk, Torn, Bad
<1>2. ASSUME Judgement(c) = "accept"
      PROVE  /\ c.kind = "record" /\ c.prev_hash = walk.prev
             /\ AtCheckpoint(c) => ChainAfter(c) = opts.checkpoint.hmac
  BY <1>1, <1>2 DEF Judgement
<1>3. ASSUME Judgement(c) # "accept"
      PROVE  Judgement(c) \in Kinds \ {"none"} /\ ReportedId(c, Judgement(c)) \in Int
  <2>1. Judgement(c) \in Kinds \ {"none"}
    BY <1>3 DEF Judgement, Kinds
  <2>2. walk.next_id \in Int
    BY DEF StateInv, WalkType
  <2>3. Judgement(c) \in {"RecordCorrupt", "HmacMismatch"} \/ c.kind = "record"
    BY <1>1 DEF Judgement
  <2>4. c.kind = "record" => c.datum.record_id \in Int
    BY RecordFields DEF Datum
  <2> QED BY <2>1, <2>2, <2>3, <2>4 DEF ReportedId
<1> QED BY <1>2, <1>3

\* Where the verifier reads a record.
LEMMA FrameType ==
  ASSUME VerifyInv, vpc = "record", walk.pos < Len(file[walk.seg])
  PROVE  /\ NextFrame \in Chunk /\ NextFrame.kind # "header"
         /\ walk.seg \in Idx /\ walk.pos \in Nat /\ walk.pos >= 1
<1>1. PICK i, s, n : i = walk.seg /\ s = file[i] /\ n = walk.pos
  OBVIOUS
<1>2. i \in Idx /\ n \in Nat /\ n >= 1
  BY <1>1 DEF VerifyInv, StateInv, WalkType, PathInv
<1>3. s \in Seq(Chunk) /\ Headed(s) /\ n < Len(s)
  BY <1>1, <1>2 DEF VerifyInv, FileInv
<1>4. n + 1 \in 1..Len(s) /\ n + 1 \in 2..Len(s)
  BY <1>2, <1>3
<1>5. s[n + 1] \in Chunk
  BY <1>3, <1>4, ElementOfSeq
<1>6. s[n + 1].kind # "header"
  BY <1>3, <1>4 DEF Headed
<1> QED BY <1>1, <1>2, <1>5, <1>6 DEF NextFrame

LEMMA WallType ==
  ASSUME NEW c \in Chunk, c.kind = "record", StateInv
  PROVE  WallOf(c) \in Int
<1>1. c.datum.input \in Inputs \cup {NoInput}
  BY RecordFields DEF Datum
<1>2. walk.prior_ts \in Int
  BY DEF StateInv, WalkType
<1> QED BY <1>1, <1>2, VerifierAssumption DEF WallOf

LEMMA RecordKeeps ==
  ASSUME VerifyInv, VerifyRecord, UNCHANGED vars
  PROVE  /\ StateInv' /\ PathInv' /\ CheckInv'
         /\ vpc' = "record" => /\ walk'.seg = walk.seg /\ walk'.pos = walk.pos + 1
                               /\ NextFrame.kind = "record"
<1>1. PICK c, v : c = NextFrame /\ v = Judgement(c)
  OBVIOUS
<1>2. vpc = "record" /\ walk.pos < Len(file[walk.seg])
  BY DEF VerifyRecord
<1>3. /\ c \in Chunk /\ c.kind # "header" /\ walk.seg \in Idx
      /\ walk.pos \in Nat /\ walk.pos >= 1
  BY <1>1, <1>2, FrameType
<1>4. UNCHANGED <<opts, listed, saved, edits, entries>>
  BY DEF VerifyRecord, vars
<1>5. StateInv /\ PathInv /\ CheckInv
  BY DEF VerifyInv
<1>6. walk \in WalkType /\ vreport \in ReportType /\ opts \in OptsType
  BY <1>5 DEF StateInv
<1>7. CASE v # "accept"
  <2>1. Violate(vreport, walk, v, ReportedId(c, v)) /\ UNCHANGED walked
    BY <1>1, <1>7 DEF VerifyRecord
  <2>2. v \in Kinds /\ v # "none" /\ ReportedId(c, v) \in Int
    BY <1>1, <1>3, <1>5, <1>7, RecordChecked
  <2>3. walk.todo \subseteq listed /\ vreport.last_segment \in listed
    BY <1>2, <1>5 DEF PathInv
  <2> QED BY <1>2, <1>4, <1>5, <1>6, <2>1, <2>2, <2>3, ViolateKeeps
<1>8. CASE v = "accept"
  <2>1. PICK g, ts, id, at, e : /\ g = ChainAfter(c) /\ ts = WallOf(c) /\ id = c.datum.record_id + 1
                                /\ at = AtCheckpoint(c) /\ e = <<walk.seg, c>>
    OBVIOUS
  <2>2. /\ walk' = [walk EXCEPT !.pos = @ + 1, !.prev = g, !.prior_ts = ts, !.next_id = id,
                                !.reached = @ \/ AtCheckpoint(c)]
        /\ walked' = Append(walked, e) /\ vpc' = vpc /\ vreport' = vreport
    BY <1>1, <1>8, <2>1 DEF VerifyRecord
  <2>3. /\ c.kind = "record" /\ c.prev_hash = walk.prev
        /\ AtCheckpoint(c) => g = opts.checkpoint.hmac
    BY <1>1, <1>3, <1>5, <1>8, <2>1, RecordChecked
  <2>4. g \in Hash /\ ts \in Int /\ id \in Int /\ e \in Idx \X Chunk
    <3>1. c.datum.record_id \in Nat
      BY <1>3, <2>3, RecordFields DEF Datum
    <3> QED BY <1>3, <1>5, <2>1, <2>3, <3>1, ChainAfterType, WallType
  <2>5. PICK p, q : p = walk.pos + 1 /\ q = (walk.reached \/ AtCheckpoint(c))
    OBVIOUS
  <2>6. q \in BOOLEAN /\ p \in Nat
    BY <1>3, <2>5
  <2>7. walk' = [walk EXCEPT !.pos = p, !.prev = g, !.prior_ts = ts, !.next_id = id, !.reached = q]
    BY <2>2, <2>5
  <2>8. walk' \in WalkType
    <3>1. PICK a, b, d : /\ a = [walk EXCEPT !.pos = p] /\ b = [a EXCEPT !.prev = g]
                         /\ d = [b EXCEPT !.prior_ts = ts]
      OBVIOUS
    <3>2. a \in WalkType
      BY <1>6, <2>6, <3>1 DEF WalkType
    <3>3. b \in WalkType
      BY <2>4, <3>1, <3>2 DEF WalkType
    <3>4. d \in WalkType
      BY <2>4, <3>1, <3>3 DEF WalkType
    <3>5. PICK f : f = [d EXCEPT !.next_id = id]
      OBVIOUS
    <3>6. f \in WalkType
      BY <2>4, <3>4, <3>5 DEF WalkType
    <3>7. [f EXCEPT !.reached = q] \in WalkType
      BY <2>6, <3>6 DEF WalkType
    <3> QED BY <2>7, <3>1, <3>5, <3>7
  <2>9. /\ walk'.todo = walk.todo /\ walk'.seg = walk.seg /\ walk'.pos = p
        /\ walk'.prev = g /\ walk'.reached = q
    BY <1>6, <2>7 DEF WalkType
  <2>10. walked' \in Seq(Idx \X Chunk) /\ walked \in Seq(Idx \X Chunk)
    <3>1. walked \in Seq(Idx \X Chunk)
      BY <1>5 DEF StateInv
    <3> QED BY <2>2, <2>4, <3>1, AppendProperties
  <2>11. StateInv'
    BY <1>4, <1>5, <2>2, <2>8, <2>10 DEF StateInv
  <2>12. walk'.seg \in listed /\ walk'.pos >= 1 /\ walk'.todo \subseteq listed
    BY <1>2, <1>3, <1>5, <2>5, <2>9 DEF PathInv
  <2>13. PathInv'
    BY <1>2, <1>4, <1>5, <2>2, <2>12 DEF PathInv
  <2>14. ASSUME 0 \in listed, vreport.violation = NoViolation, vreport.error = "none"
         PROVE  /\ 0 \notin walk'.todo /\ CommitsTo(g, walked', opts.key_id)
                /\ Meets(walk', opts.checkpoint, g)
    <3>1. /\ 0 \notin walk.todo /\ CommitsTo(walk.prev, walked, opts.key_id)
          /\ Meets(walk, opts.checkpoint, walk.prev)
      BY <1>2, <1>5, <2>14 DEF CheckInv
    <3>2. walk.prev \in Hash
      BY <3>1 DEF CommitsTo
    <3>3. CommitsTo(g, walked', opts.key_id) /\ IsPrefixOf(walk.prev, g)
      BY <1>3, <2>1, <2>2, <2>3, <2>10, <3>1, <3>2, CommitsNext
    <3>4. ASSUME q PROVE opts.checkpoint.hmac \in Hash /\ IsPrefixOf(opts.checkpoint.hmac, g)
      <4>1. CASE AtCheckpoint(c)
        <5>1. opts.checkpoint.hmac = g
          BY <2>3, <4>1
        <5>2. IsPrefixOf(g, g)
          BY <2>4 DEF IsPrefixOf, Hash
        <5> QED BY <2>4, <5>1, <5>2
      <4>2. CASE walk.reached
        <5>1. PICK x : x = opts.checkpoint.hmac
          OBVIOUS
        <5>2. x \in Hash /\ IsPrefixOf(x, walk.prev)
          BY <3>1, <4>2, <5>1 DEF Meets
        <5>3. Len(x) \in Nat /\ Len(walk.prev) \in Nat /\ Len(g) \in Nat
          BY <2>4, <3>2, <5>2 DEF Hash
        <5>4. IsPrefixOf(x, g)
          BY <3>3, <5>2, <5>3 DEF IsPrefixOf
        <5> QED BY <5>1, <5>2, <5>4
      <4> QED BY <2>5, <3>4, <4>1, <4>2
    <3>5. Meets(walk', opts.checkpoint, g)
      BY <2>9, <3>4 DEF Meets
    <3> QED BY <2>9, <3>1, <3>3, <3>5
  <2>15. CheckInv'
    BY <1>2, <1>4, <2>2, <2>9, <2>14 DEF CheckInv
  <2> QED BY <1>1, <2>3, <2>5, <2>9, <2>11, <2>13, <2>15
<1> QED BY <1>7, <1>8

LEMMA SaveKeeps ==
  ASSUME VerifyInv, SaveCheckpoint, UNCHANGED vars
  PROVE  StateInv' /\ PathInv' /\ CheckInv' /\ vpc' # "record"
<1>0. StateInv /\ PathInv /\ CheckInv /\ FileInv
  BY DEF VerifyInv
<1>1. PICK i, s, n, c : i = vreport.last_segment /\ s = file[i] /\ n = Len(s) /\ c = s[n]
  OBVIOUS
<1>2. vpc = "done" /\ vreport.error = "none"
  BY DEF SaveCheckpoint, Verified
<1>3. i \in entries /\ i \in Idx /\ opts.key_id \in Keys
  BY <1>0, <1>1, <1>2 DEF PathInv, FileInv
<1>4. s \in Seq(Chunk) /\ n \in Nat /\ n > 1
  BY <1>0, <1>1, <1>3 DEF SaveCheckpoint, FileInv
<1>5. n \in 2..Len(s) /\ n \in 1..Len(s)
  BY <1>1, <1>4
<1>6. c.kind = "record"
  BY <1>1, <1>3, <1>5 DEF SaveCheckpoint
<1>7. c \in Chunk
  BY <1>1, <1>4, <1>5, ElementOfSeq
<1>8. c.datum.record_id \in Int
  BY <1>6, <1>7, RecordFields DEF Datum
<1>9. vreport.final_hmac \in Hash /\ i \in Int
  BY <1>0, <1>1 DEF StateInv, ReportType
<1>10. saved' = [segment |-> i, record_id |-> c.datum.record_id, key_id |-> opts.key_id,
                 hmac |-> vreport.final_hmac]
  BY <1>1 DEF SaveCheckpoint
<1>11. opts.key_id \in Keys \cup {NoHash}
  BY <1>3
<1>12. saved' \in Checkpoint
  BY <1>8, <1>9, <1>10, <1>11 DEF Checkpoint
<1>13. UNCHANGED <<vpc, opts, listed, walk, vreport, edits, walked, entries>>
  BY DEF SaveCheckpoint, vars
<1>14. StateInv'
  BY <1>0, <1>12, <1>13 DEF StateInv
<1>15. PathInv'
  BY <1>0, <1>13 DEF PathInv
<1>16. CheckInv'
  BY <1>0, <1>13 DEF CheckInv
<1> QED BY <1>2, <1>13, <1>14, <1>15, <1>16

LEMMA EndKeeps ==
  ASSUME VerifyInv, EndVerify, UNCHANGED vars
  PROVE  StateInv' /\ PathInv' /\ CheckInv'
<1>1. /\ vpc' = "idle" /\ opts' = NoOpts /\ listed' = {} /\ walk' = StartWalk
      /\ vreport' = StartReport /\ walked' = << >> /\ saved' = saved /\ edits' = edits
  BY DEF EndVerify
<1>2. walked' \in Seq(Idx \X Chunk)
  <2>1. PICK S : S = Idx \X Chunk
    OBVIOUS
  <2>2. << >> \in Seq(S)
    OBVIOUS
  <2> QED BY <1>1, <2>1, <2>2
<1>3. StateInv'
  BY <1>1, <1>2, StartTypes DEF StateInv, VerifyInv
<1>4. StartWalk.todo = {} /\ StartReport.additional = << >> /\ StartReport.violation = NoViolation
  BY DEF StartWalk, StartReport
<1>5. PathInv'
  BY <1>1, <1>4 DEF PathInv
<1>6. CheckInv'
  BY <1>1 DEF CheckInv
<1> QED BY <1>3, <1>5, <1>6

-----------------------------------------------------------------------------
(* The invariants of the log, its writer, its editor and its verifier. *)

\* Until the first outside change the files are the writer's.
WriterInv == edits = 0 => IInv

LEMMA VerifierSteps ==
  ASSUME VerifierNext
  PROVE  \/ \E k \in Keys, forensic \in BOOLEAN, cp \in {NoCheckpoint, saved} :
              StartVerify(k, forensic, cp)
         \/ VerifyHeader \/ VerifyRecord \/ VerifySegmentEnd \/ SaveCheckpoint \/ EndVerify
BY DEF VerifierNext

LEMMA EditEffect ==
  ASSUME Edit, StateInv
  PROVE  /\ vpc = "idle" /\ edits' \in 1..MaxEdits
         /\ UNCHANGED <<vpc, opts, listed, walk, vreport, saved, walked>>
<1>1. \E kind : Edited(kind)
  BY DEF Edit, AlterRecord, RemoveRecord, CutSegment, DeleteSegment, RewriteHistory
<1>2. edits \in 0..MaxEdits /\ MaxEdits \in Nat
  BY VerifierAssumption DEF StateInv
<1> QED BY <1>1, <1>2 DEF Edited

LEMMA VerifyNext ==
  ASSUME VerifyInv, WriterInv, [VNext]_allvars
  PROVE  VerifyInv' /\ WriterInv'
<1>0. FileInv /\ StateInv /\ PathInv /\ CheckInv
  BY DEF VerifyInv
<1>1. CASE WriterWorks
  <2>1. edits = 0 /\ [Next]_vars /\ IInv /\ UNCHANGED vvars
    BY <1>1 DEF WriterWorks, WriterInv
  <2>2. IInv'
    BY <2>1, NextIInv
  <2>3. FileInv'
    BY <1>0, <2>1, <2>2, FileNext
  <2>4. entries \subseteq entries'
    BY <2>1, EntriesGrow, NoPowerLoss
  <2>5. UNCHANGED <<vpc, opts, listed, walk, vreport, saved, edits, walked>>
    BY <2>1 DEF vvars
  <2>6. StateInv'
    BY <1>0, <2>5 DEF StateInv
  <2>7. PathInv'
    BY <1>0, <2>4, <2>5 DEF PathInv
  <2>8. CheckInv'
    BY <1>0, <2>5 DEF CheckInv
  <2> QED BY <2>2, <2>3, <2>6, <2>7, <2>8 DEF VerifyInv, WriterInv
<1>2. CASE Edit
  <2>1. FileInv'
    BY <1>0, <1>2, EditKeeps
  <2>2. /\ vpc = "idle" /\ edits' \in 1..MaxEdits
        /\ UNCHANGED <<vpc, opts, listed, walk, vreport, saved, walked>>
    BY <1>0, <1>2, EditEffect
  <2>3. edits' \in 0..MaxEdits /\ edits' # 0
    BY <2>2
  <2>4. StateInv'
    BY <1>0, <2>2, <2>3 DEF StateInv
  <2>5. PathInv'
    BY <1>0, <2>2 DEF PathInv
  <2>6. CheckInv'
    BY <2>2 DEF CheckInv
  <2> QED BY <2>1, <2>3, <2>4, <2>5, <2>6 DEF VerifyInv, WriterInv
<1>3. CASE VerifierNext /\ UNCHANGED vars
  <2>1. StateInv' /\ PathInv' /\ CheckInv'
    BY <1>3, VerifierSteps, StartKeeps, HeaderKeeps, RecordKeeps, SegmentEndKeeps, SaveKeeps, EndKeeps
  <2>2. FileInv'
    BY <1>0, <1>3 DEF FileInv, vars
  <2>3. edits' = edits
    BY <1>3 DEF VerifierNext, StartVerify, VerifyHeader, VerifyRecord, VerifySegmentEnd,
                SaveCheckpoint, EndVerify
  <2>4. WriterInv'
    BY <1>3, <2>3, NextIInv DEF WriterInv
  <2> QED BY <2>1, <2>2, <2>4 DEF VerifyInv
<1>4. CASE UNCHANGED allvars
  <2>1. UNCHANGED vars /\ UNCHANGED <<vpc, opts, listed, walk, vreport, saved, edits, walked>>
    BY <1>4 DEF allvars, vvars
  <2>2. WriterInv'
    BY <2>1, NextIInv DEF WriterInv
  <2>3. FileInv' /\ StateInv'
    BY <1>0, <2>1 DEF FileInv, StateInv, vars
  <2>4. PathInv'
    BY <1>0, <2>1 DEF PathInv, vars
  <2>5. CheckInv'
    BY <1>0, <2>1 DEF CheckInv
  <2> QED BY <2>2, <2>3, <2>4, <2>5 DEF VerifyInv
<1> QED BY <1>1, <1>2, <1>3, <1>4 DEF VNext

LEMMA VerifyStart ==
  ASSUME VInit
  PROVE  VerifyInv /\ WriterInv
<1>0. IInv
  BY InitIInv DEF VInit
<1>1. FileInv
  <2>1. file = [i \in Idx |-> << >>] /\ file \in [Idx -> Seq(Chunk)] /\ entries \subseteq Idx
    BY <1>0 DEF VInit, Init, IInv, TypeOK
  <2>2. \A i \in Idx : Headed(file[i])
    BY <2>1 DEF Headed
  <2> QED BY <2>1, <2>2 DEF FileInv
<1>2. /\ vpc = "idle" /\ opts = NoOpts /\ listed = {} /\ walk = StartWalk
      /\ vreport = StartReport /\ walked = << >> /\ saved = NoCheckpoint /\ edits = 0
  BY DEF VInit, VerifierInit
<1>3. walked \in Seq(Idx \X Chunk)
  <2>1. PICK S : S = Idx \X Chunk
    OBVIOUS
  <2>2. << >> \in Seq(S)
    OBVIOUS
  <2> QED BY <1>2, <2>1, <2>2
<1>4. StateInv
  <2>1. edits \in 0..MaxEdits
    BY <1>2, VerifierAssumption
  <2> QED BY <1>2, <1>3, <2>1, StartTypes DEF StateInv
<1>5. StartWalk.todo = {} /\ StartReport.additional = << >> /\ StartReport.violation = NoViolation
  BY DEF StartWalk, StartReport
<1>6. PathInv
  BY <1>2, <1>5 DEF PathInv
<1>7. CheckInv
  BY <1>2 DEF CheckInv
<1> QED BY <1>0, <1>1, <1>4, <1>6, <1>7 DEF VerifyInv, WriterInv

LEMMA VerifyInvariance == VSpec => [](VerifyInv /\ WriterInv)
<1>1. VInit => VerifyInv /\ WriterInv
  BY VerifyStart
<1>2. (VerifyInv /\ WriterInv) /\ [VNext]_allvars => (VerifyInv /\ WriterInv)'
  BY VerifyNext
<1> QED BY <1>1, <1>2, PTL DEF VSpec

\* A log that verifies against a checkpoint of it, with the genesis segment
\* listed, holds the history the checkpoint was taken from: final_hmac is the
\* chain over exactly the accepted records and continues the checkpoint's,
\* whatever was changed outside, by a key holder too, and however long the log.
THEOREM CheckpointCorrect == VSpec => []CheckpointHolds
<1>1. ASSUME VerifyInv PROVE CheckpointHolds
  <2> SUFFICES ASSUME Verified, opts.checkpoint # NoCheckpoint, 0 \in listed
               PROVE  /\ vreport.final_hmac = GenesisMac(opts.key_id) \o DatumsOf(walked)
                      /\ IsPrefixOf(opts.checkpoint.hmac, vreport.final_hmac)
    BY DEF CheckpointHolds
  <2>1. /\ CommitsTo(vreport.final_hmac, walked, opts.key_id)
        /\ Meets(walk, opts.checkpoint, vreport.final_hmac) /\ walk.reached
    BY <1>1 DEF VerifyInv, CheckInv, Verified
  <2>2. opts.key_id \in Keys /\ walked \in Seq(Idx \X Chunk)
    BY <1>1 DEF VerifyInv, PathInv, StateInv, Verified
  <2> QED BY <2>1, <2>2, CommitsIs DEF Meets
<1> QED BY <1>1, VerifyInvariance, PTL

-----------------------------------------------------------------------------
(* The walk stays inside the files. *)

\* The verifier has read no further than what recovery keeps, until the first
\* outside change; after it no step shortens a file under a verification.
OffsetInv ==
  /\ edits = 0 => PlaceInv
  /\ vpc = "record" => /\ walk.pos <= Len(file[walk.seg])
                       /\ edits = 0 => walk.pos <= Len(Intact(file[walk.seg]))

LEMMA OffsetNext ==
  ASSUME FewSegments, VerifyInv, WriterInv, VerifyInv', WriterInv', OffsetInv, [VNext]_allvars
  PROVE  OffsetInv'
<1>0. /\ FileInv /\ StateInv /\ PathInv /\ file \in [Idx -> Seq(Chunk)]
      /\ walk.seg \in Idx /\ walk.pos \in Nat
  BY DEF VerifyInv, FileInv, StateInv, WalkType
<1>i. \A i \in Idx : /\ Len(file[i]) \in Nat /\ Len(Intact(file[i])) \in Nat
                     /\ Len(Intact(file[i])) <= Len(file[i])
                     /\ HasHeader(file[i]) => Len(Intact(file[i])) >= 1
  BY <1>0, IntactPrefix DEF IsPrefixOf
<1>1. CASE WriterWorks
  <2>1. edits = 0 /\ [Next]_vars /\ IInv /\ IInv' /\ PlaceInv /\ UNCHANGED <<vpc, walk, edits>>
    BY <1>1 DEF WriterWorks, WriterInv, OffsetInv, vvars
  <2>2. PlaceInv'
    BY <2>1, PlaceNext
  <2>3. PICK i, s, t : i = walk.seg /\ s = file[i] /\ t = file'[i]
    OBVIOUS
  <2>4. s \in Seq(Chunk) /\ t \in Seq(Chunk) /\ i \in Idx
    BY <1>0, <2>1, <2>3 DEF IInv, TypeOK
  <2>5. Len(Intact(s)) <= Len(Intact(t))
    BY <2>1, <2>3, <2>4, NoPowerLoss, WriterKeeps
  <2>6. Len(Intact(s)) \in Nat /\ Len(Intact(t)) \in Nat /\ Len(Intact(t)) <= Len(t) /\ Len(t) \in Nat
    BY <2>4, IntactPrefix DEF IsPrefixOf
  <2>7. vpc = "record" => walk.pos <= Len(Intact(s))
    BY <2>1, <2>3 DEF OffsetInv
  <2>8. vpc = "record" => walk.pos <= Len(Intact(t)) /\ walk.pos <= Len(t)
    BY <1>0, <2>5, <2>6, <2>7
  <2>9. walk'.seg = i /\ walk'.pos = walk.pos /\ vpc' = vpc
    BY <2>1, <2>3
  <2> QED BY <2>2, <2>3, <2>8, <2>9 DEF OffsetInv
<1>2. CASE Edit
  <2>1. vpc' = "idle" /\ edits' \in 1..MaxEdits
    BY <1>0, <1>2, EditEffect
  <2>2. edits' # 0
    BY <2>1
  <2> QED BY <2>1, <2>2 DEF OffsetInv
<1>3. CASE VerifierNext /\ UNCHANGED vars
  <2>0. edits' = edits /\ file' = file
    BY <1>3 DEF VerifierNext, StartVerify, VerifyHeader, VerifyRecord, VerifySegmentEnd,
                SaveCheckpoint, EndVerify, vars
  <2>1. edits' = 0 => PlaceInv'
    BY <1>3, <2>0, PlaceNext DEF OffsetInv, WriterInv
  <2>2. ASSUME VerifyHeader, vpc' = "record" PROVE OffsetInv'
    <3>1. walk'.seg \in Idx /\ walk'.pos = 1 /\ HasHeader(file[walk'.seg])
      BY <1>3, <2>2, HeaderKeeps
    <3>2. walk'.pos <= Len(file[walk'.seg]) /\ walk'.pos <= Len(Intact(file[walk'.seg]))
      BY <1>i, <3>1
    <3> QED BY <2>0, <2>1, <3>2 DEF OffsetInv
  <2>3. ASSUME VerifyRecord, vpc' = "record" PROVE OffsetInv'
    <3>1. /\ walk'.seg = walk.seg /\ walk'.pos = walk.pos + 1 /\ NextFrame.kind = "record"
      BY <1>3, <2>3, RecordKeeps
    <3>2. PICK i, s, n : i = walk.seg /\ s = file[i] /\ n = walk.pos
      OBVIOUS
    <3>3. vpc = "record" /\ n < Len(s) /\ s \in Seq(Chunk) /\ n \in Nat /\ s[n + 1].kind = "record"
      BY <1>0, <2>3, <3>1, <3>2 DEF VerifyRecord, NextFrame
    <3>4. n >= 1 /\ n + 1 <= Len(s)
      BY <1>0, <3>2, <3>3 DEF PathInv
    <3>5. ASSUME edits = 0 PROVE n + 1 <= Len(Intact(s))
      <4>1. Chains(s) /\ n <= Len(Intact(s))
        BY <1>0, <3>2, <3>3, <3>5 DEF WriterInv, IInv, SegmentsChain, OffsetInv
      <4> QED BY <3>3, <3>4, <4>1, IntactMore
    <3> QED BY <2>0, <2>1, <3>1, <3>2, <3>4, <3>5 DEF OffsetInv
  <2>4. ASSUME vpc' # "record" PROVE OffsetInv'
    BY <2>1, <2>4 DEF OffsetInv
  <2>5. ASSUME \/ \E k \in Keys, forensic \in BOOLEAN, cp \in {NoCheckpoint, saved} :
                    StartVerify(k, forensic, cp)
               \/ VerifySegmentEnd \/ SaveCheckpoint \/ EndVerify
        PROVE  vpc' # "record"
    BY <2>5 DEF StartVerify, VerifySegmentEnd, LeaveSegment, SaveCheckpoint, Verified, EndVerify
  <2> QED BY <1>3, <2>2, <2>3, <2>4, <2>5, VerifierSteps
<1>4. CASE UNCHANGED allvars
  <2>1. UNCHANGED <<file, vpc, walk, edits>> /\ UNCHANGED vars
    BY <1>4 DEF allvars, vvars, vars
  <2>2. edits' = 0 => PlaceInv'
    BY <2>1, PlaceNext DEF OffsetInv, WriterInv
  <2> QED BY <2>1, <2>2 DEF OffsetInv
<1> QED BY <1>1, <1>2, <1>3, <1>4 DEF VNext

\* The verifier never reads past the end of a file, although a writer truncates
\* and extends the last one beside it; it never enters the header loop without
\* a segment left, and additional_violations stays empty unless a forensic
\* verification has a first violation.
THEOREM VerifierTypeCorrect ==
  ASSUME FewSegments
  PROVE  VSpec => []VerifierTypeOK
<1>1. VInit => OffsetInv
  <2>1. Init => PlaceInv
    BY DEF Init, PlaceInv
  <2> QED BY <2>1 DEF VInit, VerifierInit, OffsetInv
<1>2. (VerifyInv /\ WriterInv) /\ (VerifyInv /\ WriterInv)' /\ OffsetInv /\ [VNext]_allvars => OffsetInv'
  BY OffsetNext
<1>3. ASSUME VerifyInv, OffsetInv PROVE VerifierTypeOK
  <2>0. StateInv /\ PathInv /\ FileInv
    BY <1>3 DEF VerifyInv
  <2>1. vreport.violation.kind \in Kinds
    BY <2>0 DEF StateInv, ReportType, ViolationType
  <2>2. ASSUME vpc = "record" PROVE walk.seg \in listed /\ walk.pos \in 1..Len(file[walk.seg])
    <3>1. walk.seg \in Idx /\ walk.pos \in Nat /\ walk.pos >= 1 /\ walk.seg \in listed
      BY <2>0, <2>2 DEF StateInv, WalkType, PathInv
    <3>2. walk.pos <= Len(file[walk.seg]) /\ file[walk.seg] \in Seq(Chunk)
      BY <1>3, <2>0, <2>2, <3>1 DEF OffsetInv, FileInv
    <3> QED BY <3>1, <3>2
  <2> QED BY <2>0, <2>1, <2>2 DEF VerifierTypeOK, StateInv, PathInv
<1> QED BY <1>1, <1>2, <1>3, VerifyInvariance, PTL DEF VSpec

-----------------------------------------------------------------------------
(* How the writer lays the log out. *)

\* A file begins with a header, and records are behind it and records only.
Tailed(s) ==
  /\ s # << >> => HasHeader(s)
  /\ \A m \in 2..Len(s) : s[m].kind = "record" => \A q \in 2..m : s[q].kind = "record"

\* The segments of the files f have their headers and records in place, and a
\* segment with a header continues the one before it.
Laid(f) ==
  /\ f \in [Idx -> Seq(Chunk)]
  /\ \A i \in Idx : /\ Chains(f[i]) /\ Tailed(f[i])
                    /\ HasHeader(f[i]) => f[i][1].index = i
  /\ \A i \in Idx \ {0} : HasHeader(f[i]) => Link(f[i], f[i - 1])

\* The part of it that the invariants of the writer do not state.
TailInv == \A i \in Idx : Tailed(file[i]) /\ (HasHeader(file[i]) => file[i][1].index = i)

\* The invariants of the writer that a verification relies on.
LogInv == PlaceInv /\ AckInv /\ LinkInv /\ TailInv

LEMMA TailNext ==
  ASSUME IInv, IInv', FewSegments, WritesLand, PlaceInv, AckInv, TailInv, [Next]_vars
  PROVE  TailInv'
<1> DEFINE Good(i, s) == Tailed(s) /\ (HasHeader(s) => s[1].index = i)
<1>0. /\ file \in [Idx -> Seq(Chunk)] /\ file' \in [Idx -> Seq(Chunk)]
      /\ acked \in [Idx -> Seq(Chunk)] /\ cur \in CurType /\ cur.index \in Idx
      /\ \A i \in Idx : Good(i, file[i])
  BY DEF IInv, TypeOK, CurType, TailInv
<1>e. ASSUME NEW i \in Idx PROVE Good(i, << >>)
  BY DEF Tailed, HasHeader
<1>h. ASSUME NEW i \in Idx, NEW k, NEW h PROVE Good(i, << Header(i, k, h) >>)
  <2>1. PICK s : s = << Header(i, k, h) >>
    OBVIOUS
  <2>2. Len(s) = 1 /\ s[1].index = i
    BY <2>1 DEF Header
  <2>3. HasHeader(s)
    BY <2>1 DEF HasHeader, Header
  <2>4. Tailed(s)
    BY <2>2, <2>3 DEF Tailed
  <2> QED BY <2>1, <2>2, <2>4
<1>i. ASSUME NEW i \in Idx PROVE Good(i, Intact(file[i]))
  <2>1. PICK s, t : s = file[i] /\ t = Intact(s)
    OBVIOUS
  <2>2. /\ s \in Seq(Chunk) /\ t \in Seq(Chunk) /\ Len(t) \in Nat
        /\ \A j \in 1..Len(t) : t[j] = s[j]
        /\ t # << >> => s # << >> /\ s[1].kind = "header"
        /\ \A j \in 2..Len(t) : s[j].kind = "record"
    <3>1. s \in Seq(Chunk)
      BY <1>0, <2>1
    <3> QED BY <2>1, <3>1, IntactKinds
  <2>3. /\ t # << >> => 1 \in 1..Len(t)
        /\ \A j \in 2..Len(t) : j \in 1..Len(t)
        /\ \A m \in 2..Len(t) : t # << >> /\ \A q \in 2..m : q \in 2..Len(t)
    BY <2>2
  <2>4. t # << >> => t[1] = s[1] /\ HasHeader(s) /\ HasHeader(t)
    BY <2>2, <2>3 DEF HasHeader
  <2>5. \A j \in 2..Len(t) : t[j].kind = "record"
    BY <2>2, <2>3
  <2>6. Tailed(t)
    BY <2>3, <2>4, <2>5 DEF Tailed
  <2>7. HasHeader(t) => t[1].index = i
    BY <1>0, <2>1, <2>4 DEF HasHeader
  <2> QED BY <2>1, <2>6, <2>7
<1>o. ASSUME NEW i \in Idx, Good(i, file'[i]), \A j \in Idx : j # i => file'[j] = file[j]
      PROVE  TailInv'
  <2>1. \A j \in Idx : Good(j, file'[j])
    BY <1>0, <1>o
  <2> QED BY <2>1 DEF TailInv
<1>s. ASSUME file' = file PROVE TailInv'
  BY <1>s DEF TailInv
<1> HIDE DEF Good
<1>1. ASSUME NEW k \in Keys, OpenFresh(k) PROVE TailInv'
  <2>1. 0 \in Idx /\ file' = [file EXCEPT ![0] = << >>]
    BY <1>1 DEF OpenFresh, Idx
  <2> QED BY <1>0, <1>e, <1>o, <2>1
<1>2. ASSUME NEW k \in Keys, NEW i \in Visible, Recovers(k, i) PROVE TailInv'
  <2>1. i \in Idx /\ file'[i] = Intact(file[i]) /\ \A j \in Idx : j # i => file'[j] = file[j]
    BY <1>2, RecoverEffect DEF Recovers
  <2> QED BY <1>i, <1>o, <2>1
<1>3. ASSUME NEW k \in Keys, RepairFails(k) PROVE TailInv'
  <2>1. PICK i \in Visible : file' = [file EXCEPT ![i] = Intact(file[i])]
    BY <1>3 DEF RepairFails
  <2>2. i \in Idx
    BY DEF Visible, IInv, TypeOK
  <2> QED BY <1>0, <1>i, <1>o, <2>1, <2>2
<1>4. ASSUME GenesisHeader PROVE TailInv'
  <2>1. 0 \in Idx /\ file' = [file EXCEPT ![0] = << Header(0, cur.key_id, NoHash) >>]
    BY <1>4 DEF GenesisHeader, Idx
  <2> QED BY <1>0, <1>h, <1>o, <2>1
<1>5. ASSUME WriteHeader PROVE TailInv'
  <2>1. PICK i, k, h : i = cur.index + 1 /\ k = cur.key_id /\ h = cur.last_hmac
    OBVIOUS
  <2>2. /\ i \in Idx /\ file'[i] = << Header(i, k, h) >>
        /\ \A j \in Idx : j # i => file'[j] = file[j]
    BY <1>5, <2>1, HeaderEffect
  <2>3. Good(i, file'[i])
    BY <1>h, <2>2
  <2> QED BY <1>o, <2>2, <2>3
<1>6. ASSUME CreateNext PROVE TailInv'
  <2>1. /\ cur.index + 1 \in Idx /\ file'[cur.index + 1] = << >>
        /\ \A j \in Idx : j # cur.index + 1 => file'[j] = file[j]
    BY <1>6, CreateEffect
  <2> QED BY <1>e, <1>o, <2>1
<1>7. ASSUME BeginWrite PROVE TailInv'
  <2>1. PICK i, s, t, n : i = cur.index /\ s = file[i] /\ t = file'[i] /\ n = Len(s)
    OBVIOUS
  <2>2. /\ s \in Seq(Chunk) /\ t \in Seq(Chunk) /\ n \in Nat /\ Len(t) = n + 1 /\ t[n + 1] = Torn
        /\ \A m \in 1..n : t[m] = s[m]
        /\ \A j \in Idx : j # i => file'[j] = file[j]
        /\ pc \in {"fin", "rec"}
    BY <1>7, <2>1, BeginEffect
  <2>3. n >= 1 /\ HasHeader(s)
    <3>1. Written = n
      BY <2>1, <2>2 DEF Written
    <3>2. n >= 1 /\ s[1].kind = "header"
      BY <2>1, <2>2, <3>1 DEF IInv, WriterAgrees
    <3> QED BY <2>1, <2>2, <3>2 DEF HasHeader
  <2>4. Good(i, s)
    BY <1>0, <2>1
  <2>5. t # << >> /\ t[1] = s[1]
    BY <2>2, <2>3
  <2>6. HasHeader(t) /\ t[1].index = i
    BY <2>3, <2>4, <2>5 DEF HasHeader, Good
  <2>7. Tailed(t)
    <3> SUFFICES ASSUME NEW m \in 2..Len(t), t[m].kind = "record"
                 PROVE  \A q \in 2..m : t[q].kind = "record"
      BY <2>6 DEF Tailed
    <3>1. m # n + 1
      BY <2>2 DEF Torn
    <3>2. m \in 2..n /\ \A q \in 2..m : q \in 1..n /\ q \in 2..n
      BY <2>2, <3>1
    <3>3. m \in 2..Len(s) /\ s[m].kind = "record" /\ Tailed(s)
      BY <2>1, <2>2, <2>4, <3>2 DEF Good
    <3>4. \A q \in 2..m : s[q].kind = "record"
      BY <3>3 DEF Tailed
    <3> QED BY <2>2, <3>2, <3>4
  <2> QED BY <1>0, <1>o, <2>1, <2>2, <2>6, <2>7 DEF Good
<1>8. ASSUME FinishRecord \/ FinishFinalize PROVE TailInv'
  <2>1. PICK d \in Datum, size \in Nat : AppendFramed(d, size) /\ pc \in {"rec_write", "fin_write"}
    BY <1>8, RecordEffect
  <2>2. PICK i, s, t, n : i = cur.index /\ s = file[i] /\ t = file'[i] /\ n = Len(s)
    OBVIOUS
  <2>3. /\ s \in Seq(Chunk) /\ t \in Seq(Chunk) /\ n \in Nat /\ n >= 2 /\ Len(t) = n
        /\ t[n] = Record(d, cur.last_hmac, cur.bytes_written + size)
        /\ \A m \in 1..(n - 1) : t[m] = s[m]
        /\ \A j \in Idx : j # i => file'[j] = file[j]
    BY <2>1, <2>2, FrameEffect
  <2>4. PICK a : a = acked[i]
    OBVIOUS
  <2>5. a \in Seq(Chunk) /\ Len(a) = n - 1 /\ Whole(a) /\ IsPrefixOf(a, s)
    BY <1>0, <2>1, <2>2, <2>4 DEF AckInv, AckedSurvives, Written
  <2>6. a # << >> /\ 1 \in 1..(n - 1) /\ \A m \in 2..(n - 1) : m \in 1..(n - 1)
    BY <2>3, <2>5
  <2>7. s[1].kind = "header" /\ \A m \in 2..(n - 1) : s[m].kind = "record"
    BY <2>5, <2>6 DEF Whole, IsPrefixOf
  <2>8. t[n].kind = "record"
    BY <2>3 DEF Record
  <2>9. \A m \in 2..n : t[m].kind = "record"
    <3> SUFFICES ASSUME NEW m \in 2..n PROVE t[m].kind = "record"
      OBVIOUS
    <3>1. m = n \/ m \in 2..(n - 1)
      BY <2>3
    <3> QED BY <2>3, <2>6, <2>7, <2>8, <3>1
  <2>10. t # << >> /\ s # << >> /\ t[1] = s[1]
    BY <2>2, <2>3, <2>6
  <2>11. HasHeader(t) /\ t[1].index = i
    BY <1>0, <2>2, <2>7, <2>10 DEF HasHeader, Good
  <2>12. Tailed(t)
    <3> SUFFICES ASSUME NEW m \in 2..Len(t), NEW q \in 2..m PROVE t[q].kind = "record"
      BY <2>11 DEF Tailed
    <3>1. q \in 2..n
      BY <2>3
    <3> QED BY <2>9, <3>1
  <2> QED BY <1>0, <1>o, <2>2, <2>3, <2>11, <2>12 DEF Good
<1>9. ASSUME Quiet \/ UNCHANGED vars PROVE TailInv'
  <2>1. file' = file
    BY <1>9, QuietEffect DEF vars
  <2> QED BY <1>s, <2>1
<1> QED BY <1>1, <1>2, <1>3, <1>4, <1>5, <1>6, <1>7, <1>8, <1>9, NextCases, NoPowerLoss

\* Between two steps of the writer everything is in place.
LEMMA LaidNow ==
  ASSUME IInv, LogInv
  PROVE  Laid(file)
<1>1. file \in [Idx -> Seq(Chunk)] /\ entries \subseteq Idx
  BY DEF IInv, TypeOK
<1>2. ASSUME NEW i \in Idx \ {0}, HasHeader(file[i]) PROVE Link(file[i], file[i - 1])
  <2>1. i \in entries
    BY <1>2 DEF LogInv, PlaceInv, HasHeader
  <2> QED BY <1>2, <2>1 DEF LogInv, LinkInv, Linked
<1> QED BY <1>1, <1>2 DEF Laid, IInv, SegmentsChain, LogInv, TailInv

LEMMA LogStart == Init => LogInv
<1> SUFFICES ASSUME Init PROVE LogInv
  OBVIOUS
<1>1. PlaceInv
  BY DEF Init, PlaceInv
<1>2. AckInv
  BY PrefixEmpty DEF Init, AckInv, AckedSurvives, IsPrefixOf, Whole
<1>3. LinkInv
  BY DEF Init, LinkInv, Gapless
<1>4. TailInv
  BY DEF Init, TailInv, Tailed, HasHeader
<1> QED BY <1>1, <1>2, <1>3, <1>4 DEF LogInv

LEMMA LogNext ==
  ASSUME IInv, IInv', FewSegments, WritesLand, LogInv, [Next]_vars
  PROVE  LogInv'
<1>1. PlaceInv /\ AckInv /\ LinkInv /\ TailInv
  BY DEF LogInv
<1>2. PlaceInv'
  BY <1>1, PlaceNext
<1>3. AckInv'
  BY <1>1, AckNext, NoPowerLoss
<1>4. LinkInv'
  BY <1>1, LinkNext, NoPowerLoss
<1>5. TailInv'
  BY <1>1, TailNext
<1> QED BY <1>2, <1>3, <1>4, <1>5 DEF LogInv

-----------------------------------------------------------------------------
(* The history of a log that is laid out so. *)

\* How much history is behind the first record of the segment s.
StartLen(s) == Len(ChainStart(s[1]))

LEMMA ChainGrows ==
  ASSUME NEW c \in Chunk, c.kind = "record"
  PROVE  /\ Len(c.prev_hash) \in Nat /\ ChainAfter(c) \in Hash
         /\ Len(ChainAfter(c)) = Len(c.prev_hash) + 1
<1>1. PICK h, d : h = c.prev_hash /\ d = c.datum
  OBVIOUS
<1>2. h \in Seq(Datum) /\ d \in Datum
  BY <1>1, RecordFields DEF Hash
<1>3. ChainAfter(c) = Append(h, d)
  BY <1>1 DEF ChainAfter, Mac
<1>4. Append(h, d) \in Seq(Datum) /\ Len(Append(h, d)) = Len(h) + 1 /\ Len(h) \in Nat
  BY <1>2
<1> QED BY <1>1, <1>3, <1>4 DEF Hash

LEMMA ChainStarts ==
  ASSUME NEW c \in Chunk, c.kind = "header"
  PROVE  /\ ChainStart(c) \in Hash /\ Len(ChainStart(c)) \in Nat /\ ChainAfter(c) = ChainStart(c)
         /\ c.index = 0 => Len(ChainStart(c)) = 1
<1>1. ChainAfter(c) \in Hash /\ ChainAfter(c) = ChainStart(c)
  BY ChainAfterType DEF ChainAfter
<1>2. Len(ChainStart(c)) \in Nat
  BY <1>1 DEF Hash
<1>3. c.index = 0 => Len(ChainStart(c)) = 1
  BY DEF ChainStart, GenesisMac
<1> QED BY <1>1, <1>2, <1>3

\* A record and what is in front of it in its segment.
LEMMA InChain ==
  ASSUME NEW s \in Seq(Chunk), Chains(s), Tailed(s), NEW m \in 2..Len(s), s[m].kind = "record"
  PROVE  /\ HasHeader(s) /\ s[1] \in Chunk /\ s[m] \in Chunk
         /\ s[m].prev_hash = ChainAfter(s[m - 1])
         /\ s[m].datum.record_id = m - 2 /\ s[m].datum.key_id = s[1].key_id
         /\ StartLen(s) \in Nat /\ Len(s[m].prev_hash) = StartLen(s) + (m - 2)
<1>0. Len(s) \in Nat /\ s # << >> /\ 1 \in 1..Len(s)
  OBVIOUS
<1>1. HasHeader(s) /\ s[1] \in Chunk /\ s[1].kind = "header"
  BY <1>0, ElementOfSeq DEF Tailed, HasHeader
<1>2. ASSUME NEW q \in 2..m
      PROVE  /\ s[q].kind = "record" /\ s[q] \in Chunk /\ s[q].prev_hash = ChainAfter(s[q - 1])
             /\ s[q].datum.record_id = q - 2 /\ s[q].datum.key_id = s[1].key_id
  <2>1. q \in 2..Len(s) /\ q \in 1..Len(s) /\ \A p \in 2..q : p \in 2..m
    BY <1>0
  <2>2. \A p \in 2..q : s[p].kind = "record"
    BY <2>1 DEF Tailed
  <2>3. Chained(s, q, s[1].key_id) /\ s[q].datum.record_id = q - 2
    BY <2>1, <2>2 DEF Chains
  <2>4. s[q] \in Chunk
    BY <2>1, ElementOfSeq
  <2> QED BY <2>3, <2>4 DEF Chained
<1>3. StartLen(s) \in Nat /\ ChainAfter(s[1]) = ChainStart(s[1])
  BY <1>1, ChainStarts DEF StartLen
<1>4. PICK N, l : N = m - 2 /\ l = StartLen(s)
  OBVIOUS
<1>5. N \in Nat /\ N + 2 = m /\ l \in Nat
  BY <1>3, <1>4
<1> DEFINE T == {n \in Nat : Len(s[n + 2].prev_hash) = l + n}
<1>6. 0 \in T
  <2>1. 2 \in 2..m /\ 2 - 1 = 1
    OBVIOUS
  <2>2. s[2].prev_hash = ChainAfter(s[1])
    BY <1>2, <2>1
  <2>3. Len(s[0 + 2].prev_hash) = l + 0
    BY <1>3, <1>4, <1>5, <2>2 DEF StartLen
  <2> QED BY <2>3
<1>7. ASSUME NEW n \in 0..(N - 1), n \in T PROVE n + 1 \in T
  <2>1. PICK q, r : q = n + 2 /\ r = n + 3
    OBVIOUS
  <2>2. q \in 2..m /\ r \in 2..m /\ r - 1 = q /\ n \in Nat
    BY <1>5, <2>1
  <2>3. s[q] \in Chunk /\ s[q].kind = "record" /\ s[r].prev_hash = ChainAfter(s[q])
    BY <1>2, <2>2
  <2>4. Len(s[r].prev_hash) = Len(s[q].prev_hash) + 1
    BY <2>3, ChainGrows
  <2>5. Len(s[q].prev_hash) = l + n
    BY <1>7, <2>1
  <2>6. Len(s[r].prev_hash) = l + (n + 1) /\ (n + 1) + 2 = r
    BY <1>5, <2>1, <2>2, <2>4, <2>5
  <2> QED BY <2>2, <2>6
<1>8. N \in T
  <2>1. \A n \in 0..N : n \in T
    <3> HIDE DEF T
    <3> QED BY <1>5, <1>6, <1>7, UpTo
  <2>2. N \in 0..N
    BY <1>5
  <2> QED BY <2>1, <2>2
<1>9. Len(s[m].prev_hash) = l + N
  BY <1>5, <1>8
<1>10. m \in 2..m
  OBVIOUS
<1> QED BY <1>1, <1>2, <1>3, <1>4, <1>9, <1>10

Entries == Seq(Idx \X Chunk)

LEMMA NoEntries == << >> \in Entries
<1>1. PICK S : S = Idx \X Chunk
  OBVIOUS
<1>2. << >> \in Seq(S)
  OBVIOUS
<1> QED BY <1>1, <1>2 DEF Entries

\* The unfolding of RecordsOf.
LEMMA RecordsOfDef ==
  ASSUME NEW f, NEW i \in Idx, f[i] \in Seq(Chunk)
  PROVE  LET r == RecordsOf(f, i) IN
         /\ r[0] = << >>
         /\ \A n \in 1..Len(f[i]) :
              r[n] = IF f[i][n].kind = "record" THEN Append(r[n-1], <<i, f[i][n]>>) ELSE r[n-1]
         /\ \A n \in 0..Len(f[i]) : r[n] \in Entries
<1> DEFINE N == Len(f[i])
           Step(n, s) == IF f[i][n].kind = "record" THEN Append(s, <<i, f[i][n]>>) ELSE s
           F(g) == g = [n \in 0..N |-> IF n = 0 THEN << >> ELSE Step(n, g[n-1])]
           step == [x \in (1..N) \X Entries |-> Step(x[1], x[2])]
<1>0. N \in Nat /\ << >> \in Entries
  BY NoEntries
<1>1. ASSUME NEW n \in 1..N, NEW s \in Entries PROVE Step(n, s) \in Entries
  <2>1. f[i][n] \in Chunk
    BY ElementOfSeq
  <2>2. PICK e : e = <<i, f[i][n]>>
    OBVIOUS
  <2>3. e \in Idx \X Chunk
    BY <2>1, <2>2
  <2>4. Append(s, e) \in Entries
    BY <2>3, AppendProperties DEF Entries
  <2> QED BY <2>2, <2>4
<1>2. step \in [(1..N) \X Entries -> Entries]
  <2> HIDE DEF Step
  <2> QED BY <1>1
<1>3. PICK g : Follows(g, N, Entries, << >>, step)
  <2> HIDE DEF step, N
  <2> QED BY <1>0, <1>2, Recursion
<1>4. ASSUME NEW n \in 1..N PROVE g[n] = Step(n, g[n-1])
  <2>1. g[n] = step[<<n, g[n-1]>>] /\ g[n-1] \in Entries
    <3> HIDE DEF step, N
    <3> QED BY <1>0, <1>3, FollowsStep
  <2> HIDE DEF Step
  <2> QED BY <2>1
<1>5. F(g)
  <2>1. g \in [0..N -> Entries] /\ g[0] = << >>
    BY <1>3 DEF Follows
  <2> HIDE DEF Step
  <2> QED BY <1>4, <2>1
<1>6. PICK r : r = RecordsOf(f, i)
  OBVIOUS
<1>7. r = CHOOSE h : F(h)
  BY <1>6 DEF RecordsOf
<1>8. F(r)
  <2> HIDE DEF F
  <2> QED BY <1>5, <1>7
<1>9. r[0] = << >> /\ \A n \in 1..N : r[n] = Step(n, r[n-1])
  <2>1. r = [n \in 0..N |-> IF n = 0 THEN << >> ELSE Step(n, r[n-1])]
    BY <1>8
  <2>2. 0 \in 0..N /\ \A n \in 1..N : n \in 0..N /\ n # 0
    BY <1>0
  <2> HIDE DEF Step, N
  <2> QED BY <2>1, <2>2
<1>10. \A n \in 0..N : r[n] \in Entries
  <2>1. \A n \in 1..N : r[n-1] \in Entries => r[n] \in Entries
    <3> HIDE DEF Step
    <3> QED BY <1>1, <1>9
  <2>2. r[0] \in Entries
    BY <1>0, <1>9
  <2> HIDE DEF Step, N
  <2> QED BY <1>0, <2>1, <2>2, RecursionKeeps
<1> QED BY <1>6, <1>9, <1>10

\* r lists the records of the file s of segment i, which are behind its header.
Lists(r, s, i) ==
  /\ r \in Entries
  /\ \A q \in 1..Len(r) : q + 1 <= Len(s) /\ s[q + 1].kind = "record" /\ r[q] = <<i, s[q + 1]>>
  /\ \A m \in 2..Len(s) : s[m].kind = "record" => m - 1 <= Len(r)

LEMMA RecordsOfIs ==
  ASSUME NEW f, NEW i \in Idx, f[i] \in Seq(Chunk), Tailed(f[i])
  PROVE  Lists(RecordsOf(f, i)[Len(f[i])], f[i], i)
<1>1. PICK s, r, N : s = f[i] /\ r = RecordsOf(f, i) /\ N = Len(s)
  OBVIOUS
<1>2. /\ s \in Seq(Chunk) /\ N \in Nat /\ Tailed(s)
      /\ r[0] = << >>
      /\ \A n \in 1..N : r[n] = IF s[n].kind = "record" THEN Append(r[n-1], <<i, s[n]>>) ELSE r[n-1]
      /\ \A n \in 0..N : r[n] \in Entries
  BY <1>1, RecordsOfDef
<1> DEFINE P(n) == /\ \A q \in 1..Len(r[n]) : /\ q + 1 <= n /\ s[q + 1].kind = "record"
                                              /\ r[n][q] = <<i, s[q + 1]>>
                   /\ \A m \in 2..n : s[m].kind = "record" => m - 1 <= Len(r[n])
           T == {n \in Nat : P(n)}
<1>3. 0 \in T
  <2>1. P(0)
    BY <1>2
  <2> QED BY <2>1
<1>4. ASSUME NEW n \in 0..(N - 1), n \in T PROVE n + 1 \in T
  <2>1. PICK p, a, b, l, e : p = n + 1 /\ a = r[n] /\ b = r[p] /\ l = Len(a) /\ e = <<i, s[p]>>
    OBVIOUS
  <2>2. /\ n \in Nat /\ p \in 1..N /\ p - 1 = n /\ a \in Entries /\ b \in Entries /\ l \in Nat
    BY <1>2, <2>1 DEF Entries
  <2>3. b = IF s[p].kind = "record" THEN Append(a, e) ELSE a
    BY <1>2, <2>1, <2>2
  <2>4. /\ \A q \in 1..l : q + 1 <= n /\ s[q + 1].kind = "record" /\ a[q] = <<i, s[q + 1]>>
        /\ \A m \in 2..n : s[m].kind = "record" => m - 1 <= l
    BY <1>4, <2>1
  <2>5. CASE s[p].kind # "record"
    <3>1. b = a
      BY <2>3, <2>5
    <3>2. \A q \in 1..l : q + 1 <= p
      BY <2>1, <2>2, <2>4
    <3>3. ASSUME NEW m \in 2..p, s[m].kind = "record" PROVE m - 1 <= l
      <4>1. m \in 2..n
        BY <2>1, <2>2, <2>5, <3>3
      <4> QED BY <2>4, <3>3, <4>1
    <3>4. P(p)
      BY <2>1, <2>4, <3>1, <3>2, <3>3
    <3> QED BY <2>1, <2>2, <3>4
  <2>6. CASE s[p].kind = "record"
    <3>0. HasHeader(s) /\ p # 1
      <4>1. s # << >>
        BY <1>1, <1>2, <2>2
      <4>2. s[1].kind = "header"
        BY <1>2, <4>1 DEF Tailed, HasHeader
      <4> QED BY <2>6, <4>1, <4>2 DEF HasHeader
    <3>1. p \in 2..Len(s) /\ p \in 2..p
      BY <1>1, <1>2, <2>2, <3>0
    <3>2. \A q \in 2..p : s[q].kind = "record"
      BY <1>2, <2>6, <3>1 DEF Tailed
    <3>3. l = n - 1
      <4>1. n \in 2..n => n - 1 <= l
        <5>1. n \in 2..n => n \in 2..p
          BY <2>1, <2>2
        <5> QED BY <2>4, <3>2, <5>1
      <4>2. l # 0 => l + 1 <= n
        <5>1. l # 0 => l \in 1..l
          BY <2>2
        <5> QED BY <2>4, <5>1
      <4>3. n >= 1
        BY <2>1, <2>2, <3>1
      <4>4. CASE n = 1
        BY <2>2, <4>2, <4>4
      <4>5. CASE n # 1
        <5>1. n \in 2..n
          BY <2>2, <4>3, <4>5
        <5> QED BY <2>2, <4>1, <4>2, <5>1
      <4> QED BY <4>4, <4>5
    <3>4. b = Append(a, e)
      BY <2>3, <2>6
    <3>5. Len(b) = n /\ b[n] = e /\ \A q \in 1..l : b[q] = a[q]
      <4>1. e \in Idx \X Chunk
        <5>1. p \in 1..Len(s)
          BY <1>1, <2>2
        <5>2. s[p] \in Chunk
          BY <1>2, <5>1, ElementOfSeq
        <5> QED BY <2>1, <5>2
      <4>2. a \in Seq(Idx \X Chunk)
        BY <2>2 DEF Entries
      <4>3. /\ Len(Append(a, e)) = Len(a) + 1 /\ Append(a, e)[Len(a) + 1] = e
            /\ \A q \in 1..Len(a) : Append(a, e)[q] = a[q]
        BY <4>1, <4>2, AppendProperties
      <4>4. Len(a) + 1 = n
        BY <2>1, <2>2, <3>3
      <4> QED BY <2>1, <3>4, <4>3, <4>4
    <3>6. ASSUME NEW q \in 1..n
          PROVE  q + 1 <= p /\ s[q + 1].kind = "record" /\ b[q] = <<i, s[q + 1]>>
      <4>1. CASE q = n
        BY <2>1, <2>2, <2>6, <3>5, <4>1
      <4>2. CASE q # n
        <5>1. q \in 1..l
          BY <2>2, <3>3, <4>2
        <5> QED BY <2>1, <2>2, <2>4, <3>5, <5>1
      <4> QED BY <4>1, <4>2
    <3>7. \A m \in 2..p : m - 1 <= n
      BY <2>1, <2>2
    <3>8. P(p)
      BY <2>1, <3>5, <3>6, <3>7
    <3> QED BY <2>1, <2>2, <3>8
  <2> QED BY <2>5, <2>6
<1>5. N \in T
  <2>1. \A n \in 0..N : n \in T
    <3> HIDE DEF T
    <3> QED BY <1>2, <1>3, <1>4, UpTo
  <2>2. N \in 0..N
    BY <1>2
  <2> QED BY <2>1, <2>2
<1>6. P(N) /\ r[N] \in Entries
  <2>1. N \in 0..N
    BY <1>2
  <2> QED BY <1>2, <1>5, <2>1
<1>7. Lists(r[N], s, i)
  BY <1>1, <1>6 DEF Lists
<1> QED BY <1>1, <1>7

\* The unfolding of RecordsFrom.
LEMMA RecordsFromDef ==
  ASSUME NEW f, \A j \in Idx : f[j] \in Seq(Chunk), NEW i \in Nat
  PROVE  LET u == RecordsFrom(f, i) IN
         /\ u[0] = << >>
         /\ \A n \in 1..(MaxIndex + 1) :
              u[n] = IF n <= i THEN u[n-1] ELSE u[n-1] \o RecordsOf(f, n - 1)[Len(f[n-1])]
         /\ \A n \in 0..(MaxIndex + 1) : u[n] \in Entries
<1> DEFINE N == MaxIndex + 1
           Mine(n) == RecordsOf(f, n)[Len(f[n])]
           Step(n, s) == IF n <= i THEN s ELSE s \o Mine(n - 1)
           F(g) == g = [n \in 0..N |-> IF n = 0 THEN << >> ELSE Step(n, g[n-1])]
           step == [x \in (1..N) \X Entries |-> Step(x[1], x[2])]
<1>0. N \in Nat /\ << >> \in Entries
  BY NoEntries
<1>m. ASSUME NEW n \in Idx PROVE Mine(n) \in Entries
  <2>1. Len(f[n]) \in Nat /\ Len(f[n]) \in 0..Len(f[n])
    OBVIOUS
  <2> QED BY <2>1, RecordsOfDef
<1>1. ASSUME NEW n \in 1..N, NEW s \in Entries PROVE Step(n, s) \in Entries
  <2>1. n - 1 \in Idx
    BY DEF Idx
  <2>2. PICK r : r = Mine(n - 1)
    OBVIOUS
  <2>3. r \in Entries
    <3> HIDE DEF Mine
    <3> QED BY <1>m, <2>1, <2>2
  <2>4. s \o r \in Entries
    BY <2>3, ConcatProperties DEF Entries
  <2> QED BY <2>2, <2>4
<1>2. step \in [(1..N) \X Entries -> Entries]
  <2> HIDE DEF Step
  <2> QED BY <1>1
<1>3. PICK g : Follows(g, N, Entries, << >>, step)
  <2> HIDE DEF step, N
  <2> QED BY <1>0, <1>2, Recursion
<1>4. ASSUME NEW n \in 1..N PROVE g[n] = Step(n, g[n-1])
  <2>1. g[n] = step[<<n, g[n-1]>>] /\ g[n-1] \in Entries
    <3> HIDE DEF step, N
    <3> QED BY <1>0, <1>3, FollowsStep
  <2> HIDE DEF Step
  <2> QED BY <2>1
<1>5. F(g)
  <2>1. g \in [0..N -> Entries] /\ g[0] = << >>
    BY <1>3 DEF Follows
  <2> HIDE DEF Step
  <2> QED BY <1>4, <2>1
<1>6. PICK u : u = RecordsFrom(f, i)
  OBVIOUS
<1>7. u = CHOOSE h : F(h)
  BY <1>6 DEF RecordsFrom
<1>8. F(u)
  <2> HIDE DEF F
  <2> QED BY <1>5, <1>7
<1>9. u[0] = << >> /\ \A n \in 1..N : u[n] = Step(n, u[n-1])
  <2>1. u = [n \in 0..N |-> IF n = 0 THEN << >> ELSE Step(n, u[n-1])]
    BY <1>8
  <2>2. 0 \in 0..N /\ \A n \in 1..N : n \in 0..N /\ n # 0
    BY <1>0
  <2> HIDE DEF Step, N
  <2> QED BY <2>1, <2>2
<1>10. \A n \in 0..N : u[n] \in Entries
  <2>1. \A n \in 1..N : u[n-1] \in Entries => u[n] \in Entries
    <3> HIDE DEF Step
    <3> QED BY <1>1, <1>9
  <2>2. u[0] \in Entries
    BY <1>0, <1>9
  <2> HIDE DEF Step, N
  <2> QED BY <1>0, <2>1, <2>2, RecursionKeeps
<1> QED BY <1>6, <1>9, <1>10

\* The entry e is a record of the files f, in segment i or a later one below n, with l of
\* history behind it.
Entered(e, f, i, n, l) ==
  \E j \in Idx : \E m \in 2..Len(f[j]) :
    /\ i <= j /\ j < n /\ e = <<j, f[j][m]>>
    /\ f[j][m].kind = "record" /\ Len(f[j][m].prev_hash) = l

\* h has every record of the segments from i to n - 1, each at the place its history
\* gives it.
Numbers(h, f, i, n) ==
  /\ h \in Entries
  /\ \A q \in 1..Len(h) : Entered(h[q], f, i, n, StartLen(f[i]) + (q - 1))
  /\ \A j \in Idx : i <= j /\ j < n => \A m \in 2..Len(f[j]) :
       f[j][m].kind = "record" => \E q \in 1..Len(h) : h[q] = <<j, f[j][m]>>

\* The history behind a segment that continues another is all of that one's.
LEMMA LinkLen ==
  ASSUME NEW f, Laid(f), NEW n \in Idx, n + 1 \in Idx, HasHeader(f[n + 1])
  PROVE  /\ HasHeader(f[n]) /\ \A m \in 2..Len(f[n]) : f[n][m].kind = "record"
         /\ StartLen(f[n]) \in Nat
         /\ StartLen(f[n + 1]) = StartLen(f[n]) + (Len(f[n]) - 1)
<1>1. PICK s, p, l : s = f[n + 1] /\ p = f[n] /\ l = Len(p)
  OBVIOUS
<1>2. n + 1 \in Idx \ {0} /\ (n + 1) - 1 = n /\ n \in Nat
  BY DEF Idx
<1>3. s \in Seq(Chunk) /\ p \in Seq(Chunk) /\ Chains(p) /\ Tailed(p) /\ l \in Nat
  BY <1>1 DEF Laid
<1>4. HasHeader(p) /\ Intact(p) = p /\ s[1].prev_final = ChainAfter(p[l]) /\ s[1].index = n + 1
  BY <1>1, <1>2 DEF Laid, Link
<1>5. l >= 1 /\ l \in 1..l /\ \A m \in 2..l : p[m].kind = "record"
  <2>1. p # << >>
    BY <1>4 DEF HasHeader
  <2> QED BY <1>1, <1>3, <1>4, <2>1, IntactKinds
<1>6. StartLen(s) = Len(ChainAfter(p[l]))
  <2>1. s[1].index # 0
    BY <1>2, <1>4
  <2> QED BY <1>4, <2>1 DEF StartLen, ChainStart
<1>7. p[1] \in Chunk /\ p[1].kind = "header" /\ StartLen(p) \in Nat /\ ChainAfter(p[1]) = ChainStart(p[1])
  <2>1. 1 \in 1..Len(p)
    BY <1>1, <1>5
  <2>2. p[1] \in Chunk /\ p[1].kind = "header"
    BY <1>3, <1>4, <2>1, ElementOfSeq DEF HasHeader
  <2> QED BY <2>2, ChainStarts DEF StartLen
<1>8. StartLen(s) = StartLen(p) + (l - 1)
  <2>1. CASE l = 1
    BY <1>6, <1>7, <2>1 DEF StartLen
  <2>2. CASE l # 1
    <3>1. l \in 2..Len(p) /\ p[l].kind = "record"
      <4>1. l \in 2..l
        BY <1>3, <1>5, <2>2
      <4> QED BY <1>1, <1>5, <4>1
    <3>2. p[l] \in Chunk /\ Len(p[l].prev_hash) = StartLen(p) + (l - 2)
      BY <1>3, <3>1, InChain
    <3>3. Len(ChainAfter(p[l])) = Len(p[l].prev_hash) + 1
      BY <3>1, <3>2, ChainGrows
    <3> QED BY <1>3, <1>6, <1>7, <3>2, <3>3
  <2> QED BY <2>1, <2>2
<1> QED BY <1>1, <1>4, <1>5, <1>7, <1>8

LEMMA HistoryNumbers ==
  ASSUME NEW f, Laid(f), NEW i \in Idx, HasHeader(f[i])
  PROVE  Numbers(History(f, i), f, i, MaxIndex + 1)
<1>1. PICK u, N : u = RecordsFrom(f, i) /\ N = MaxIndex + 1
  OBVIOUS
<1>0. f \in [Idx -> Seq(Chunk)] /\ i \in Nat /\ i < N /\ N \in Nat
  BY <1>1 DEF Laid, Idx
<1>2. /\ u[0] = << >>
      /\ \A n \in 1..N :
           u[n] = IF n <= i THEN u[n-1] ELSE u[n-1] \o RecordsOf(f, n - 1)[Len(f[n-1])]
      /\ \A n \in 0..N : u[n] \in Entries
  BY <1>0, <1>1, RecordsFromDef
<1> DEFINE Reach(n) == n \in Idx /\ i <= n /\ HasHeader(f[n]) =>
                         StartLen(f[n]) = StartLen(f[i]) + Len(u[n])
           Q(n) == Numbers(u[n], f, i, n) /\ Reach(n) /\ (n <= i => u[n] = << >>)
           T == {n \in Nat : Q(n)}
<1>3. StartLen(f[i]) \in Nat
  <2>1. f[i] \in Seq(Chunk) /\ f[i] # << >> /\ f[i][1].kind = "header"
    BY <1>0 DEF HasHeader
  <2>2. f[i][1] \in Chunk
    BY <2>1
  <2> QED BY <2>1, <2>2, ChainStarts DEF StartLen
<1>e. ASSUME NEW n \in Nat, n <= i, u[n] = << >> PROVE Q(n)
  <2>1. \A j \in Idx : ~(i <= j /\ j < n)
    BY <1>0, <1>e DEF Idx
  <2>2. Numbers(u[n], f, i, n)
    BY <1>e, <2>1, NoEntries DEF Numbers
  <2>3. Reach(n)
    <3>1. Len(<< >>) = 0
      OBVIOUS
    <3>2. i <= n => n = i
      BY <1>0, <1>e
    <3> QED BY <1>3, <1>e, <3>1, <3>2
  <2> QED BY <1>e, <2>2, <2>3
<1>4. 0 \in T
  <2>1. Q(0)
    <3>1. 0 \in Nat /\ 0 <= i
      BY <1>0
    <3> HIDE DEF Q
    <3> QED BY <1>2, <1>e, <3>1
  <2> HIDE DEF Q
  <2> QED BY <2>1
<1>5. ASSUME NEW n \in 0..(N - 1), n \in T PROVE n + 1 \in T
  <2>1. PICK p, a, b, r, s : /\ p = n + 1 /\ a = u[n] /\ b = u[p] /\ s = f[n]
                             /\ r = RecordsOf(f, n)[Len(s)]
    OBVIOUS
  <2>2. n \in Nat /\ p \in 1..N /\ p - 1 = n /\ p \in Nat /\ p \in 0..N /\ n \in 0..N /\ n \in Idx
    BY <1>0, <1>1, <2>1 DEF Idx
  <2>3. b = IF p <= i THEN a ELSE a \o r
    BY <1>2, <2>1, <2>2
  <2>4. Q(n)
    BY <1>5
  <2>5. CASE p <= i
    <3>1. n <= i /\ b = a
      BY <1>0, <2>1, <2>2, <2>3, <2>5
    <3>2. b = << >>
      BY <2>1, <2>4, <3>1
    <3>3. Q(p)
      <4> HIDE DEF Q
      <4> QED BY <1>e, <2>1, <2>2, <2>5, <3>2
    <3> QED BY <2>1, <2>2, <3>3
  <2>6. CASE ~(p <= i)
    <3>0. /\ i <= n /\ b = a \o r /\ s \in Seq(Chunk) /\ Len(s) \in Nat /\ Chains(s)
          /\ Tailed(s)
      <4>1. i <= n
        BY <1>0, <2>1, <2>2, <2>6
      <4>2. s \in Seq(Chunk)
        BY <1>0, <2>1, <2>2
      <4>3. Len(s) \in Nat
        BY <4>2
      <4>4. Chains(s) /\ Tailed(s)
        BY <2>1, <2>2 DEF Laid
      <4> QED BY <2>3, <2>6, <4>1, <4>2, <4>3, <4>4
    <3>1. Lists(r, s, n) /\ a \in Entries /\ b \in Entries
      BY <1>0, <1>2, <2>1, <2>2, <3>0, RecordsOfIs
    <3>2. PICK k, l : k = Len(a) /\ l = Len(r)
      OBVIOUS
    <3>3. /\ k \in Nat /\ l \in Nat /\ Len(b) = k + l
          /\ \A q \in 1..(k + l) : b[q] = IF q <= k THEN a[q] ELSE r[q - k]
      <4>1. a \in Seq(Idx \X Chunk) /\ r \in Seq(Idx \X Chunk)
        BY <3>1 DEF Lists, Entries
      <4>2. /\ Len(a \o r) = Len(a) + Len(r)
            /\ \A q \in 1..(Len(a) + Len(r)) : (a \o r)[q] = IF q <= Len(a) THEN a[q] ELSE r[q - Len(a)]
        BY <4>1, ConcatProperties, ZenonT(40)
      <4>3. k \in Nat /\ l \in Nat
        BY <3>2, <4>1
      <4> QED BY <3>0, <3>2, <4>2, <4>3
    <3>4. /\ \A q \in 1..l : /\ q + 1 \in 2..Len(s) /\ s[q + 1].kind = "record"
                             /\ r[q] = <<n, s[q + 1]>>
          /\ \A m \in 2..Len(s) : s[m].kind = "record" => m - 1 \in 1..l /\ r[m - 1] = <<n, s[m]>>
      <4>1. ASSUME NEW q \in 1..l
            PROVE  q + 1 \in 2..Len(s) /\ s[q + 1].kind = "record" /\ r[q] = <<n, s[q + 1]>>
        BY <3>0, <3>1, <3>2, <3>3 DEF Lists
      <4>2. ASSUME NEW m \in 2..Len(s), s[m].kind = "record"
            PROVE  m - 1 \in 1..l /\ r[m - 1] = <<n, s[m]>>
        <5>1. m - 1 <= l
          BY <3>1, <3>2, <4>2 DEF Lists
        <5>2. m - 1 \in 1..l /\ (m - 1) + 1 = m
          BY <3>0, <3>3, <5>1
        <5> QED BY <4>1, <5>2
      <4> QED BY <4>1, <4>2
    <3>5. ASSUME NEW q \in 1..l PROVE StartLen(s) = StartLen(f[i]) + k
      <4>1. HasHeader(s)
        <5>1. q + 1 \in 2..Len(s)
          BY <3>4
        <5>2. s # << >>
          BY <5>1
        <5> QED BY <3>0, <5>2 DEF Tailed
      <4> QED BY <2>1, <2>2, <2>4, <3>0, <3>2, <4>1
    <3>6. ASSUME NEW q \in 1..(k + l) PROVE Entered(b[q], f, i, p, StartLen(f[i]) + (q - 1))
      <4>1. CASE q <= k
        <5>1. q \in 1..k /\ b[q] = a[q]
          BY <3>3, <4>1
        <5>2. Entered(a[q], f, i, n, StartLen(f[i]) + (q - 1))
          BY <2>1, <2>4, <3>2, <5>1 DEF Numbers
        <5>3. PICK j \in Idx : \E m \in 2..Len(f[j]) :
                /\ i <= j /\ j < n /\ a[q] = <<j, f[j][m]>>
                /\ f[j][m].kind = "record" /\ Len(f[j][m].prev_hash) = StartLen(f[i]) + (q - 1)
          BY <5>2 DEF Entered
        <5>4. j < n => j < p
          BY <2>1, <2>2 DEF Idx
        <5> QED BY <5>1, <5>3, <5>4 DEF Entered
      <4>2. CASE ~(q <= k)
        <5>1. PICK g, m : g = q - k /\ m = g + 1
          OBVIOUS
        <5>2. g \in 1..l /\ b[q] = r[g]
          BY <3>3, <4>2, <5>1
        <5>3. m \in 2..Len(s) /\ s[m].kind = "record" /\ r[g] = <<n, s[m]>>
          BY <3>4, <5>1, <5>2
        <5>4. Len(s[m].prev_hash) = StartLen(s) + (m - 2)
          BY <3>0, <5>3, InChain
        <5>5. StartLen(s) = StartLen(f[i]) + k
          BY <3>5, <5>2
        <5>6. Len(s[m].prev_hash) = StartLen(f[i]) + (q - 1)
          BY <1>3, <3>3, <5>1, <5>4, <5>5
        <5>7. i <= n /\ n < p
          BY <2>1, <2>2, <3>0
        <5> QED BY <2>1, <2>2, <5>2, <5>3, <5>6, <5>7 DEF Entered
      <4> QED BY <4>1, <4>2
    <3>7. ASSUME NEW j \in Idx, i <= j, j < p, NEW m \in 2..Len(f[j]), f[j][m].kind = "record"
          PROVE  \E q \in 1..(k + l) : b[q] = <<j, f[j][m]>>
      <4>1. CASE j < n
        <5>1. PICK q \in 1..Len(a) : a[q] = <<j, f[j][m]>>
          BY <2>1, <2>4, <3>7, <4>1 DEF Numbers
        <5>2. q \in 1..(k + l) /\ q <= k
          BY <3>2, <3>3
        <5> QED BY <3>3, <5>1, <5>2
      <4>2. CASE ~(j < n)
        <5>1. j = n
          BY <2>1, <2>2, <3>7, <4>2 DEF Idx
        <5>2. m \in 2..Len(s) /\ s[m].kind = "record"
          BY <2>1, <3>7, <5>1
        <5>3. m - 1 \in 1..l /\ r[m - 1] = <<n, s[m]>>
          BY <3>4, <5>2
        <5>4. PICK q : q = k + (m - 1)
          OBVIOUS
        <5>5. q \in 1..(k + l) /\ ~(q <= k) /\ q - k = m - 1
          BY <3>0, <3>3, <5>3, <5>4
        <5>6. b[q] = <<n, s[m]>>
          BY <3>3, <5>3, <5>5
        <5> QED BY <2>1, <5>1, <5>5, <5>6
      <4> QED BY <4>1, <4>2
    <3>8. Numbers(b, f, i, p)
      BY <3>1, <3>3, <3>6, <3>7 DEF Numbers
    <3>9. ASSUME p \in Idx, HasHeader(f[p]) PROVE StartLen(f[p]) = StartLen(f[i]) + (k + l)
      <4>1. /\ HasHeader(s) /\ (\A m \in 2..Len(s) : s[m].kind = "record")
            /\ StartLen(f[p]) = StartLen(s) + (Len(s) - 1)
        BY <2>1, <2>2, <3>9, LinkLen
      <4>2. StartLen(s) = StartLen(f[i]) + k
        BY <2>1, <2>2, <2>4, <3>0, <3>2, <4>1
      <4>3. Len(s) >= 1
        <5>1. s # << >>
          BY <4>1 DEF HasHeader
        <5> QED BY <3>0, <5>1
      <4>4. l = Len(s) - 1
        <5>0. PICK z \in Nat : z = Len(s)
          BY <3>0
        <5>1. z # 1 => z - 1 <= l
          <6>1. z # 1 => z \in 2..z
            BY <4>3, <5>0
          <6>2. z # 1 => z - 1 \in 1..l
            BY <3>4, <4>1, <5>0, <6>1
          <6> QED BY <3>3, <6>2
        <5>2. l # 0 => l + 1 <= z
          <6>1. l # 0 => l \in 1..l
            BY <3>3
          <6>2. l # 0 => l + 1 \in 2..z
            BY <3>4, <5>0, <6>1
          <6> QED BY <3>3, <5>0, <6>2
        <5>3. l = z - 1
          BY <3>3, <4>3, <5>0, <5>1, <5>2
        <5> QED BY <5>0, <5>3
      <4> QED BY <1>3, <3>0, <3>3, <4>1, <4>2, <4>4
    <3>10. Reach(p)
      BY <2>1, <3>3, <3>9
    <3>11. Q(p)
      BY <2>1, <2>6, <3>8, <3>10
    <3> QED BY <2>1, <2>2, <3>11
  <2> QED BY <2>5, <2>6
<1>6. N \in T
  <2>1. \A n \in 0..N : n \in T
    <3> HIDE DEF T
    <3> QED BY <1>0, <1>4, <1>5, UpTo
  <2>2. N \in 0..N
    BY <1>0
  <2> QED BY <2>1, <2>2
<1>7. Numbers(u[N], f, i, N)
  BY <1>6
<1> QED BY <1>1, <1>7 DEF History

\* What a scan of s keeps is all of its records.
LEMMA RecordsKept ==
  ASSUME NEW s \in Seq(Chunk), NEW t \in Seq(Chunk), Chains(s), Tailed(s), IsPrefixOf(Intact(s), t)
  PROVE  /\ HasHeader(s) => HasHeader(t) /\ t[1] = s[1]
         /\ \A m \in 2..Len(s) : s[m].kind = "record" => m \in 2..Len(t) /\ t[m] = s[m]
<1>1. PICK a, z, n, k : a = Intact(s) /\ z = Len(a) /\ n = Len(s) /\ k = Len(t)
  OBVIOUS
<1>2. /\ a \in Seq(Chunk) /\ z \in Nat /\ n \in Nat /\ k \in Nat /\ z <= n /\ z <= k
      /\ (\A j \in 1..z : a[j] = s[j]) /\ (\A j \in 1..z : a[j] = t[j])
  BY <1>1, IntactKinds DEF IsPrefixOf
<1>3. ASSUME HasHeader(s) PROVE HasHeader(t) /\ t[1] = s[1]
  <2>1. z >= 1
    BY <1>1, <1>3, IntactPrefix
  <2>2. 1 \in 1..z /\ k # 0
    BY <1>2, <2>1
  <2>3. t # << >> /\ t[1] = s[1]
    BY <1>1, <1>2, <2>2
  <2> QED BY <1>3, <2>3 DEF HasHeader
<1>4. ASSUME NEW m \in 2..n, s[m].kind = "record" PROVE m \in 2..k /\ t[m] = s[m]
  <2>1. PICK w : w = SubSeq(s, 1, m)
    OBVIOUS
  <2>2. m \in Nat /\ m >= 2 /\ m <= n
    BY <1>2
  <2>3. w \in Seq(Chunk) /\ Len(w) = m /\ \A j \in 1..m : w[j] = s[j]
    BY <1>1, <1>2, <2>1, <2>2
  <2>4. \A q \in 2..m : s[q].kind = "record"
    BY <1>1, <1>4 DEF Tailed
  <2>5. HasHeader(s)
    <3>1. s # << >>
      BY <1>1, <2>2
    <3> QED BY <3>1 DEF Tailed
  <2>6. 1 \in 1..m /\ \A q \in 2..m : q \in 1..m
    BY <2>2
  <2>7. Whole(w)
    BY <2>3, <2>4, <2>5, <2>6 DEF Whole, HasHeader
  <2>8. IsPrefixOf(w, s)
    BY <1>1, <2>2, <2>3 DEF IsPrefixOf
  <2>9. IsPrefixOf(w, a)
    BY <1>1, <2>3, <2>7, <2>8, WholeKept
  <2>10. m <= z
    BY <1>1, <2>3, <2>9 DEF IsPrefixOf
  <2>11. m \in 1..z /\ m \in 2..k
    BY <1>2, <2>2, <2>10
  <2> QED BY <1>2, <2>11
<1> QED BY <1>1, <1>3, <1>4

\* There is always some history behind a segment: the genesis HMAC at least.
LEMMA StartPositive ==
  ASSUME NEW f, Laid(f), NEW i \in Idx, HasHeader(f[i])
  PROVE  StartLen(f[i]) \in Nat /\ StartLen(f[i]) >= 1
<1>0. f \in [Idx -> Seq(Chunk)] /\ MaxIndex \in Nat /\ Idx = 0..MaxIndex
  BY DEF Laid, Idx
<1> DEFINE Q(n) == HasHeader(f[n]) => StartLen(f[n]) \in Nat /\ StartLen(f[n]) >= 1
           T == {n \in Nat : Q(n)}
<1>1. 0 \in T
  <2>1. ASSUME HasHeader(f[0]) PROVE StartLen(f[0]) \in Nat /\ StartLen(f[0]) >= 1
    <3>0. 0 \in Idx
      BY <1>0
    <3>1. f[0] \in Seq(Chunk) /\ f[0] # << >> /\ f[0][1].kind = "header" /\ f[0][1].index = 0
      BY <1>0, <2>1, <3>0 DEF HasHeader, Laid
    <3>2. f[0][1] \in Chunk
      BY <3>1
    <3>3. Len(ChainStart(f[0][1])) = 1
      BY <3>1, <3>2, ChainStarts
    <3> QED BY <3>3 DEF StartLen
  <2> QED BY <2>1
<1>2. ASSUME NEW n \in 0..(MaxIndex - 1), n \in T PROVE n + 1 \in T
  <2>1. n \in Idx /\ n + 1 \in Idx /\ n + 1 \in Nat
    BY <1>0
  <2>2. ASSUME HasHeader(f[n + 1]) PROVE StartLen(f[n + 1]) \in Nat /\ StartLen(f[n + 1]) >= 1
    <3>1. /\ HasHeader(f[n]) /\ StartLen(f[n + 1]) = StartLen(f[n]) + (Len(f[n]) - 1)
      BY <2>1, <2>2, LinkLen
    <3>2. StartLen(f[n]) \in Nat /\ StartLen(f[n]) >= 1
      BY <1>2, <3>1
    <3>3. f[n] \in Seq(Chunk) /\ f[n] # << >>
      BY <1>0, <2>1, <3>1 DEF HasHeader
    <3>4. Len(f[n]) \in Nat /\ Len(f[n]) >= 1
      BY <3>3
    <3> QED BY <3>1, <3>2, <3>4
  <2> QED BY <2>1, <2>2
<1>3. \A n \in 0..MaxIndex : n \in T
  <2> HIDE DEF T
  <2> QED BY <1>0, <1>1, <1>2, UpTo
<1> QED BY <1>0, <1>3

\* The entries w are records of the files f from segment i on, each at the place that its
\* history gives it.
Traced(w, f, i) ==
  /\ HasHeader(f[i])
  /\ \A n \in 1..Len(w) : Entered(w[n], f, i, MaxIndex + 1, StartLen(f[i]) + (n - 1))

\* Records found so are the history, record by record.
LEMMA TracedIsHistory ==
  ASSUME NEW f, Laid(f), NEW i \in Idx, NEW w \in Entries, Traced(w, f, i)
  PROVE  IsPrefixOf(w, History(f, i))
<1>1. PICK h, b, N : h = History(f, i) /\ b = StartLen(f[i]) /\ N = MaxIndex + 1
  OBVIOUS
<1>2. Numbers(h, f, i, N)
  BY <1>1, HistoryNumbers DEF Traced
<1>3. b \in Nat
  BY <1>1, StartPositive DEF Traced
<1>4. ASSUME NEW n \in 1..Len(w) PROVE n \in 1..Len(h) /\ w[n] = h[n]
  <2>1. Entered(w[n], f, i, N, b + (n - 1))
    BY <1>1, <1>4 DEF Traced
  <2>2. PICK j \in Idx : \E m \in 2..Len(f[j]) :
          /\ i <= j /\ j < N /\ w[n] = <<j, f[j][m]>>
          /\ f[j][m].kind = "record" /\ Len(f[j][m].prev_hash) = b + (n - 1)
    BY <2>1 DEF Entered
  <2>3. PICK m \in 2..Len(f[j]) :
          /\ i <= j /\ j < N /\ w[n] = <<j, f[j][m]>>
          /\ f[j][m].kind = "record" /\ Len(f[j][m].prev_hash) = b + (n - 1)
    BY <2>2
  <2>4. PICK q \in 1..Len(h) : h[q] = <<j, f[j][m]>>
    BY <1>2, <2>3 DEF Numbers
  <2>5. Entered(h[q], f, i, N, b + (q - 1))
    BY <1>1, <1>2, <2>4 DEF Numbers
  <2>6. PICK j2 \in Idx : \E m2 \in 2..Len(f[j2]) :
          h[q] = <<j2, f[j2][m2]>> /\ Len(f[j2][m2].prev_hash) = b + (q - 1)
    BY <2>5 DEF Entered
  <2>7. PICK m2 \in 2..Len(f[j2]) :
          h[q] = <<j2, f[j2][m2]>> /\ Len(f[j2][m2].prev_hash) = b + (q - 1)
    BY <2>6
  <2>8. f[j2][m2] = f[j][m]
    BY <2>4, <2>7
  <2>9. b + (q - 1) = b + (n - 1)
    BY <2>3, <2>7, <2>8
  <2>10. Len(h) \in Nat /\ Len(w) \in Nat
    BY <1>2 DEF Numbers, Entries
  <2>11. q = n
    BY <1>3, <2>9, <2>10
  <2> QED BY <2>3, <2>4, <2>11
<1>5. Len(w) <= Len(h)
  <2>1. Len(h) \in Nat /\ Len(w) \in Nat
    BY <1>2 DEF Numbers, Entries
  <2>2. Len(w) # 0 => Len(w) \in 1..Len(w)
    BY <2>1
  <2> QED BY <1>4, <2>1, <2>2
<1> QED BY <1>1, <1>4, <1>5 DEF IsPrefixOf

\* One more record that continues it.
LEMMA TracedMore ==
  ASSUME NEW f, Laid(f), NEW i \in Idx, NEW w \in Entries, Traced(w, f, i), NEW j \in Idx, i <= j
  PROVE  \A m \in 2..Len(f[j]) : \A v :
           /\ f[j][m].kind = "record" /\ Len(f[j][m].prev_hash) = StartLen(f[i]) + Len(w)
           /\ v = Append(w, <<j, f[j][m]>>)
           => v \in Entries /\ Len(v) = Len(w) + 1 /\ Traced(v, f, i)
<1> SUFFICES ASSUME NEW m \in 2..Len(f[j]), f[j][m].kind = "record",
                    Len(f[j][m].prev_hash) = StartLen(f[i]) + Len(w),
                    NEW v, v = Append(w, <<j, f[j][m]>>)
             PROVE  v \in Entries /\ Len(v) = Len(w) + 1 /\ Traced(v, f, i)
  OBVIOUS
<1>1. PICK c, e, l, z : /\ c = f[j][m] /\ e = <<j, c>> /\ l = Len(w) /\ z = StartLen(f[i])
                        /\ v = Append(w, e)
  OBVIOUS
<1>2. f[j] \in Seq(Chunk)
  BY DEF Laid
<1>3. c \in Chunk
  <2>1. m \in 1..Len(f[j])
    BY <1>2
  <2> QED BY <1>1, <1>2, <2>1, ElementOfSeq
<1>4. /\ w \in Seq(Idx \X Chunk) /\ l \in Nat /\ e \in Idx \X Chunk
  BY <1>1, <1>3 DEF Entries
<1>5. /\ v \in Seq(Idx \X Chunk) /\ Len(v) = l + 1 /\ v[l + 1] = e /\ \A n \in 1..l : v[n] = w[n]
  BY <1>1, <1>4, AppendProperties
<1>6. Entered(e, f, i, MaxIndex + 1, z + l)
  <2>1. j < MaxIndex + 1
    BY DEF Idx
  <2> QED BY <1>1, <2>1 DEF Entered
<1>7. ASSUME NEW n \in 1..(l + 1) PROVE Entered(v[n], f, i, MaxIndex + 1, z + (n - 1))
  <2>1. CASE n = l + 1
    <3>1. n - 1 = l
      BY <1>4, <2>1
    <3> QED BY <1>5, <1>6, <2>1, <3>1
  <2>2. CASE n # l + 1
    <3>1. n \in 1..l
      BY <1>4, <2>2
    <3> QED BY <1>1, <1>5, <3>1 DEF Traced
  <2> QED BY <2>1, <2>2
<1>8. Traced(v, f, i)
  BY <1>1, <1>5, <1>7 DEF Traced
<1> QED BY <1>1, <1>5, <1>8 DEF Entries

\* A step that keeps what scans keep loses none of them.
LEMMA TracedStays ==
  ASSUME NEW f, NEW g, NEW i \in Idx, NEW w, Laid(f), Laid(g), Traced(w, f, i),
         \A j \in Idx : IsPrefixOf(Intact(f[j]), g[j])
  PROVE  Traced(w, g, i) /\ StartLen(g[i]) = StartLen(f[i])
<1>0. f \in [Idx -> Seq(Chunk)] /\ g \in [Idx -> Seq(Chunk)]
      /\ \A j \in Idx : Chains(f[j]) /\ Tailed(f[j])
  BY DEF Laid
<1>1. ASSUME NEW j \in Idx
      PROVE  /\ HasHeader(f[j]) => HasHeader(g[j]) /\ g[j][1] = f[j][1]
             /\ \A m \in 2..Len(f[j]) :
                  f[j][m].kind = "record" => m \in 2..Len(g[j]) /\ g[j][m] = f[j][m]
  <2>1. PICK s, t : s = f[j] /\ t = g[j]
    OBVIOUS
  <2>2. s \in Seq(Chunk) /\ t \in Seq(Chunk) /\ Chains(s) /\ Tailed(s)
    BY <1>0, <1>1, <2>1
  <2>3. IsPrefixOf(Intact(s), t)
    BY <1>1, <2>1
  <2>4. /\ HasHeader(s) => HasHeader(t) /\ t[1] = s[1]
        /\ \A m \in 2..Len(s) : s[m].kind = "record" => m \in 2..Len(t) /\ t[m] = s[m]
    BY <2>2, <2>3, RecordsKept
  <2> QED BY <2>1, <2>4
<1>2. HasHeader(g[i]) /\ StartLen(g[i]) = StartLen(f[i])
  BY <1>1 DEF Traced, StartLen
<1>3. ASSUME NEW n \in 1..Len(w)
      PROVE  Entered(w[n], g, i, MaxIndex + 1, StartLen(g[i]) + (n - 1))
  <2>1. Entered(w[n], f, i, MaxIndex + 1, StartLen(g[i]) + (n - 1))
    BY <1>2, <1>3 DEF Traced
  <2>2. PICK l, N : l = StartLen(g[i]) + (n - 1) /\ N = MaxIndex + 1
    OBVIOUS
  <2>3. PICK j \in Idx : \E m \in 2..Len(f[j]) :
          /\ i <= j /\ j < N /\ w[n] = <<j, f[j][m]>>
          /\ f[j][m].kind = "record" /\ Len(f[j][m].prev_hash) = l
    BY <2>1, <2>2 DEF Entered
  <2>4. PICK m \in 2..Len(f[j]) :
          /\ i <= j /\ j < N /\ w[n] = <<j, f[j][m]>>
          /\ f[j][m].kind = "record" /\ Len(f[j][m].prev_hash) = l
    BY <2>3
  <2>5. m \in 2..Len(g[j]) /\ g[j][m] = f[j][m]
    BY <1>1, <2>4
  <2>6. Entered(w[n], g, i, N, l)
    BY <2>4, <2>5 DEF Entered
  <2> QED BY <2>2, <2>6
<1> QED BY <1>2, <1>3 DEF Traced

-----------------------------------------------------------------------------
(* What one read of a verification does. *)

\* v is what the step reports, after the report so far.
Blames(v) ==
  IF vreport.violation = NoViolation
  THEN vreport'.violation = v /\ vreport'.additional = vreport.additional
  ELSE vreport'.violation = vreport.violation /\ vreport'.additional = Append(vreport.additional, v)

LEMMA ViolateBlames ==
  ASSUME opts \in OptsType, vreport \in ReportType, NEW r \in ReportType, NEW w \in WalkType,
         NEW kind \in Kinds, kind # "none", NEW id \in Int, Violate(r, w, kind, id),
         r.violation = vreport.violation, r.additional = vreport.additional
  PROVE  /\ Blames([kind |-> kind, segment |-> w.seg, record_id |-> id])
         /\ walk' = w
         /\ vpc' = "done" \/ (vpc' = "header" /\ opts.forensic /\ w.todo # {})
<1>1. PICK s, v : v = [kind |-> kind, segment |-> w.seg, record_id |-> id] /\ s = Pushed(r, v)
  OBVIOUS
<1>2. v \in ViolationType /\ v.kind # "none"
  BY <1>1 DEF ViolationType, WalkType, Idx
<1>3. s \in ReportType /\ s.violation # NoViolation
  BY <1>1, <1>2, PushedEffect
<1>4. IF vreport.violation = NoViolation
      THEN s.violation = v /\ s.additional = vreport.additional
      ELSE s.violation = vreport.violation /\ s.additional = Append(vreport.additional, v)
  BY <1>1, <1>2 DEF Pushed, ReportType
<1>5. CASE ~opts.forensic
  <2>1. vpc' = "done" /\ walk' = w /\ vreport' = s
    BY <1>1, <1>5 DEF Violate
  <2> QED BY <1>1, <1>4, <2>1 DEF Blames
<1>6. CASE opts.forensic
  <2>1. LeaveSegment(s, w)
    BY <1>1, <1>6 DEF Violate
  <2>2. CASE w.todo # {}
    <3>1. vpc' = "header" /\ walk' = w /\ vreport' = s
      BY <2>1, <2>2 DEF LeaveSegment
    <3> QED BY <1>1, <1>4, <1>6, <2>2, <3>1 DEF Blames
  <2>3. CASE w.todo = {}
    <3>1. vpc' = "done" /\ walk' = w /\ vreport' = Finished(s, w)
      BY <2>1, <2>3 DEF LeaveSegment
    <3>2. vreport' = [s EXCEPT !.final_hmac = w.prior_final]
      BY <1>3, <3>1 DEF Finished
    <3>3. vreport'.violation = s.violation /\ vreport'.additional = s.additional
      BY <1>3, <3>2 DEF ReportType
    <3> QED BY <1>1, <1>4, <3>1, <3>3 DEF Blames
  <2> QED BY <2>2, <2>3
<1> QED BY <1>5, <1>6

\* The header of segment i is read and refused for the given reason, or passed.
HeaderRefused(i, kind) ==
  /\ vpc' = "done" \/ (vpc' = "header" /\ opts.forensic /\ walk'.todo # {})
  /\ kind \in Kinds /\ kind # "none"
  /\ \/ kind = HeaderFault(i)
     \/ /\ kind = "SegmentDiscontinuity" /\ HeaderFault(i) = "none"
        /\ walk.prior_final # NoHash /\ file[i][1].prev_final # walk.prior_final
  /\ Blames([kind |-> kind, segment |-> i, record_id |-> -1])

HeaderPassed(i) ==
  /\ vpc' = "record" /\ HeaderFault(i) = "none"
  /\ walk.prior_final # NoHash => file[i][1].prev_final = walk.prior_final
  /\ walk'.pos = 1 /\ walk'.prev = SegmentStart(i, file[i][1])
  /\ vreport'.violation = vreport.violation /\ vreport'.additional = vreport.additional

HeaderRead(i) ==
  /\ i \in walk.todo /\ i \in Idx /\ i \in listed /\ \A j \in walk.todo : i <= j
  /\ walk' \in WalkType /\ walk'.todo = walk.todo \ {i} /\ walk'.seg = i
  /\ walk'.prior_final = walk.prior_final /\ walk'.prior_ts = walk.prior_ts
  /\ walk'.reached = walk.reached
  /\ HeaderPassed(i) \/ \E kind : HeaderRefused(i, kind)

LEMMA HeaderReads ==
  ASSUME VerifyInv, VerifyHeader
  PROVE  \E i : HeaderRead(i)
<1>0. PICK i, td : i = First(walk.todo) /\ td = walk.todo \ {i}
  OBVIOUS
<1>1. PICK h, r, w : /\ i = First(walk.todo) /\ td = walk.todo \ {i} /\ h = file[i][1]
                     /\ r = [vreport EXCEPT !.last_segment = i]
                     /\ w = [walk EXCEPT !.todo = td, !.seg = i]
  BY <1>0
<1>2. /\ walk \in WalkType /\ vreport \in ReportType /\ walk.todo \subseteq Idx
      /\ walk.todo # {} /\ walk.todo \subseteq listed /\ opts \in OptsType /\ FileInv
  BY DEF VerifyInv, StateInv, PathInv, WalkType, VerifyHeader
<1>3. i \in walk.todo /\ i \in Idx /\ i \in listed /\ (\A j \in walk.todo : i <= j)
  BY <1>1, <1>2, FirstOf
<1>4. w \in WalkType /\ w.todo = td /\ w.seg = i
  <2>1. td \in SUBSET Idx
    BY <1>1, <1>2
  <2> QED BY <1>1, <1>2, <1>3, <2>1 DEF WalkType
<1>5. /\ w.prior_final = walk.prior_final /\ w.reached = walk.reached
      /\ w.prior_ts = walk.prior_ts
  BY <1>1, <1>2 DEF WalkType
<1>6. r \in ReportType /\ r.violation = vreport.violation /\ r.additional = vreport.additional
  <2>1. i \in Int
    BY <1>3 DEF Idx
  <2> QED BY <1>1, <1>2, <2>1 DEF ReportType
<1>7. IF HeaderFault(i) # "none" THEN Violate(r, w, HeaderFault(i), -1)
      ELSE IF w.prior_final # NoHash /\ h.prev_final # w.prior_final
      THEN Violate(r, w, "SegmentDiscontinuity", -1)
      ELSE /\ walk' = [w EXCEPT !.pos = 1, !.next_id = 0, !.prev = SegmentStart(i, h)]
           /\ vreport' = r
           /\ vpc' = "record"
  BY <1>1 DEF VerifyHeader
<1>v. ASSUME NEW kind \in Kinds, kind # "none", Violate(r, w, kind, -1)
      PROVE  /\ Blames([kind |-> kind, segment |-> i, record_id |-> -1])
             /\ walk' = w
             /\ vpc' = "done" \/ (vpc' = "header" /\ opts.forensic /\ w.todo # {})
  <2>1. -1 \in Int
    OBVIOUS
  <2>2. /\ Blames([kind |-> kind, segment |-> w.seg, record_id |-> -1])
        /\ walk' = w
        /\ vpc' = "done" \/ (vpc' = "header" /\ opts.forensic /\ w.todo # {})
    BY <1>2, <1>4, <1>6, <1>v, <2>1, ViolateBlames
  <2> QED BY <1>4, <2>2
<1>w. ASSUME walk' = w, \E kind : HeaderRefused(i, kind) PROVE HeaderRead(i)
  BY <1>1, <1>3, <1>4, <1>5, <1>w DEF HeaderRead
<1>8. CASE HeaderFault(i) # "none"
  <2>1. HeaderFault(i) \in Kinds
    BY <1>2, <1>3, HeaderChecked
  <2>2. HeaderRefused(i, HeaderFault(i)) /\ walk' = w
    BY <1>7, <1>8, <1>v, <2>1 DEF HeaderRefused
  <2> QED BY <1>w, <2>2
<1>9. CASE HeaderFault(i) = "none" /\ w.prior_final # NoHash /\ h.prev_final # w.prior_final
  <2>1. "SegmentDiscontinuity" \in Kinds
    BY DEF Kinds
  <2>2. HeaderRefused(i, "SegmentDiscontinuity") /\ walk' = w
    BY <1>1, <1>5, <1>7, <1>9, <1>v, <2>1 DEF HeaderRefused
  <2> QED BY <1>w, <2>2
<1>10. CASE HeaderFault(i) = "none" /\ ~(w.prior_final # NoHash /\ h.prev_final # w.prior_final)
  <2>1. PICK g : g = SegmentStart(i, h)
    OBVIOUS
  <2>2. /\ walk' = [w EXCEPT !.pos = 1, !.next_id = 0, !.prev = g]
        /\ vreport' = r /\ vpc' = "record"
    BY <1>7, <1>10, <2>1
  <2>3. /\ walk'.todo = w.todo /\ walk'.seg = i /\ walk'.pos = 1 /\ walk'.prev = g
    BY <1>4, <2>2 DEF WalkType
  <2>4. /\ walk'.reached = w.reached /\ walk'.prior_final = w.prior_final
        /\ walk'.prior_ts = w.prior_ts
    BY <1>4, <2>2 DEF WalkType
  <2>5. walk' \in WalkType
    <3>0. PICK z \in Int : z = 0
      OBVIOUS
    <3>1. PICK a, b : a = [w EXCEPT !.pos = 1] /\ b = [a EXCEPT !.next_id = z]
      OBVIOUS
    <3>2. a \in WalkType
      BY <1>4, <3>1 DEF WalkType
    <3>3. b \in WalkType
      BY <3>1, <3>2 DEF WalkType
    <3>4. g \in Hash
      <4>1. h.prev_final \in Hash
        BY <1>1, <1>2, <1>3, <1>10, HeaderChecked
      <4>2. opts.key_id \in Keys
        BY DEF VerifyInv, PathInv, VerifyHeader
      <4> QED BY <2>1, <4>1, <4>2, GenesisMacType DEF SegmentStart
    <3>5. [b EXCEPT !.prev = g] \in WalkType
      BY <3>3, <3>4 DEF WalkType
    <3> QED BY <2>2, <3>0, <3>1, <3>5
  <2>6. HeaderPassed(i)
    BY <1>1, <1>5, <1>6, <1>10, <2>1, <2>2, <2>3 DEF HeaderPassed
  <2> QED BY <1>1, <1>3, <1>4, <1>5, <2>3, <2>4, <2>5, <2>6 DEF HeaderRead
<1> QED BY <1>8, <1>9, <1>10

\* The frame c is refused for the given reason, or accepted.
RecordRefused(c, kind) ==
  /\ vpc' = "done" \/ (vpc' = "header" /\ opts.forensic /\ walk.todo # {})
  /\ kind \in Kinds /\ kind # "none" /\ kind = Judgement(c)
  /\ walk' = walk /\ walked' = walked
  /\ Blames([kind |-> kind, segment |-> walk.seg, record_id |-> ReportedId(c, kind)])

RecordAccepted(c) ==
  /\ Judgement(c) = "accept" /\ c.kind = "record" /\ c.prev_hash = walk.prev
  /\ walked' = Append(walked, <<walk.seg, c>>)
  /\ vpc' = vpc /\ vreport' = vreport
  /\ walk'.todo = walk.todo /\ walk'.seg = walk.seg /\ walk'.pos = walk.pos + 1
  /\ walk'.prev = ChainAfter(c) /\ walk'.prior_ts = WallOf(c)
  /\ walk'.prior_final = walk.prior_final
  /\ walk'.reached = (walk.reached \/ AtCheckpoint(c))

LEMMA RecordReads ==
  ASSUME VerifyInv, VerifyRecord
  PROVE  LET c == file[walk.seg][walk.pos + 1] IN
         /\ c \in Chunk /\ c.kind # "header" /\ walk.seg \in Idx /\ walk.seg \in listed
         /\ walk.pos \in Nat /\ walk.pos >= 1 /\ walk.pos < Len(file[walk.seg])
         /\ RecordAccepted(c) \/ \E kind : RecordRefused(c, kind)
<1>1. PICK c, v : c = NextFrame /\ v = Judgement(c)
  OBVIOUS
<1>2. vpc = "record" /\ walk.pos < Len(file[walk.seg])
  BY DEF VerifyRecord
<1>3. /\ c \in Chunk /\ c.kind # "header" /\ walk.seg \in Idx
      /\ walk.pos \in Nat /\ walk.pos >= 1
  BY <1>1, <1>2, FrameType
<1>4. /\ walk \in WalkType /\ vreport \in ReportType /\ opts \in OptsType /\ StateInv
      /\ walk.seg \in listed
  BY <1>2 DEF VerifyInv, StateInv, PathInv
<1>5. CASE v # "accept"
  <2>1. PICK id : id = ReportedId(c, v)
    OBVIOUS
  <2>2. Violate(vreport, walk, v, id) /\ UNCHANGED walked
    BY <1>1, <1>5, <2>1 DEF VerifyRecord
  <2>3. v \in Kinds /\ v # "none" /\ id \in Int
    BY <1>1, <1>3, <1>4, <1>5, <2>1, RecordChecked
  <2>4. /\ Blames([kind |-> v, segment |-> walk.seg, record_id |-> id]) /\ walk' = walk
        /\ vpc' = "done" \/ (vpc' = "header" /\ opts.forensic /\ walk.todo # {})
    BY <1>4, <2>2, <2>3, ViolateBlames
  <2>5. RecordRefused(c, v)
    BY <1>1, <2>1, <2>2, <2>3, <2>4 DEF RecordRefused
  <2> QED BY <1>1, <1>2, <1>3, <1>4, <2>5 DEF NextFrame
<1>6. CASE v = "accept"
  <2>1. PICK g, ts, id, e, p, q : /\ g = ChainAfter(c) /\ ts = WallOf(c) /\ id = c.datum.record_id + 1
                                  /\ e = <<walk.seg, c>> /\ p = walk.pos + 1
                                  /\ q = (walk.reached \/ AtCheckpoint(c))
    OBVIOUS
  <2>2. /\ walk' = [walk EXCEPT !.pos = p, !.prev = g, !.prior_ts = ts, !.next_id = id, !.reached = q]
        /\ walked' = Append(walked, e) /\ vpc' = vpc /\ vreport' = vreport
    BY <1>1, <1>6, <2>1 DEF VerifyRecord
  <2>3. c.kind = "record" /\ c.prev_hash = walk.prev
    BY <1>1, <1>3, <1>4, <1>6, RecordChecked
  <2>4. /\ walk'.todo = walk.todo /\ walk'.seg = walk.seg /\ walk'.pos = p /\ walk'.prev = g
        /\ walk'.prior_ts = ts /\ walk'.prior_final = walk.prior_final /\ walk'.reached = q
    BY <1>4, <2>2 DEF WalkType
  <2>5. RecordAccepted(c)
    BY <1>1, <1>6, <2>1, <2>2, <2>3, <2>4 DEF RecordAccepted
  <2> QED BY <1>1, <1>2, <1>3, <1>4, <2>5 DEF NextFrame
<1> QED BY <1>5, <1>6

\* The end of a segment.
LEMMA EndReads ==
  ASSUME VerifyInv, VerifySegmentEnd
  PROVE  /\ vpc = "record" /\ walk.pos >= Len(file[walk.seg]) /\ walk.seg \in listed
         /\ walk'.todo = walk.todo /\ walk'.seg = walk.seg /\ walk'.prior_final = walk.prev
         /\ walk'.prior_ts = walk.prior_ts /\ walk'.reached = walk.reached
         /\ \/ vpc' = "header" /\ walk.todo # {} /\ vreport' = vreport
            \/ /\ vpc' = "done" /\ walk.todo = {}
               /\ vreport'.additional = vreport.additional
               /\ vreport'.violation # vreport.violation =>
                    /\ opts.checkpoint # NoCheckpoint /\ ~walk.reached
                    /\ vreport.violation = NoViolation
                    /\ vreport'.violation.kind = "CheckpointTruncated"
<1>1. PICK w : w = [walk EXCEPT !.prior_final = walk.prev]
  OBVIOUS
<1>2. /\ walk \in WalkType /\ vreport \in ReportType /\ walk.seg \in listed
      /\ vpc = "record" /\ walk.pos >= Len(file[walk.seg])
  BY DEF VerifyInv, StateInv, PathInv, VerifySegmentEnd
<1>3. /\ w.todo = walk.todo /\ w.prior_final = walk.prev /\ w.reached = walk.reached
      /\ w.seg = walk.seg /\ w.prior_ts = walk.prior_ts
  BY <1>1, <1>2 DEF WalkType
<1>4. LeaveSegment(vreport, w)
  BY <1>1 DEF VerifySegmentEnd
<1>5. CASE w.todo # {}
  <2>1. vpc' = "header" /\ walk' = w /\ vreport' = vreport
    BY <1>4, <1>5 DEF LeaveSegment
  <2> QED BY <1>2, <1>3, <1>5, <2>1
<1>6. CASE w.todo = {}
  <2>1. vpc' = "done" /\ walk' = w /\ vreport' = Finished(vreport, w)
    BY <1>4, <1>6 DEF LeaveSegment
  <2>2. PICK s : s = [vreport EXCEPT !.final_hmac = w.prior_final]
    OBVIOUS
  <2>3. s.violation = vreport.violation /\ s.additional = vreport.additional
    BY <1>2, <2>2 DEF ReportType
  <2>4. CASE opts.checkpoint # NoCheckpoint /\ ~w.reached /\ vreport.violation = NoViolation
    <3>1. PICK v : v = [kind |-> "CheckpointTruncated", segment |-> opts.checkpoint.segment,
                        record_id |-> opts.checkpoint.record_id]
      OBVIOUS
    <3>2. vreport' = Pushed(s, v)
      BY <2>1, <2>2, <2>4, <3>1 DEF Finished
    <3>3. vreport' = [s EXCEPT !.violation = v]
      BY <2>3, <2>4, <3>2 DEF Pushed
    <3>4. vreport'.violation = v /\ vreport'.additional = s.additional
      BY <1>2, <2>2, <3>3 DEF ReportType
    <3>5. v.kind = "CheckpointTruncated"
      BY <3>1
    <3> QED BY <1>2, <1>3, <1>6, <2>1, <2>3, <2>4, <3>4, <3>5
  <2>5. CASE ~(opts.checkpoint # NoCheckpoint /\ ~w.reached /\ vreport.violation = NoViolation)
    <3>1. vreport' = s
      BY <2>1, <2>2, <2>5 DEF Finished
    <3> QED BY <1>2, <1>3, <1>6, <2>1, <2>3, <3>1
  <2> QED BY <2>4, <2>5
<1> QED BY <1>5, <1>6

-----------------------------------------------------------------------------
(* A verification without a violation follows the history that was written. *)

\* The walk has l of history behind it, from the first listed segment on.
At(l) == /\ Traced(walked, Reference, First(listed))
         /\ l = StartLen(Reference[First(listed)]) + Len(walked)

\* A stop-at-first verification, or a forensic one that has nothing to report.
OnTrack == ~opts.forensic \/ vreport.violation = NoViolation

TraceInv ==
  ~rewritten /\ OnTrack =>
    /\ vpc = "header" => \/ /\ First(listed) \in walk.todo
                            /\ walked = << >> /\ walk.prior_final = NoHash
                         \/ First(listed) \notin walk.todo /\ At(Len(walk.prior_final))
    /\ vpc = "record" => First(listed) \notin walk.todo /\ At(Len(walk.prev))
    /\ vpc = "done" /\ walked # << >> => Traced(walked, Reference, First(listed))

\* The log is as the writer left it, or was so before the first outside change.
BaseInv ==
  /\ Laid(Reference)
  /\ edits = 0 => LogInv
  /\ ~rewritten => \A i \in Idx : Stems(file[i], Reference[i])
  /\ vpc = "idle" \/ listed = {} => walked = << >>

LEMMA StemsRefl ==
  ASSUME NEW s \in Seq(Chunk)
  PROVE  Stems(s, s)
BY DEF Stems

LEMMA StemsTrans ==
  ASSUME NEW s \in Seq(Chunk), NEW t, NEW u, Stems(t, s), Stems(u, t)
  PROVE  Stems(u, s)
<1>1. /\ t \in Seq(Chunk) /\ u \in Seq(Chunk)
      /\ t # << >> => s # << >> /\ t[1] = s[1]
      /\ u # << >> => t # << >> /\ u[1] = t[1]
      /\ \A n \in 2..Len(t) : t[n] \in {Torn, Bad} \/ \E m \in 2..Len(s) : t[n] = s[m]
      /\ \A n \in 2..Len(u) : u[n] \in {Torn, Bad} \/ \E m \in 2..Len(t) : u[n] = t[m]
  BY DEF Stems
<1>2. ASSUME NEW n \in 2..Len(u), u[n] \notin {Torn, Bad} PROVE \E m \in 2..Len(s) : u[n] = s[m]
  <2>1. PICK m \in 2..Len(t) : u[n] = t[m]
    BY <1>1, <1>2
  <2> QED BY <1>1, <1>2, <2>1
<1> QED BY <1>1, <1>2 DEF Stems

LEMMA LaidAlways == IInv /\ LogInv => Laid(file)
BY LaidNow

LEMMA BaseStart ==
  ASSUME VInit
  PROVE  BaseInv
<1>1. IInv /\ LogInv
  BY InitIInv, LogStart DEF VInit
<1>2. Laid(file) /\ file \in [Idx -> Seq(Chunk)]
  BY <1>1, LaidNow DEF IInv, TypeOK
<1>3. Reference = file /\ walked = << >>
  BY DEF VInit, VerifierInit, Reference
<1>4. \A i \in Idx : Stems(file[i], Reference[i])
  BY <1>2, <1>3, StemsRefl
<1> QED BY <1>1, <1>2, <1>3, <1>4 DEF BaseInv

LEMMA EditBooks ==
  ASSUME Edit, StateInv
  PROVE  /\ edits' # 0 /\ original' = Reference
         /\ ~rewritten' => /\ ~rewritten
                           /\ AlterRecord \/ RemoveRecord \/ CutSegment \/ DeleteSegment
<1>1. edits' # 0
  BY EditEffect
<1>2. \E kind : Edited(kind)
  BY DEF Edit, AlterRecord, RemoveRecord, CutSegment, DeleteSegment, RewriteHistory
<1>3. original' = Reference /\ (~rewritten' => ~rewritten)
  BY <1>2 DEF Edited, Reference
<1>4. RewriteHistory => rewritten'
  BY DEF RewriteHistory, Edited
<1> QED BY <1>1, <1>3, <1>4 DEF Edit

LEMMA BaseNext ==
  ASSUME FewSegments, WritesLand, VerifyInv, WriterInv, VerifyInv', WriterInv', BaseInv,
         [VNext]_allvars
  PROVE  BaseInv'
<1>0. FileInv /\ StateInv /\ file \in [Idx -> Seq(Chunk)] /\ file' \in [Idx -> Seq(Chunk)]
  BY DEF VerifyInv, FileInv
<1>1. CASE WriterWorks
  <2>1. edits = 0 /\ [Next]_vars /\ IInv /\ UNCHANGED <<edits, rewritten, walked, vpc, listed>>
    BY <1>1 DEF WriterWorks, WriterInv, vvars
  <2>2. IInv' /\ LogInv
    BY <2>1 DEF WriterInv, BaseInv
  <2>3. LogInv'
    BY <2>1, <2>2, LogNext
  <2>4. Laid(file')
    <3>1. Laid(file)'
      BY <2>2, <2>3, LaidAlways, PTL
    <3> QED BY <3>1
  <2>5. Reference' = file'
    BY <2>1 DEF Reference
  <2>6. \A i \in Idx : Stems(file'[i], file'[i])
    BY <1>0, StemsRefl
  <2> QED BY <2>1, <2>3, <2>4, <2>5, <2>6 DEF BaseInv
<1>2. CASE Edit
  <2>1. /\ edits' # 0 /\ original' = Reference
        /\ ~rewritten' => /\ ~rewritten
                          /\ AlterRecord \/ RemoveRecord \/ CutSegment \/ DeleteSegment
    BY <1>0, <1>2, EditBooks
  <2>2. Reference' = Reference
    BY <2>1 DEF Reference
  <2>3. UNCHANGED <<vpc, listed, walked>>
    BY <1>0, <1>2, EditEffect
  <2>4. ASSUME ~rewritten', NEW i \in Idx PROVE Stems(file'[i], Reference[i])
    <3>1. Stems(file'[i], file[i]) /\ Stems(file[i], Reference[i])
      BY <1>0, <2>1, <2>4, EditStems DEF BaseInv
    <3>2. Reference[i] \in Seq(Chunk)
      BY DEF BaseInv, Laid
    <3> QED BY <3>1, <3>2, StemsTrans
  <2> QED BY <2>1, <2>2, <2>3, <2>4 DEF BaseInv
<1>3. CASE VerifierNext /\ UNCHANGED vars
  <2>1. UNCHANGED <<edits, rewritten, original, file>>
    BY <1>3 DEF VerifierNext, StartVerify, VerifyHeader, VerifyRecord, VerifySegmentEnd,
                SaveCheckpoint, EndVerify, vars
  <2>2. Reference' = Reference
    BY <2>1 DEF Reference
  <2>3. edits' = 0 => LogInv'
    BY <1>3, <2>1, LogNext DEF BaseInv, WriterInv
  <2>4. vpc' = "idle" \/ listed' = {} => walked' = << >>
    <3>1. ASSUME NEW k \in Keys, NEW forensic \in BOOLEAN, NEW cp \in {NoCheckpoint, saved},
                 StartVerify(k, forensic, cp)
          PROVE  walked' = << >>
      BY <3>1 DEF StartVerify
    <3>2. ASSUME VerifyHeader PROVE vpc' # "idle" /\ UNCHANGED <<listed, walked>>
      BY <3>2, HeaderReads DEF HeaderRead, HeaderPassed, HeaderRefused, VerifyHeader
    <3>3. ASSUME VerifyRecord PROVE vpc' # "idle" /\ listed' # {}
      <4>1. UNCHANGED listed /\ vpc = "record"
        BY <3>3 DEF VerifyRecord
      <4> QED BY <3>3, <4>1, RecordReads DEF RecordAccepted, RecordRefused
    <3>4. ASSUME VerifySegmentEnd PROVE vpc' # "idle" /\ UNCHANGED <<listed, walked>>
      BY <3>4, EndReads DEF VerifySegmentEnd
    <3>5. ASSUME SaveCheckpoint PROVE vpc' # "idle" /\ UNCHANGED <<listed, walked>>
      BY <3>5 DEF SaveCheckpoint, Verified
    <3>6. ASSUME EndVerify PROVE walked' = << >>
      BY <3>6 DEF EndVerify
    <3> QED BY <1>3, <3>1, <3>2, <3>3, <3>4, <3>5, <3>6, VerifierSteps DEF BaseInv
  <2> QED BY <2>1, <2>2, <2>3, <2>4 DEF BaseInv
<1>4. CASE UNCHANGED allvars
  <2>1. UNCHANGED <<edits, rewritten, original, file, vpc, listed, walked>> /\ UNCHANGED vars
    BY <1>4 DEF allvars, vvars, vars
  <2>2. edits' = 0 => LogInv'
    BY <2>1, LogNext DEF BaseInv, WriterInv
  <2>3. Reference' = Reference
    BY <2>1 DEF Reference
  <2> QED BY <2>1, <2>2, <2>3 DEF BaseInv
<1> QED BY <1>1, <1>2, <1>3, <1>4 DEF VNext

\* A record of a file is one of the file before the changes.
LEMMA StemRecord ==
  ASSUME NEW s \in Seq(Chunk), NEW t, Stems(t, s), NEW n \in 2..Len(t), t[n].kind = "record"
  PROVE  \E m \in 2..Len(s) : t[n] = s[m]
BY DEF Stems, Torn, Bad

LEMMA TraceStart ==
  ASSUME VerifyInv, NEW k \in Keys, NEW forensic \in BOOLEAN, NEW cp \in {NoCheckpoint, saved},
         StartVerify(k, forensic, cp)
  PROVE  TraceInv'
<1>1. /\ walked' = << >> /\ listed' = Visible /\ walk' = [StartWalk EXCEPT !.todo = Visible]
      /\ vpc' \in {"done", "header"} /\ (vpc' = "header" => Visible # {})
  BY DEF StartVerify
<1>2. walk'.todo = Visible /\ walk'.prior_final = NoHash
  BY <1>1 DEF StartWalk
<1>3. Visible \subseteq Idx
  BY DEF Visible, VerifyInv, FileInv
<1>4. vpc' = "header" => First(listed') \in walk'.todo
  BY <1>1, <1>2, <1>3, FirstOf
<1> QED BY <1>1, <1>2, <1>4 DEF TraceInv

LEMMA TraceHeader ==
  ASSUME VerifyInv, BaseInv, TraceInv, VerifyHeader, UNCHANGED vars
  PROVE  TraceInv'
<1>1. PICK f, b : f = Reference /\ b = First(listed)
  OBVIOUS
<1>2. /\ UNCHANGED <<opts, listed, rewritten, walked, file, edits, original>> /\ vpc = "header"
  BY DEF VerifyHeader, vars
<1>3. Reference' = f /\ First(listed') = b /\ Laid(f)
  BY <1>1, <1>2 DEF Reference, BaseInv
<1>4. PICK i : HeaderRead(i)
  BY HeaderReads
<1>5. /\ i \in walk.todo /\ i \in Idx /\ i \in listed /\ (\A j \in walk.todo : i <= j)
      /\ walk' \in WalkType /\ walk'.todo = walk.todo \ {i} /\ walk'.seg = i
      /\ HeaderPassed(i) \/ \E kind : HeaderRefused(i, kind)
  BY <1>4 DEF HeaderRead
<1>6. b \in listed /\ b \in Idx /\ \A j \in listed : b <= j
  <2>1. listed \subseteq Idx /\ listed # {}
    BY <1>5 DEF VerifyInv, StateInv
  <2> QED BY <1>1, <2>1, FirstOf
<1>7. CASE \E kind : HeaderRefused(i, kind)
  <2>1. vpc' = "done" \/ (vpc' = "header" /\ opts.forensic)
    BY <1>7 DEF HeaderRefused
  <2>2. vreport'.violation # NoViolation
    <3>1. PICK kind : HeaderRefused(i, kind)
      BY <1>7
    <3>2. PICK v : v = [kind |-> kind, segment |-> i, record_id |-> -1]
      OBVIOUS
    <3>3. v.kind # "none"
      BY <3>1, <3>2 DEF HeaderRefused
    <3>4. v # NoViolation
      BY <3>3 DEF NoViolation
    <3> QED BY <3>1, <3>2, <3>4 DEF HeaderRefused, Blames
  <2>3. ASSUME ~rewritten, ~opts.forensic, walked # << >>
        PROVE  Traced(walked, f, b)
    BY <1>1, <1>2, <2>3 DEF TraceInv, OnTrack, At
  <2> QED BY <1>2, <1>3, <2>1, <2>2, <2>3 DEF TraceInv, OnTrack
<1>8. CASE HeaderPassed(i)
  <2>1. /\ vpc' = "record" /\ HeaderFault(i) = "none"
        /\ walk.prior_final # NoHash => file[i][1].prev_final = walk.prior_final
        /\ walk'.prev = SegmentStart(i, file[i][1])
        /\ vreport'.violation = vreport.violation
    BY <1>8 DEF HeaderPassed
  <2>2. PICK c : c = file[i][1]
    OBVIOUS
  <2>3. c \in Chunk /\ c.kind = "header" /\ HasHeader(file[i])
    BY <1>5, <2>1, <2>2, HeaderChecked DEF VerifyInv, HasHeader
  <2>4. ASSUME ~rewritten, OnTrack PROVE b \notin walk'.todo /\ Traced(walked, f, b)
                                         /\ Len(walk'.prev) = StartLen(f[b]) + Len(walked)
    <3>1. Stems(file[i], f[i])
      BY <1>1, <1>5, <2>4 DEF BaseInv
    <3>2. CASE b \in walk.todo /\ walked = << >> /\ walk.prior_final = NoHash
      <4>1. i = b
        BY <1>5, <1>6, <3>2 DEF Idx
      <4>2. HasHeader(f[b]) /\ f[b][1] = c
        BY <2>2, <2>3, <3>1, <4>1 DEF Stems, HasHeader
      <4>3. c.index = b
        BY <1>3, <1>6, <4>2 DEF Laid
      <4>4. Len(<< >>) = 0
        OBVIOUS
      <4>5. \A n \in 1..0 : FALSE
        OBVIOUS
      <4>6. Traced(walked, f, b)
        BY <3>2, <4>2, <4>4, <4>5 DEF Traced
      <4>7. StartLen(f[b]) = Len(ChainStart(c)) /\ StartLen(f[b]) \in Nat
        BY <1>3, <1>6, <4>2, StartPositive DEF StartLen
      <4>8. ASSUME b = 0 PROVE Len(walk'.prev) = StartLen(f[b])
        <5>1. walk'.prev = GenesisMac(opts.key_id) /\ Len(GenesisMac(opts.key_id)) = 1
          BY <2>1, <4>1, <4>8 DEF SegmentStart, GenesisMac
        <5>2. Len(ChainStart(c)) = 1
          BY <2>3, <4>3, <4>8, ChainStarts
        <5> QED BY <4>7, <5>1, <5>2
      <4>9. ASSUME b # 0 PROVE Len(walk'.prev) = StartLen(f[b])
        BY <2>1, <2>2, <4>1, <4>3, <4>7, <4>9 DEF SegmentStart, ChainStart
      <4>10. Len(walk'.prev) = StartLen(f[b]) + Len(walked)
        BY <3>2, <4>4, <4>7, <4>8, <4>9
      <4> QED BY <1>5, <4>1, <4>6, <4>10
    <3>3. CASE b \notin walk.todo /\ At(Len(walk.prior_final))
      <4>1. Traced(walked, f, b) /\ Len(walk.prior_final) = StartLen(f[b]) + Len(walked)
        BY <1>1, <3>3 DEF At
      <4>2. StartLen(f[b]) \in Nat /\ StartLen(f[b]) >= 1 /\ Len(walked) \in Nat
        BY <1>3, <1>6, <4>1, StartPositive DEF Traced, VerifyInv, StateInv
      <4>3. walk.prior_final # NoHash
        BY <4>1, <4>2 DEF NoHash
      <4>4. i # 0
        BY <1>5, <1>6, <3>3 DEF Idx
      <4>5. walk'.prev = walk.prior_final
        BY <2>1, <4>3, <4>4 DEF SegmentStart
      <4> QED BY <1>5, <3>3, <4>1, <4>5
    <3> QED BY <1>1, <1>2, <2>4, <3>2, <3>3 DEF TraceInv
  <2>5. OnTrack' => OnTrack
    BY <1>2, <2>1 DEF OnTrack
  <2> QED BY <1>2, <1>3, <2>1, <2>4, <2>5 DEF TraceInv, At
<1> QED BY <1>5, <1>7, <1>8

LEMMA TraceRecord ==
  ASSUME VerifyInv, BaseInv, TraceInv, VerifyRecord, UNCHANGED vars
  PROVE  TraceInv'
<1>1. PICK f, b, i, c : f = Reference /\ b = First(listed) /\ i = walk.seg /\ c = file[i][walk.pos + 1]
  OBVIOUS
<1>2. /\ UNCHANGED <<opts, listed, rewritten, file, edits, original>> /\ vpc = "record"
  BY DEF VerifyRecord, vars
<1>3. Reference' = f /\ First(listed') = b /\ Laid(f)
  BY <1>1, <1>2 DEF Reference, BaseInv
<1>4. /\ c \in Chunk /\ c.kind # "header" /\ i \in Idx /\ i \in listed
      /\ walk.pos \in Nat /\ walk.pos >= 1 /\ walk.pos < Len(file[i])
      /\ RecordAccepted(c) \/ \E kind : RecordRefused(c, kind)
  BY <1>1, RecordReads
<1>5. b \in Idx /\ b <= i
  <2>1. listed \subseteq Idx /\ listed # {}
    BY <1>4 DEF VerifyInv, StateInv
  <2> QED BY <1>1, <1>4, <2>1, FirstOf
<1>6. ASSUME ~rewritten, OnTrack
      PROVE  /\ b \notin walk.todo /\ Traced(walked, f, b)
             /\ Len(walk.prev) = StartLen(f[b]) + Len(walked)
  BY <1>1, <1>2, <1>6 DEF TraceInv, At
<1>7. CASE \E kind : RecordRefused(c, kind)
  <2>1. PICK kind : RecordRefused(c, kind)
    BY <1>7
  <2>2. (vpc' = "done" \/ (vpc' = "header" /\ opts.forensic)) /\ walked' = walked
    BY <2>1 DEF RecordRefused
  <2>3. vreport'.violation # NoViolation
    <3>1. PICK id : id = ReportedId(c, kind)
      OBVIOUS
    <3>2. PICK v : v = [kind |-> kind, segment |-> walk.seg, record_id |-> id]
      OBVIOUS
    <3>3. v.kind # "none"
      BY <2>1, <3>2 DEF RecordRefused
    <3>4. v # NoViolation
      BY <3>3 DEF NoViolation
    <3> QED BY <2>1, <3>1, <3>2, <3>4 DEF RecordRefused, Blames
  <2>4. ~opts.forensic => OnTrack
    BY DEF OnTrack
  <2> QED BY <1>2, <1>3, <1>6, <2>2, <2>3, <2>4 DEF TraceInv, OnTrack
<1>8. CASE RecordAccepted(c)
  <2>1. /\ c.kind = "record" /\ c.prev_hash = walk.prev
        /\ walked' = Append(walked, <<i, c>>) /\ vpc' = "record" /\ vreport' = vreport
        /\ walk'.todo = walk.todo /\ walk'.prev = ChainAfter(c)
    BY <1>1, <1>2, <1>8 DEF RecordAccepted
  <2>2. OnTrack' = OnTrack
    BY <1>2, <2>1 DEF OnTrack
  <2>3. ASSUME ~rewritten, OnTrack
        PROVE  Traced(walked', f, b) /\ Len(walk'.prev) = StartLen(f[b]) + Len(walked')
    <3>1. walked \in Entries /\ Len(walked) \in Nat
      BY DEF VerifyInv, StateInv, Entries
    <3>2. Traced(walked, f, b) /\ Len(c.prev_hash) = StartLen(f[b]) + Len(walked)
      BY <1>6, <2>1, <2>3
    <3>3. StartLen(f[b]) \in Nat
      BY <1>3, <1>5, <3>2, StartPositive DEF Traced
    <3>4. PICK m \in 2..Len(f[i]) : c = f[i][m]
      <4>1. PICK s, t, n : s = f[i] /\ t = file[i] /\ n = walk.pos + 1
        OBVIOUS
      <4>2. s \in Seq(Chunk) /\ Stems(t, s) /\ Len(t) \in Nat
        <5>1. s \in Seq(Chunk)
          BY <1>3, <1>4, <4>1 DEF Laid
        <5>2. Stems(t, s)
          BY <1>1, <1>4, <2>3, <4>1 DEF BaseInv
        <5> QED BY <5>1, <5>2 DEF Stems
      <4>3. n \in 2..Len(t) /\ t[n] = c
        BY <1>1, <1>4, <4>1, <4>2
      <4> QED BY <2>1, <4>1, <4>2, <4>3, StemRecord
    <3>5. Traced(walked', f, b) /\ Len(walked') = Len(walked) + 1
      <4>1. f[i][m].kind = "record" /\ Len(f[i][m].prev_hash) = StartLen(f[b]) + Len(walked)
        BY <2>1, <3>2, <3>4
      <4>2. PICK v : v = walked' /\ v = Append(walked, <<i, f[i][m]>>)
        BY <2>1, <3>4
      <4>3. Len(v) = Len(walked) + 1 /\ Traced(v, f, b)
        <5>0. Laid(f) /\ b \in Idx /\ i \in Idx /\ b <= i
          BY <1>3, <1>4, <1>5
        <5>1. \A n \in 2..Len(f[i]) : \A x :
                 /\ f[i][n].kind = "record" /\ Len(f[i][n].prev_hash) = StartLen(f[b]) + Len(walked)
                 /\ x = Append(walked, <<i, f[i][n]>>)
                 => x \in Entries /\ Len(x) = Len(walked) + 1 /\ Traced(x, f, b)
          BY <3>1, <3>2, <5>0, TracedMore
        <5> QED BY <3>4, <4>1, <4>2, <5>1
      <4> QED BY <4>2, <4>3
    <3>6. Len(ChainAfter(c)) = Len(c.prev_hash) + 1
      BY <1>4, <2>1, ChainGrows
    <3> QED BY <2>1, <3>1, <3>2, <3>3, <3>5, <3>6
  <2> QED BY <1>2, <1>3, <1>6, <2>1, <2>2, <2>3 DEF TraceInv, At
<1> QED BY <1>4, <1>7, <1>8

LEMMA TraceEnd ==
  ASSUME VerifyInv, TraceInv, VerifySegmentEnd, UNCHANGED vars
  PROVE  TraceInv'
<1>1. /\ UNCHANGED <<opts, listed, rewritten, file, edits, original, walked>> /\ vpc = "record"
  BY DEF VerifySegmentEnd, vars
<1>2. Reference' = Reference /\ First(listed') = First(listed)
  BY <1>1 DEF Reference
<1>3. /\ walk'.todo = walk.todo /\ walk'.prior_final = walk.prev /\ vpc' \in {"header", "done"}
      /\ vreport'.violation = NoViolation => vreport.violation = NoViolation
  BY EndReads
<1>4. OnTrack' => OnTrack
  BY <1>1, <1>3 DEF OnTrack
<1> QED BY <1>1, <1>2, <1>3, <1>4 DEF TraceInv, At

LEMMA TraceNext ==
  ASSUME FewSegments, VerifyInv, WriterInv, BaseInv, BaseInv', TraceInv, [VNext]_allvars
  PROVE  TraceInv'
<1>1. CASE WriterWorks
  <2>1. edits = 0 /\ [Next]_vars /\ IInv /\ UNCHANGED vvars
    BY <1>1 DEF WriterWorks, WriterInv
  <2>2. UNCHANGED <<vpc, opts, listed, walk, vreport, edits, rewritten, walked>>
    BY <2>1 DEF vvars
  <2>3. Reference = file /\ Reference' = file' /\ PlaceInv
    BY <2>1, <2>2 DEF Reference, BaseInv, LogInv
  <2>4. Laid(file) /\ Laid(file')
    BY <2>3 DEF BaseInv
  <2>5. \A j \in Idx : IsPrefixOf(Intact(file[j]), file'[j])
    BY <2>1, <2>3, NoPowerLoss, ImmutableStep
  <2>6. PICK b : b = First(listed)
    OBVIOUS
  <2>7. ASSUME b \in Idx, Traced(walked, file, b)
        PROVE  Traced(walked, file', b) /\ StartLen(file'[b]) = StartLen(file[b])
    BY <2>4, <2>5, <2>7, TracedStays
  <2>8. vpc \in {"header", "record"} => b \in Idx
    <3>1. listed \subseteq Idx /\ (vpc \in {"header", "record"} => listed # {})
      BY DEF VerifyInv, StateInv, PathInv
    <3> QED BY <2>6, <3>1, FirstOf
  <2>9. CASE listed # {}
    <3>1. b \in Idx
      BY <2>6, <2>9, FirstOf DEF VerifyInv, StateInv
    <3>2. \A l : At(l) => At(l)'
      BY <2>2, <2>3, <2>6, <2>7, <3>1 DEF At
    <3>3. OnTrack' = OnTrack /\ First(listed') = b
      BY <2>2, <2>6 DEF OnTrack
    <3> QED BY <2>2, <2>3, <2>6, <2>7, <3>1, <3>2, <3>3 DEF TraceInv
  <2>10. CASE listed = {}
    <3>1. vpc \notin {"header", "record"}
      BY <2>10 DEF VerifyInv, PathInv
    <3>2. walked = << >>
      BY <2>10 DEF BaseInv
    <3> QED BY <2>2, <3>1, <3>2 DEF TraceInv
  <2> QED BY <2>9, <2>10
<1>2. CASE Edit
  <2>1. vpc' = "idle"
    BY <1>2, EditEffect DEF VerifyInv
  <2> QED BY <2>1 DEF TraceInv
<1>3. CASE VerifierNext /\ UNCHANGED vars
  <2>1. ASSUME SaveCheckpoint PROVE TraceInv'
    <3>1. UNCHANGED <<vpc, opts, listed, walk, vreport, edits, rewritten, original, walked, file>>
      BY <1>3, <2>1 DEF SaveCheckpoint, vars
    <3>2. Reference' = Reference
      BY <3>1 DEF Reference
    <3> QED BY <2>1, <3>1, <3>2 DEF TraceInv, OnTrack, SaveCheckpoint, Verified
  <2>2. ASSUME EndVerify PROVE TraceInv'
    BY <2>2 DEF EndVerify, TraceInv
  <2> QED BY <1>3, <2>1, <2>2, VerifierSteps, TraceStart, TraceHeader, TraceRecord, TraceEnd
<1>4. CASE UNCHANGED allvars
  <2>1. UNCHANGED <<vpc, opts, listed, walk, vreport, edits, rewritten, original, walked, file>>
    BY <1>4 DEF allvars, vvars, vars
  <2>2. Reference' = Reference
    BY <2>1 DEF Reference
  <2> QED BY <2>1, <2>2 DEF TraceInv, OnTrack, At
<1> QED BY <1>1, <1>2, <1>3, <1>4 DEF VNext
\* The verifier accepts what was written and nothing else: from the first
\* listed segment on, the records a stop-at-first verification has accepted are
\* the history of the log, in order, whoever without the key changed the files
\* and whatever a writer does beside it.
THEOREM AcceptedCorrect ==
  ASSUME FewSegments, WritesLand
  PROVE  VSpec => []AcceptedIsHistory
<1>1. VInit => BaseInv /\ TraceInv
  <2>1. VInit => vpc = "idle"
    BY DEF VInit, VerifierInit
  <2> QED BY <2>1, BaseStart DEF TraceInv
<1>2. (VerifyInv /\ WriterInv) /\ (VerifyInv /\ WriterInv)' /\ (BaseInv /\ TraceInv) /\ [VNext]_allvars
        => (BaseInv /\ TraceInv)'
  BY BaseNext, TraceNext
<1>3. ASSUME VerifyInv, BaseInv, TraceInv PROVE AcceptedIsHistory
  <2> SUFFICES ASSUME walked # << >>, ~opts.forensic, ~rewritten
               PROVE  IsPrefixOf(walked, History(Reference, First(listed)))
    BY DEF AcceptedIsHistory
  <2>1. vpc \in {"header", "record", "done"} /\ listed # {} /\ Laid(Reference)
    BY <1>3 DEF VerifyInv, StateInv, BaseInv
  <2>2. First(listed) \in Idx
    BY <1>3, <2>1, FirstOf DEF VerifyInv, StateInv
  <2>3. Traced(walked, Reference, First(listed))
    BY <1>3, <2>1 DEF TraceInv, OnTrack, At
  <2>4. walked \in Entries
    BY <1>3 DEF VerifyInv, StateInv, Entries
  <2> QED BY <2>1, <2>2, <2>3, <2>4, TracedIsHistory
<1> QED BY <1>1, <1>2, <1>3, VerifyInvariance, PTL DEF VSpec

-----------------------------------------------------------------------------
(* Segments behind which another one exists. *)

\* No segment is created and then given up by a writer that goes on.
CreatesLand == "create" \notin Faults

\* A header and records, and nothing else.
Sealed(s) == HasHeader(s) /\ \A m \in 2..Len(s) : s[m].kind = "record"

\* Every frame of s is complete or torn.
Sound(s) == \A n \in 1..Len(s) : s[n].kind # "bad"

\* While a writer works its segment is the last, but for the one it is creating.
Topmost == \A j \in entries : j <= cur.index \/ (pc \in {"header", "open_header"} /\ j = cur.index + 1)

TopInv ==
  /\ \A i \in Idx : Sound(file[i])
  /\ \A i, j \in entries : i < j => Sealed(file[i])
  /\ pc # "closed" => Topmost

LEMMA FrozenStep ==
  ASSUME IInv, FewSegments, PlaceInv, TopInv, [Next]_vars,
         NEW i \in entries, NEW j \in entries, i < j
  PROVE  file'[i] = file[i]
<1>v. Visible = entries
  BY VisibleAll
<1>0. /\ i \in Idx /\ j \in Idx /\ i \in Nat /\ j \in Nat /\ file \in [Idx -> Seq(Chunk)]
      /\ cur.index \in Nat /\ Visible = entries
  BY <1>v DEF IInv, TypeOK, CurType, Idx
<1>t. pc # "closed" => Topmost
  BY DEF TopInv
<1>1. ASSUME NEW k \in Keys, OpenFresh(k) PROVE file'[i] = file[i]
  BY <1>0, <1>1 DEF OpenFresh
<1>2. ASSUME NEW k \in Keys, NEW l \in Visible, Recovers(k, l) PROVE file'[i] = file[i]
  <2>1. /\ \A m \in Idx : m # l => file'[m] = file[m]
        /\ \A m \in Visible : m <= l
    BY <1>2, RecoverEffect DEF Recovers
  <2>2. i # l
    BY <1>0, <2>1
  <2> QED BY <1>0, <2>1, <2>2
<1>3. ASSUME NEW k \in Keys, RepairFails(k) PROVE file'[i] = file[i]
  <2>1. PICK l \in Visible : IsLatest(l) /\ file' = [file EXCEPT ![l] = Intact(file[l])]
    BY <1>3 DEF RepairFails
  <2>2. i # l
    BY <1>0, <2>1 DEF IsLatest
  <2> QED BY <1>0, <2>1, <2>2
<1>4. ASSUME GenesisHeader PROVE file'[i] = file[i]
  <2>1. pc = "genesis" /\ \A m \in Idx : m # 0 => file'[m] = file[m]
    BY <1>4, GenesisEffect
  <2>2. j <= cur.index /\ cur.index = 0
    BY <1>t, <2>1 DEF Topmost, PlaceInv
  <2> QED BY <1>0, <2>1, <2>2
<1>5. ASSUME WriteHeader PROVE file'[i] = file[i]
  <2>1. /\ pc \in {"header", "open_header"}
        /\ \A m \in Idx : m # cur.index + 1 => file'[m] = file[m]
    BY <1>5, HeaderEffect
  <2>2. j <= cur.index \/ j = cur.index + 1
    BY <1>t, <2>1 DEF Topmost
  <2>3. i # cur.index + 1
    BY <1>0, <2>2
  <2> QED BY <1>0, <2>1, <2>3
<1>6. ASSUME CreateNext PROVE file'[i] = file[i]
  <2>1. /\ pc \in {"create", "open_create"}
        /\ \A m \in Idx : m # cur.index + 1 => file'[m] = file[m]
    BY <1>6, CreateEffect
  <2>2. j <= cur.index
    BY <1>t, <2>1 DEF Topmost
  <2>3. i # cur.index + 1
    BY <1>0, <2>2
  <2> QED BY <1>0, <2>1, <2>3
<1>7. ASSUME BeginWrite PROVE file'[i] = file[i]
  <2>1. /\ pc \in {"fin", "rec"} /\ \A m \in Idx : m # cur.index => file'[m] = file[m]
    BY <1>7, BeginEffect
  <2>2. j <= cur.index
    BY <1>t, <2>1 DEF Topmost
  <2>3. i # cur.index
    BY <1>0, <2>2
  <2> QED BY <1>0, <2>1, <2>3
<1>8. ASSUME FinishRecord \/ FinishFinalize PROVE file'[i] = file[i]
  <2>1. PICK d \in Datum, size \in Nat : AppendFramed(d, size) /\ pc \in {"rec_write", "fin_write"}
    BY <1>8, RecordEffect
  <2>2. \A m \in Idx : m # cur.index => file'[m] = file[m]
    BY <2>1, FrameEffect
  <2>3. j <= cur.index
    BY <1>t, <2>1 DEF Topmost
  <2>4. i # cur.index
    BY <1>0, <2>3
  <2> QED BY <1>0, <2>2, <2>4
<1>9. ASSUME Quiet \/ UNCHANGED vars PROVE file'[i] = file[i]
  BY <1>9, QuietEffect DEF vars
<1> QED BY <1>1, <1>2, <1>3, <1>4, <1>5, <1>6, <1>7, <1>8, <1>9, NextCases, NoPowerLoss

LEMMA SoundNext ==
  ASSUME IInv, IInv', TopInv, [Next]_vars
  PROVE  \A i \in Idx : Sound(file'[i])
<1>0. /\ file \in [Idx -> Seq(Chunk)] /\ file' \in [Idx -> Seq(Chunk)]
      /\ cur.index \in Idx /\ \A i \in Idx : Sound(file[i])
  BY DEF IInv, TypeOK, CurType, TopInv
<1>o. ASSUME NEW i \in Idx, Sound(file'[i]), \A j \in Idx : j # i => file'[j] = file[j]
      PROVE  \A j \in Idx : Sound(file'[j])
  BY <1>0, <1>o
<1>e. Sound(<< >>)
  BY DEF Sound
<1>h. ASSUME NEW i, NEW k, NEW h PROVE Sound(<< Header(i, k, h) >>)
  <2>1. PICK s : s = << Header(i, k, h) >>
    OBVIOUS
  <2>2. Len(s) = 1 /\ s[1].kind = "header"
    BY <2>1 DEF Header
  <2> QED BY <2>1, <2>2 DEF Sound
<1>i. ASSUME NEW i \in Idx PROVE Sound(Intact(file[i]))
  <2>1. PICK s, t : s = file[i] /\ t = Intact(s)
    OBVIOUS
  <2>2. s \in Seq(Chunk)
    BY <1>0, <2>1
  <2>3. /\ Len(t) \in Nat /\ Len(t) <= Len(s) /\ \A j \in 1..Len(t) : t[j] = s[j]
    BY <2>1, <2>2, IntactKinds
  <2>4. \A j \in 1..Len(t) : j \in 1..Len(s)
    BY <2>2, <2>3
  <2>5. Sound(s)
    BY <1>0, <2>1
  <2> QED BY <2>1, <2>3, <2>4, <2>5 DEF Sound
<1>1. ASSUME NEW k \in Keys, OpenFresh(k) PROVE \A i \in Idx : Sound(file'[i])
  <2>1. 0 \in Idx /\ file' = [file EXCEPT ![0] = << >>]
    BY <1>1 DEF OpenFresh, Idx
  <2> QED BY <1>0, <1>e, <1>o, <2>1
<1>2. ASSUME NEW k \in Keys, NEW i \in Visible, Recovers(k, i) PROVE \A j \in Idx : Sound(file'[j])
  <2>1. i \in Idx /\ file'[i] = Intact(file[i]) /\ \A j \in Idx : j # i => file'[j] = file[j]
    BY <1>2, RecoverEffect DEF Recovers
  <2> QED BY <1>i, <1>o, <2>1
<1>3. ASSUME NEW k \in Keys, RepairFails(k) PROVE \A i \in Idx : Sound(file'[i])
  <2>1. PICK i \in Visible : file' = [file EXCEPT ![i] = Intact(file[i])]
    BY <1>3 DEF RepairFails
  <2>2. i \in Idx
    BY DEF Visible, IInv, TypeOK
  <2> QED BY <1>0, <1>i, <1>o, <2>1, <2>2
<1>4. ASSUME GenesisHeader PROVE \A i \in Idx : Sound(file'[i])
  <2>1. 0 \in Idx /\ file' = [file EXCEPT ![0] = << Header(0, cur.key_id, NoHash) >>]
    BY <1>4 DEF GenesisHeader, Idx
  <2> QED BY <1>0, <1>h, <1>o, <2>1
<1>5. ASSUME WriteHeader PROVE \A i \in Idx : Sound(file'[i])
  <2>1. PICK i, k, h : i = cur.index + 1 /\ k = cur.key_id /\ h = cur.last_hmac
    OBVIOUS
  <2>2. /\ i \in Idx /\ file'[i] = << Header(i, k, h) >>
        /\ \A j \in Idx : j # i => file'[j] = file[j]
    BY <1>5, <2>1, HeaderEffect
  <2>3. Sound(file'[i])
    BY <1>h, <2>2
  <2> QED BY <1>o, <2>2, <2>3
<1>6. ASSUME CreateNext PROVE \A i \in Idx : Sound(file'[i])
  <2>1. /\ cur.index + 1 \in Idx /\ file'[cur.index + 1] = << >>
        /\ \A j \in Idx : j # cur.index + 1 => file'[j] = file[j]
    BY <1>6, CreateEffect
  <2> QED BY <1>e, <1>o, <2>1
<1>7. ASSUME BeginWrite PROVE \A i \in Idx : Sound(file'[i])
  <2>1. PICK i, s, t, n : i = cur.index /\ s = file[i] /\ t = file'[i] /\ n = Len(s)
    OBVIOUS
  <2>2. /\ s \in Seq(Chunk) /\ n \in Nat /\ Len(t) = n + 1 /\ t[n + 1] = Torn
        /\ \A m \in 1..n : t[m] = s[m]
        /\ \A j \in Idx : j # i => file'[j] = file[j]
    BY <1>7, <2>1, BeginEffect
  <2>3. Sound(t)
    <3>1. Sound(s) /\ \A m \in 1..(n + 1) : m \in 1..n \/ m = n + 1
      BY <1>0, <2>1, <2>2
    <3> QED BY <2>1, <2>2, <3>1 DEF Sound, Torn
  <2> QED BY <1>0, <1>o, <2>1, <2>2, <2>3
<1>8. ASSUME FinishRecord \/ FinishFinalize PROVE \A i \in Idx : Sound(file'[i])
  <2>1. PICK d \in Datum, size \in Nat : AppendFramed(d, size) /\ pc \in {"rec_write", "fin_write"}
    BY <1>8, RecordEffect
  <2>2. PICK i, s, t, n : i = cur.index /\ s = file[i] /\ t = file'[i] /\ n = Len(s)
    OBVIOUS
  <2>3. /\ n \in Nat /\ Len(t) = n
        /\ t[n] = Record(d, cur.last_hmac, cur.bytes_written + size)
        /\ \A m \in 1..(n - 1) : t[m] = s[m]
        /\ \A j \in Idx : j # i => file'[j] = file[j]
    BY <2>1, <2>2, FrameEffect
  <2>4. t[n].kind = "record"
    BY <2>3 DEF Record
  <2>5. Sound(t)
    <3>1. Sound(s) /\ \A m \in 1..n : m \in 1..(n - 1) \/ m = n
      BY <1>0, <2>2, <2>3
    <3> QED BY <2>2, <2>3, <2>4, <3>1 DEF Sound
  <2> QED BY <1>0, <1>o, <2>2, <2>3, <2>5
<1>9. ASSUME Quiet \/ UNCHANGED vars PROVE \A i \in Idx : Sound(file'[i])
  BY <1>0, <1>9, QuietEffect DEF vars
<1> QED BY <1>1, <1>2, <1>3, <1>4, <1>5, <1>6, <1>7, <1>8, <1>9, NextCases, NoPowerLoss

\* A segment that another one is created behind is sealed.
LEMMA SealedNow ==
  ASSUME IInv, LogInv, NEW i \in Idx, EndsFinalized(file[i])
  PROVE  Sealed(file[i])
<1>1. PICK s, n : s = file[i] /\ n = Len(s)
  OBVIOUS
<1>2. s \in Seq(Chunk) /\ n \in Nat /\ s # << >> /\ Tailed(s) /\ s[n].kind = "record"
  BY <1>1 DEF IInv, TypeOK, EndsFinalized, IsFinalize, LogInv, TailInv
<1>3. HasHeader(s) /\ n >= 1
  BY <1>1, <1>2 DEF Tailed
<1>4. n = 1 => FALSE
  BY <1>2, <1>3 DEF HasHeader
<1>5. n \in 2..n
  BY <1>2, <1>3, <1>4
<1> QED BY <1>1, <1>2, <1>3, <1>5 DEF Sealed, Tailed

LEMMA TopmostNext ==
  ASSUME IInv, IInv', FewSegments, CreatesLand, PlaceInv, TopInv, [Next]_vars, pc' # "closed"
  PROVE  Topmost'
<1>v. Visible = entries
  BY VisibleAll
<1>0. /\ entries \subseteq Idx /\ Idx \subseteq Nat /\ cur.index \in Nat /\ Visible = entries
      /\ pc # "closed" => Topmost
  BY <1>v DEF IInv, TypeOK, CurType, Idx, TopInv
<1>s. ASSUME pc \notin {"closed", "header", "open_header"}, cur'.index = cur.index, entries' = entries
      PROVE  Topmost'
  BY <1>0, <1>s DEF Topmost
<1>1. ASSUME NEW k \in Keys, OpenFresh(k) PROVE Topmost'
  <2>1. entries' = {0} /\ cur' = [NoSegment EXCEPT !.key_id = k]
    BY <1>0, <1>1 DEF OpenFresh
  <2>2. cur'.index = 0
    BY <2>1 DEF NoSegment
  <2> QED BY <2>1, <2>2 DEF Topmost
<1>2. ASSUME NEW k \in Keys, NEW i \in Visible, Recovers(k, i) PROVE Topmost'
  <2>1. entries' = entries /\ cur'.index = i /\ \A j \in Visible : j <= i
    BY <1>2, RecoverEffect DEF Recovers, StateOf
  <2> QED BY <1>0, <2>1 DEF Topmost
<1>3. ASSUME NEW k \in Keys, RepairFails(k) PROVE Topmost'
  BY <1>3 DEF RepairFails
<1>4. ASSUME GenesisHeader PROVE Topmost'
  <2>1. pc = "genesis" /\ cur'.index = 0 /\ entries' = entries
    BY <1>4, GenesisEffect
  <2>2. cur.index = 0
    BY <2>1 DEF PlaceInv
  <2> QED BY <1>s, <2>1, <2>2
<1>5. ASSUME WriteHeader PROVE Topmost'
  <2>1. pc \in {"header", "open_header"} /\ cur'.index = cur.index + 1 /\ entries' = entries
    BY <1>5, HeaderEffect
  <2>2. \A j \in entries : j <= cur.index + 1
    BY <1>0, <2>1 DEF Topmost
  <2> QED BY <2>1, <2>2 DEF Topmost
<1>6. ASSUME CreateNext PROVE Topmost'
  <2>1. /\ pc \in {"create", "open_create"} /\ pc' \in {"header", "open_header"}
        /\ entries' = entries \cup {cur.index + 1} /\ cur' = cur
    BY <1>6, CreateEffect
  <2>2. \A j \in entries : j <= cur.index
    BY <1>0, <2>1 DEF Topmost
  <2> QED BY <2>1, <2>2 DEF Topmost
<1>7. ASSUME BeginWrite PROVE Topmost'
  BY <1>7, <1>s, BeginEffect
<1>8. ASSUME FinishRecord \/ FinishFinalize PROVE Topmost'
  <2>1. PICK d \in Datum, size \in Nat : /\ AppendFramed(d, size) /\ pc \in {"rec_write", "fin_write"}
                                         /\ entries' = entries
    BY <1>8, RecordEffect
  <2>2. cur'.index = cur.index
    BY <2>1, FrameEffect
  <2> QED BY <1>s, <2>1, <2>2
<1>9. ASSUME Quiet PROVE Topmost'
  <2>1. entries' = entries /\ cur' = cur /\ pc # "closed"
    BY <1>9, QuietEffect
  <2>2. pc \notin {"header", "open_header"}
    BY <1>9 DEF Quiet, Ends, Errs, SyncFinalized, FlushFile, FlushDir, AppendCall, CreatesLand
  <2> QED BY <1>s, <2>1, <2>2
<1>10. ASSUME UNCHANGED vars PROVE Topmost'
  BY <1>0, <1>10 DEF vars, Topmost
<1> QED BY <1>1, <1>2, <1>3, <1>4, <1>5, <1>6, <1>7, <1>8, <1>9, <1>10, NextCases, NoPowerLoss

LEMMA SealedNext ==
  ASSUME IInv, IInv', FewSegments, LogInv, TopInv, [Next]_vars,
         NEW i \in entries', NEW j \in entries', i < j
  PROVE  Sealed(file'[i])
<1>v. Visible = entries
  BY VisibleAll
<1>0. /\ entries \subseteq Idx /\ entries' \subseteq Idx /\ Idx \subseteq Nat /\ cur.index \in Nat
      /\ Visible = entries /\ (pc # "closed" => Topmost) /\ PlaceInv
  <2>1. entries \subseteq Idx /\ entries' \subseteq Idx
    BY DEF IInv, TypeOK
  <2>2. cur.index \in Nat /\ Idx \subseteq Nat
    BY DEF IInv, TypeOK, CurType, Idx
  <2> QED BY <1>v, <2>1, <2>2 DEF TopInv, LogInv
<1>1. CASE i \in entries /\ j \in entries
  <2>1. file'[i] = file[i] /\ Sealed(file[i])
    BY <1>0, <1>1, FrozenStep DEF TopInv
  <2> QED BY <2>1
<1>2. CASE ~(i \in entries /\ j \in entries)
  <2>1. (\E k \in Keys : OpenFresh(k)) \/ CreateNext
    <3>1. entries' # entries
      BY <1>2
    <3>2. ASSUME NEW k \in Keys, NEW l \in Visible, Recovers(k, l) PROVE FALSE
      BY <3>1, <3>2, RecoverEffect DEF Recovers
    <3>3. ASSUME NEW k \in Keys, RepairFails(k) PROVE FALSE
      BY <3>1, <3>3 DEF RepairFails
    <3>4. ~GenesisHeader /\ ~WriteHeader /\ ~BeginWrite /\ ~Quiet /\ ~UNCHANGED vars
      BY <3>1, GenesisEffect, HeaderEffect, BeginEffect, QuietEffect DEF vars
    <3>5. ~FinishRecord /\ ~FinishFinalize
      BY <3>1, RecordEffect
    <3> QED BY <3>2, <3>3, <3>4, <3>5, NextCases, NoPowerLoss
  <2>2. ASSUME NEW k \in Keys, OpenFresh(k) PROVE FALSE
    <3>1. entries' = {0}
      BY <1>0, <2>2 DEF OpenFresh
    <3> QED BY <3>1
  <2>3. CASE CreateNext
    <3>1. /\ pc \in {"create", "open_create"} /\ cur.index \in Idx
          /\ entries' = entries \cup {cur.index + 1}
          /\ \A m \in Idx : m # cur.index + 1 => file'[m] = file[m]
      BY <2>3, CreateEffect
    <3>2. \A m \in entries : m <= cur.index
      BY <1>0, <3>1 DEF Topmost
    <3>3. cur.index \in entries
      BY <1>0, <3>1 DEF PlaceInv
    <3>4. i \in entries /\ i # cur.index + 1 /\ i <= cur.index
      BY <1>0, <3>1, <3>2
    <3>5. file'[i] = file[i]
      BY <1>0, <3>1, <3>4
    <3>6. CASE i = cur.index
      <4>1. EndsFinalized(file[cur.index])
        BY <3>1 DEF LogInv, LinkInv
      <4> QED BY <3>1, <3>5, <3>6, <4>1, SealedNow
    <3>7. CASE i # cur.index
      <4>1. i < cur.index
        BY <1>0, <3>4, <3>7
      <4> QED BY <3>3, <3>4, <3>5, <4>1 DEF TopInv
    <3> QED BY <3>6, <3>7
  <2> QED BY <2>1, <2>2, <2>3
<1> QED BY <1>1, <1>2

LEMMA TopNext ==
  ASSUME IInv, IInv', FewSegments, CreatesLand, LogInv, TopInv, [Next]_vars
  PROVE  TopInv'
<1>1. \A i \in Idx : Sound(file'[i])
  BY SoundNext
<1>2. \A i, j \in entries' : i < j => Sealed(file'[i])
  BY SealedNext
<1>3. pc' # "closed" => Topmost'
  BY TopmostNext DEF LogInv
<1> QED BY <1>1, <1>2, <1>3 DEF TopInv

LEMMA TopStart == Init => TopInv
BY DEF Init, TopInv, Sound

-----------------------------------------------------------------------------
(* A verification of a log that nobody has changed. *)

\* The header of segment i of the files f, or the record there, at place n.
Stands(f, i, n) ==
  \/ n = 1 /\ HasHeader(f[i])
  \/ n \in 2..Len(f[i]) /\ f[i][n].kind = "record"

\* Where the verifier is, and what it has taken from there.
ReadInv ==
  /\ vpc # "idle" => Gapless(listed)
  /\ vpc = "record" => /\ Stands(file, walk.seg, 1) /\ Stands(file, walk.seg, walk.pos)
                       /\ file[walk.seg][1].key_id = opts.key_id
                       /\ walk.prev = ChainAfter(file[walk.seg][walk.pos])

Ahead == {j \in listed : j > walk.seg}

\* The segment before is the one whose last record the next header continues.
AtEnd(i, h) == Stands(file, i, Len(file[i])) /\ h = ChainAfter(file[i][Len(file[i])])

LineInv ==
  vreport.violation = NoViolation =>
    /\ vpc = "header" => \/ walk.todo = listed /\ walk.prior_final = NoHash
                         \/ /\ walk.todo = Ahead /\ walk.seg \in listed
                            /\ AtEnd(walk.seg, walk.prior_final)
    /\ vpc = "record" => walk.todo = Ahead

\* Entry m of w is the last one a caller appended, and ts is its clock.
LastClock(w, m, ts) ==
  /\ w[m][2].datum.input # NoInput /\ ts = WallClock[w[m][2].datum.input]
  /\ \A n \in 1..Len(w) : w[n][2].datum.input # NoInput => n <= m

ClockInv ==
  vreport.violation = NoViolation /\ vpc \in {"header", "record"} =>
    walk.prior_ts = -1 \/ \E m \in 1..Len(walked) : LastClock(walked, m, walk.prior_ts)

\* A checkpoint of this log names one of its records.
NamesRecord(cp) ==
  cp # NoCheckpoint =>
    /\ cp.segment \in entries /\ cp.segment \in Idx /\ cp.record_id \in Nat
    /\ Stands(file, cp.segment, cp.record_id + 2)

PinInv ==
  /\ NamesRecord(saved) /\ NamesRecord(opts.checkpoint)
  /\ vpc # "idle" /\ vreport.error = "none" /\ opts.checkpoint # NoCheckpoint =>
       opts.checkpoint.segment \in listed

\* The checkpoint's record is behind the verifier, or ahead of it.
MeetInv ==
  vreport.violation = NoViolation /\ opts.checkpoint # NoCheckpoint /\ vpc \in {"header", "record"} =>
    \/ walk.reached
    \/ opts.checkpoint.segment \in walk.todo
    \/ /\ vpc = "record" /\ opts.checkpoint.segment = walk.seg
       /\ opts.checkpoint.record_id + 2 > walk.pos

\* Two entries of w that callers appended one after the other are more than the drift apart.
WentBack(w) ==
  \E m, n \in 1..Len(w) :
    /\ w[m][2].datum.input # NoInput /\ w[n][2].datum.input # NoInput
    /\ m < n
    /\ \A j \in 1..Len(w) : w[j][2].datum.input # NoInput => j <= m \/ n <= j
    /\ WallClock[w[n][2].datum.input] + MaxDrift < WallClock[w[m][2].datum.input]

\* The checkpoint has another HMAC than the record it names.
Refuted(cp) ==
  /\ cp.segment \in Idx /\ cp.record_id \in Nat
  /\ Stands(file, cp.segment, cp.record_id + 2)
  /\ ChainAfter(file[cp.segment][cp.record_id + 2]) # cp.hmac

\* What NoFalseAlarm says of a violation; later ones follow another.
Excused(v, later) ==
  \/ v.kind \in {"RecordCorrupt", "HeaderCorrupt"} /\ \A j \in listed : j <= v.segment
  \/ /\ v.kind = "TimestampRegression"
     /\ later \/ \E w \in Entries : Traced(w, file, 0) /\ WentBack(w)
  \/ v.kind = "SegmentDiscontinuity" /\ later
  \/ v.kind = "CheckpointMismatch" /\ Refuted(opts.checkpoint)

\* A listed segment belongs to another key.
Foreign == \E i \in listed : Stands(file, i, 1) /\ file[i][1].key_id # opts.key_id

ExcuseInv ==
  vreport.violation # NoViolation =>
    Foreign \/ (/\ Excused(vreport.violation, FALSE)
                /\ \A n \in 1..Len(vreport.additional) : Excused(vreport.additional[n], TRUE))

CalmInv == TopInv /\ ReadInv /\ LineInv /\ ClockInv /\ PinInv /\ MeetInv /\ ExcuseInv

\* What stands in a file stays there while a writer works.
LEMMA StandsKept ==
  ASSUME IInv, FewSegments, PlaceInv, Laid(file), Laid(file'), [Next]_vars,
         NEW i \in Idx, NEW n, Stands(file, i, n)
  PROVE  Stands(file', i, n) /\ file'[i][n] = file[i][n]
<1>1. PICK s, t : s = file[i] /\ t = file'[i]
  OBVIOUS
<1>2. s \in Seq(Chunk) /\ t \in Seq(Chunk) /\ Chains(s) /\ Tailed(s)
  BY <1>1 DEF Laid
<1>3. IsPrefixOf(Intact(s), t)
  BY <1>1, NoPowerLoss, ImmutableStep
<1>4. /\ HasHeader(s) => HasHeader(t) /\ t[1] = s[1]
      /\ \A m \in 2..Len(s) : s[m].kind = "record" => m \in 2..Len(t) /\ t[m] = s[m]
  BY <1>2, <1>3, RecordsKept
<1> QED BY <1>1, <1>4 DEF Stands

LEMMA CalmWriter ==
  ASSUME FewSegments, CreatesLand, VerifyInv, IInv, IInv', LogInv, Laid(file), Laid(file'),
         CalmInv, [Next]_vars, UNCHANGED vvars
  PROVE  CalmInv'
<1>0. /\ UNCHANGED <<vpc, opts, listed, walk, vreport, saved, walked>>
      /\ listed \subseteq Idx /\ (vpc # "idle" => listed \subseteq entries) /\ walk.seg \in Idx
      /\ walk.todo \subseteq listed /\ (vpc = "header" => walk.todo # {})
  BY DEF vvars, VerifyInv, StateInv, PathInv, WalkType
<1>p. PlaceInv
  BY DEF LogInv
<1>s. ASSUME NEW i \in Idx, NEW n, Stands(file, i, n)
      PROVE  Stands(file', i, n) /\ file'[i][n] = file[i][n]
  BY <1>p, <1>s, StandsKept
<1>e. entries \subseteq entries'
  BY NoPowerLoss, EntriesGrow
<1>1. TopInv'
  BY TopNext DEF CalmInv
<1>2. ReadInv'
  BY <1>0, <1>s DEF CalmInv, ReadInv
<1>3. LineInv'
  <2>1. ASSUME vpc = "header", walk.todo = Ahead, walk.seg \in listed, AtEnd(walk.seg, walk.prior_final)
        PROVE  AtEnd(walk.seg, walk.prior_final)'
    <3>1. PICK j \in entries : walk.seg < j
      <4>1. PICK j \in walk.todo : j \in listed /\ j > walk.seg
        BY <1>0, <2>1 DEF Ahead
      <4>2. j \in entries /\ j \in Nat /\ walk.seg \in Nat
        BY <1>0, <2>1, <4>1 DEF Idx
      <4> QED BY <4>1, <4>2
    <3>2. walk.seg \in entries
      BY <1>0, <2>1
    <3>3. file'[walk.seg] = file[walk.seg]
      BY <1>p, <3>1, <3>2, FrozenStep DEF CalmInv
    <3> QED BY <1>0, <2>1, <3>3 DEF AtEnd, Stands
  <2> QED BY <1>0, <2>1 DEF CalmInv, LineInv, Ahead
<1>4. ClockInv' /\ MeetInv'
  BY <1>0 DEF CalmInv, ClockInv, MeetInv
<1>5. PinInv'
  <2>1. ASSUME NEW cp, NamesRecord(cp) PROVE NamesRecord(cp)'
    BY <1>s, <1>e, <2>1 DEF NamesRecord
  <2> QED BY <1>0, <2>1 DEF CalmInv, PinInv
<1>6. ExcuseInv'
  <2>1. Foreign => Foreign'
    BY <1>0, <1>s DEF Foreign
  <2>2. Refuted(opts.checkpoint) => Refuted(opts.checkpoint)'
    BY <1>0, <1>s DEF Refuted
  <2>3. ASSUME NEW w \in Entries, Traced(w, file, 0) PROVE Traced(w, file', 0)
    <3>1. 0 \in Idx
      BY DEF Idx
    <3>2. \A j \in Idx : IsPrefixOf(Intact(file[j]), file'[j])
      BY <1>p, NoPowerLoss, ImmutableStep
    <3> QED BY <2>3, <3>1, <3>2, TracedStays
  <2>4. ASSUME NEW v, NEW later, Excused(v, later) PROVE Excused(v, later)'
    BY <1>0, <2>2, <2>3, <2>4 DEF Excused
  <2> QED BY <1>0, <2>1, <2>4 DEF CalmInv, ExcuseInv
<1> QED BY <1>1, <1>2, <1>3, <1>4, <1>5, <1>6 DEF CalmInv

\* A violation that is excused, after others that are.
LEMMA BlamesExcused ==
  ASSUME VerifyInv, ExcuseInv, UNCHANGED <<file, listed, opts>>, NEW v, Blames(v),
         Foreign \/ Excused(v, vreport.violation # NoViolation)
  PROVE  ExcuseInv'
<1>1. vreport.violation = NoViolation => vreport.additional = << >>
  BY DEF VerifyInv, PathInv
<1>2. Foreign' = Foreign
  BY DEF Foreign, Stands
<1>3. ASSUME NEW x, NEW later, Excused(x, later) PROVE Excused(x, later)'
  BY <1>3 DEF Excused, Refuted, Stands, Traced
<1> SUFFICES ASSUME ~Foreign PROVE ExcuseInv'
  BY <1>2 DEF ExcuseInv
<1>4. CASE vreport.violation = NoViolation
  <2>1. vreport'.violation = v /\ vreport'.additional = << >>
    BY <1>1, <1>4 DEF Blames
  <2>2. Excused(v, FALSE)
    BY <1>4
  <2>3. Excused(v, FALSE)'
    BY <1>3, <2>2
  <2>4. Len(<< >>) = 0 /\ \A n \in 1..0 : FALSE
    OBVIOUS
  <2> QED BY <2>1, <2>3, <2>4 DEF ExcuseInv
<1>5. CASE vreport.violation # NoViolation
  <2>1. vreport'.violation = vreport.violation /\ vreport'.additional = Append(vreport.additional, v)
    BY <1>5 DEF Blames
  <2>2. /\ Excused(v, TRUE) /\ Excused(vreport.violation, FALSE)
        /\ \A n \in 1..Len(vreport.additional) : Excused(vreport.additional[n], TRUE)
    BY <1>5 DEF ExcuseInv
  <2>3. PICK a, b, l : a = vreport.additional /\ b = vreport'.additional /\ l = Len(a)
    OBVIOUS
  <2>4. a \in Seq(ViolationType)
    BY <2>3 DEF VerifyInv, StateInv, ReportType
  <2>5. l \in Nat /\ b = Append(a, v)
    BY <2>1, <2>3, <2>4
  <2>6. Len(b) = l + 1 /\ b[l + 1] = v /\ \A n \in 1..l : b[n] = a[n]
    BY <2>3, <2>4, <2>5
  <2>7. ASSUME NEW n \in 1..Len(b) PROVE Excused(b[n], TRUE)
    <3>1. n = l + 1 \/ n \in 1..l
      BY <2>5, <2>6
    <3> QED BY <2>2, <2>3, <2>6, <3>1
  <2>8. \A n \in 1..Len(b) : Excused(b[n], TRUE)'
    BY <1>3, <2>7
  <2>9. Excused(vreport.violation, FALSE)'
    <3>1. PICK x : x = vreport.violation
      OBVIOUS
    <3>2. Excused(x, FALSE)'
      BY <1>3, <2>2, <3>1
    <3>3. x = vreport'.violation
      BY <2>1, <3>1
    <3> QED BY <3>2, <3>3
  <2> QED BY <2>3, <2>8, <2>9 DEF ExcuseInv
<1> QED BY <1>4, <1>5

\* A report that does not change.
LEMMA ExcuseStays ==
  ASSUME ExcuseInv, UNCHANGED <<file, listed, opts>>, vreport'.violation = vreport.violation,
         vreport'.additional = vreport.additional
  PROVE  ExcuseInv'
BY DEF ExcuseInv, Foreign, Excused, Refuted, Stands, Traced

\* Only the last entry is unfinished.
LEMMA LastEntry ==
  ASSUME FileInv, PathInv, StateInv, TopInv, vpc # "idle", NEW i \in listed, ~Sealed(file[i])
  PROVE  \A j \in listed : j <= i
<1>1. listed \subseteq entries /\ listed \subseteq Idx /\ Idx \subseteq Nat
  BY DEF PathInv, StateInv, Idx
<1>2. ASSUME NEW j \in listed, ~(j <= i) PROVE FALSE
  <2>1. i \in entries /\ j \in entries /\ i < j
    BY <1>1, <1>2
  <2> QED BY <2>1 DEF TopInv
<1> QED BY <1>2

\* A listing is gapless: it starts at segment 0, and what is behind a segment starts at the next.
LEMMA GaplessFirst ==
  ASSUME NEW L \in SUBSET Idx, L # {}, Gapless(L)
  PROVE  0 \in L /\ First(L) = 0
<1>1. First(L) \in L /\ (\A j \in L : First(L) <= j)
  BY FirstOf
<1>2. 0 \in Idx /\ First(L) \in Nat
  <2>1. First(L) \in Idx
    BY <1>1
  <2> QED BY <2>1 DEF Idx
<1>3. 0 \in L
  BY <1>1, <1>2 DEF Gapless
<1> QED BY <1>1, <1>2, <1>3

LEMMA GaplessNext ==
  ASSUME NEW L \in SUBSET Idx, Gapless(L), NEW i \in L, NEW j \in L, i < j,
         \A k \in L : k > i => j <= k
  PROVE  j = i + 1
<1>1. i \in Nat /\ j \in Nat /\ j \in 0..MaxIndex /\ MaxIndex \in Nat
  BY DEF Idx
<1>2. i + 1 <= j /\ i + 1 \in Idx
  BY <1>1 DEF Idx
<1>3. CASE i + 1 = j
  BY <1>3
<1>4. CASE i + 1 < j
  <2>1. i + 1 \in L
    BY <1>2, <1>4 DEF Gapless
  <2> QED BY <1>1, <1>4, <2>1
<1> QED BY <1>1, <1>2, <1>3, <1>4

LEMMA CalmStart ==
  ASSUME FewSegments, VerifyInv, IInv, LogInv, CalmInv, UNCHANGED vars, NEW k \in Keys,
         NEW forensic \in BOOLEAN, NEW cp \in {NoCheckpoint, saved}, StartVerify(k, forensic, cp)
  PROVE  CalmInv'
<1>v. Visible = entries
  BY VisibleAll
<1>1. /\ UNCHANGED <<file, entries, saved>> /\ listed' = entries /\ walked' = << >>
      /\ vpc' \in {"done", "header"}
      /\ vreport'.violation = NoViolation /\ walk' = [StartWalk EXCEPT !.todo = entries]
      /\ opts' = [key_id |-> k, forensic |-> forensic, checkpoint |-> cp]
  BY <1>v DEF StartVerify, vars, StartReport
<1>2. /\ walk'.todo = entries /\ walk'.prior_final = NoHash /\ walk'.prior_ts = -1
      /\ opts'.checkpoint = cp
  BY <1>1 DEF StartWalk
<1>3. TopInv'
  BY DEF CalmInv, TopInv, Topmost, vars
<1>4. ReadInv'
  <2>1. Gapless(entries)
    BY DEF LogInv, LinkInv
  <2> QED BY <1>1, <2>1 DEF ReadInv
<1>5. LineInv' /\ ClockInv' /\ ExcuseInv'
  BY <1>1, <1>2 DEF LineInv, ClockInv, ExcuseInv
<1>6. NamesRecord(cp)
  BY DEF CalmInv, PinInv, NamesRecord
<1>7. PinInv'
  BY <1>1, <1>2, <1>6 DEF CalmInv, PinInv, NamesRecord, Stands
<1>8. MeetInv'
  BY <1>1, <1>2, <1>6 DEF MeetInv, NamesRecord
<1> QED BY <1>3, <1>4, <1>5, <1>7, <1>8 DEF CalmInv

LEMMA CalmHeader ==
  ASSUME VerifyInv, Laid(file), CalmInv, VerifyHeader, UNCHANGED vars
  PROVE  CalmInv'
<1>1. /\ UNCHANGED <<opts, listed, saved, walked, file, entries>> /\ vpc = "header"
  BY DEF VerifyHeader, vars
<1>2. /\ FileInv /\ StateInv /\ PathInv /\ TopInv /\ ReadInv /\ LineInv /\ ClockInv /\ PinInv
      /\ MeetInv /\ ExcuseInv
  BY DEF VerifyInv, CalmInv
<1>3. PICK i : HeaderRead(i)
  BY HeaderReads
<1>4. /\ i \in walk.todo /\ i \in Idx /\ i \in listed /\ (\A j \in walk.todo : i <= j)
      /\ walk'.todo = walk.todo \ {i} /\ walk'.seg = i
      /\ walk'.prior_ts = walk.prior_ts /\ walk'.reached = walk.reached
      /\ HeaderPassed(i) \/ \E kind : HeaderRefused(i, kind)
  BY <1>3 DEF HeaderRead
<1>5. TopInv'
  BY <1>2 DEF TopInv, Topmost, vars
<1>6. vreport.error = "none" /\ listed \subseteq Idx /\ Gapless(listed)
  BY <1>1, <1>2 DEF PathInv, StateInv, ReadInv
<1>7. PinInv'
  BY <1>1, <1>2, <1>6 DEF PinInv, NamesRecord, Stands
\* Which segment it is, when nothing is reported so far.
<1>8. ASSUME vreport.violation = NoViolation
      PROVE  /\ walk.todo \ {i} = {j \in listed : j > i}
             /\ \/ walk.prior_final = NoHash
                \/ /\ i = walk.seg + 1 /\ walk.seg \in Idx /\ AtEnd(walk.seg, walk.prior_final)
  <2>1. CASE walk.todo = listed /\ walk.prior_final = NoHash
    <3>1. \A j \in listed : j # i <=> j > i
      BY <1>4, <1>6, <2>1 DEF Idx
    <3> QED BY <2>1, <3>1
  <2>2. CASE walk.todo = Ahead /\ walk.seg \in listed /\ AtEnd(walk.seg, walk.prior_final)
    <3>1. walk.seg < i /\ \A j \in listed : j > walk.seg => i <= j
      BY <1>4, <2>2 DEF Ahead
    <3>2. i = walk.seg + 1
      <4>1. PICK g \in listed : g = walk.seg
        BY <2>2
      <4> QED BY <1>4, <1>6, <3>1, <4>1, GaplessNext
    <3>3. \A j \in listed : (j > walk.seg /\ j # i) <=> j > i
      BY <1>4, <1>6, <2>2, <3>1, <3>2 DEF Idx
    <3>4. walk.todo \ {i} = {j \in listed : j > i}
      BY <2>2, <3>3 DEF Ahead
    <3> QED BY <1>6, <2>2, <3>2, <3>4
  <2> QED BY <1>1, <1>2, <1>8, <2>1, <2>2 DEF LineInv
<1>9. CASE \E kind : HeaderRefused(i, kind)
  <2>1. PICK kind : HeaderRefused(i, kind)
    BY <1>9
  <2>2. PICK v : v = [kind |-> kind, segment |-> i, record_id |-> -1]
    OBVIOUS
  <2>3. /\ vpc' \in {"done", "header"} /\ kind # "none" /\ Blames(v)
        /\ \/ kind = HeaderFault(i)
           \/ /\ kind = "SegmentDiscontinuity" /\ HeaderFault(i) = "none"
              /\ walk.prior_final # NoHash /\ file[i][1].prev_final # walk.prior_final
    BY <2>1, <2>2 DEF HeaderRefused
  <2>4. v.kind = kind /\ v.segment = i /\ v # NoViolation
    BY <2>2, <2>3 DEF NoViolation
  <2>5. vreport'.violation # NoViolation
    BY <2>3, <2>4 DEF Blames
  <2>6. LineInv' /\ ClockInv' /\ MeetInv' /\ ReadInv'
    BY <1>1, <1>6, <2>3, <2>5 DEF LineInv, ClockInv, MeetInv, ReadInv
  <2>7. Foreign \/ Excused(v, vreport.violation # NoViolation)
    <3>1. CASE kind = "HeaderCorrupt"
      <4>1. ~HasHeader(file[i])
        <5>1. i \in entries
          BY <1>1, <1>2, <1>4 DEF PathInv
        <5> QED BY <2>3, <3>1, <5>1 DEF HeaderFault
      <4>2. ~Sealed(file[i])
        BY <4>1 DEF Sealed
      <4>3. \A j \in listed : j <= i
        BY <1>1, <1>2, <1>4, <4>2, LastEntry
      <4> QED BY <2>4, <3>1, <4>3 DEF Excused
    <3>2. CASE kind = "KeyIdMismatch"
      <4>1. HasHeader(file[i]) /\ file[i][1].key_id # opts.key_id
        BY <2>3, <3>2 DEF HeaderFault
      <4> QED BY <1>4, <4>1 DEF Foreign, Stands
    <3>3. CASE kind = "SegmentDiscontinuity"
      <4>1. CASE vreport.violation # NoViolation
        BY <2>4, <3>3, <4>1 DEF Excused
      <4>2. CASE vreport.violation = NoViolation
        <5>0. HeaderFault(i) = "none" /\ walk.prior_final # NoHash
              /\ file[i][1].prev_final # walk.prior_final
          BY <2>3, <3>3 DEF HeaderFault
        <5>1. i = walk.seg + 1 /\ walk.seg \in Idx /\ AtEnd(walk.seg, walk.prior_final)
          BY <1>8, <4>2, <5>0
        <5>2. i \in Idx \ {0} /\ i - 1 = walk.seg
          BY <1>4, <5>1 DEF Idx
        <5>3. HasHeader(file[i])
          BY <5>0 DEF HeaderFault
        <5>4. Link(file[i], file[walk.seg])
          BY <5>2, <5>3 DEF Laid
        <5> QED BY <5>0, <5>1, <5>4 DEF Link, AtEnd
      <4> QED BY <4>1, <4>2
    <3> QED BY <2>3, <3>1, <3>2, <3>3 DEF HeaderFault
  <2>8. ExcuseInv'
    BY <1>1, <1>2, <2>3, <2>7, BlamesExcused
  <2> QED BY <1>5, <1>7, <2>6, <2>8 DEF CalmInv
<1>10. CASE HeaderPassed(i)
  <2>1. /\ vpc' = "record" /\ HeaderFault(i) = "none" /\ walk'.pos = 1
        /\ walk'.prev = SegmentStart(i, file[i][1])
        /\ vreport'.violation = vreport.violation /\ vreport'.additional = vreport.additional
    BY <1>10 DEF HeaderPassed
  <2>2. ExcuseInv' /\ ClockInv'
    <3>1. ExcuseInv'
      BY <1>1, <1>2, <2>1, ExcuseStays
    <3> QED BY <1>1, <1>2, <1>4, <2>1, <3>1 DEF ClockInv
  <2>3. LineInv'
    BY <1>1, <1>4, <1>8, <2>1 DEF LineInv, Ahead
  <2>4. MeetInv'
    <3>1. SUFFICES ASSUME vreport.violation = NoViolation, opts.checkpoint # NoCheckpoint,
                          ~walk.reached, opts.checkpoint.segment \notin walk'.todo
                   PROVE  opts.checkpoint.segment = i /\ opts.checkpoint.record_id + 2 > 1
      BY <1>1, <1>4, <2>1 DEF MeetInv
    <3>2. opts.checkpoint.segment \in walk.todo
      BY <1>1, <1>2, <3>1 DEF MeetInv
    <3>3. opts.checkpoint.record_id \in Nat
      BY <1>2, <3>1 DEF PinInv, NamesRecord
    <3> QED BY <1>4, <3>1, <3>2, <3>3
  <2>5. ReadInv'
    <3>1. HasHeader(file[i]) /\ file[i][1].key_id = opts.key_id
      BY <2>1 DEF HeaderFault
    <3>2. PICK c : c = file[i][1]
      OBVIOUS
    <3>3. c \in Chunk /\ c.kind = "header" /\ c.index = i
      BY <1>2, <1>4, <2>1, <3>1, <3>2, HeaderChecked DEF Laid
    <3>4. ChainAfter(c) = ChainStart(c)
      BY <3>3, ChainStarts
    <3>5. walk'.prev = ChainAfter(c)
      BY <2>1, <3>1, <3>2, <3>3, <3>4 DEF SegmentStart, ChainStart
    <3> QED BY <1>1, <1>4, <1>6, <2>1, <3>1, <3>2, <3>5 DEF ReadInv, Stands
  <2> QED BY <1>5, <1>7, <2>2, <2>3, <2>4, <2>5 DEF CalmInv
<1> QED BY <1>4, <1>9, <1>10

\* The entries of a longer history are still those of the shorter.
LEMMA WentBackMore ==
  ASSUME NEW w, NEW h, Len(w) \in Nat, Len(h) \in Nat, IsPrefixOf(w, h), WentBack(w)
  PROVE  WentBack(h)
<1>1. Len(w) <= Len(h) /\ \A n \in 1..Len(w) : h[n] = w[n] /\ n \in 1..Len(h)
  BY DEF IsPrefixOf
<1>2. PICK m \in 1..Len(w), n \in 1..Len(w) :
        /\ w[m][2].datum.input # NoInput /\ w[n][2].datum.input # NoInput
        /\ m < n
        /\ \A j \in 1..Len(w) : w[j][2].datum.input # NoInput => j <= m \/ n <= j
        /\ WallClock[w[n][2].datum.input] + MaxDrift < WallClock[w[m][2].datum.input]
  BY DEF WentBack
<1>3. /\ m \in 1..Len(h) /\ n \in 1..Len(h) /\ h[m] = w[m] /\ h[n] = w[n]
  BY <1>1
<1>4. ASSUME NEW j \in 1..Len(h), h[j][2].datum.input # NoInput PROVE j <= m \/ n <= j
  <2>1. CASE j \in 1..Len(w)
    BY <1>1, <1>2, <1>4, <2>1
  <2>2. CASE j \notin 1..Len(w)
    BY <2>2
  <2> QED BY <2>1, <2>2
<1> QED BY <1>2, <1>3, <1>4 DEF WentBack

\* The next record is the first after m whose clock went back.
LEMMA ClockJudged ==
  ASSUME NEW w \in Entries, NEW v, NEW e, NEW m \in 1..Len(w), NEW ts, v = Append(w, e),
         LastClock(w, m, ts), e[2].datum.input # NoInput,
         WallClock[e[2].datum.input] + MaxDrift < ts
  PROVE  WentBack(v)
<1>1. PICK l : l = Len(w)
  OBVIOUS
<1>2. /\ l \in Nat /\ Len(v) = l + 1 /\ v[l + 1] = e /\ \A n \in 1..l : v[n] = w[n]
  <2>1. w \in Seq(Idx \X Chunk)
    BY DEF Entries
  <2> QED BY <1>1, <2>1
<1>3. m \in 1..l /\ m \in 1..(l + 1) /\ l + 1 \in 1..(l + 1) /\ m < l + 1
  BY <1>1, <1>2
<1>4. v[m][2].datum.input # NoInput /\ ts = WallClock[v[m][2].datum.input]
  BY <1>2, <1>3 DEF LastClock
<1>5. ASSUME NEW j \in 1..(l + 1), v[j][2].datum.input # NoInput PROVE j <= m \/ l + 1 <= j
  <2>1. j \in 1..l \/ j = l + 1
    BY <1>2
  <2>2. CASE j \in 1..l
    BY <1>1, <1>2, <1>5, <2>2 DEF LastClock
  <2> QED BY <1>2, <2>1, <2>2
<1> QED BY <1>2, <1>3, <1>4, <1>5 DEF WentBack

\* One more record, that a caller appended or not.
LEMMA ClockMoves ==
  ASSUME NEW w \in Entries, NEW v, NEW e, v = Append(w, e), NEW ts,
         ts = -1 \/ \E m \in 1..Len(w) : LastClock(w, m, ts)
  PROVE  LET u == IF e[2].datum.input = NoInput THEN ts ELSE WallClock[e[2].datum.input] IN
         u = -1 \/ \E m \in 1..Len(v) : LastClock(v, m, u)
<1>1. PICK l : l = Len(w)
  OBVIOUS
<1>2. /\ l \in Nat /\ Len(v) = l + 1 /\ v[l + 1] = e /\ \A n \in 1..l : v[n] = w[n]
  <2>1. w \in Seq(Idx \X Chunk)
    BY DEF Entries
  <2> QED BY <1>1, <2>1
<1>3. \A n \in 1..(l + 1) : n \in 1..l \/ n = l + 1
  BY <1>2
<1>4. CASE e[2].datum.input # NoInput
  <2>1. l + 1 \in 1..(l + 1) /\ \A n \in 1..(l + 1) : n <= l + 1
    BY <1>2
  <2>2. LastClock(v, l + 1, WallClock[e[2].datum.input])
    BY <1>2, <1>4, <2>1 DEF LastClock
  <2> QED BY <1>2, <1>4, <2>1, <2>2
<1>5. CASE e[2].datum.input = NoInput /\ ts # -1
  <2>1. PICK m \in 1..l : LastClock(w, m, ts)
    BY <1>1, <1>5
  <2>2. LastClock(v, m, ts)
    BY <1>1, <1>2, <1>3, <1>5, <2>1 DEF LastClock
  <2>3. m \in 1..(l + 1)
    BY <1>2
  <2> QED BY <1>2, <1>5, <2>2, <2>3
<1> QED BY <1>4, <1>5

\* A record that the verifier meets is the next of the chain it has followed.
LEMMA FrameContinues ==
  ASSUME VerifyInv, Laid(file), ReadInv, vpc = "record", NEW c, c = file[walk.seg][walk.pos + 1],
         walk.pos < Len(file[walk.seg]), c.kind = "record"
  PROVE  /\ c.prev_hash = walk.prev /\ c.datum.key_id = opts.key_id
         /\ c.datum.record_id + 2 = walk.pos + 1 /\ c.datum.record_id \in Nat
         /\ Stands(file, walk.seg, walk.pos + 1)
<1>1. PICK i, s, n : i = walk.seg /\ s = file[i] /\ n = walk.pos
  OBVIOUS
<1>2. i \in Idx /\ n \in Nat /\ n >= 1
  BY <1>1 DEF VerifyInv, StateInv, PathInv, WalkType
<1>3. s \in Seq(Chunk) /\ Chains(s) /\ Tailed(s) /\ Len(s) \in Nat
  BY <1>1, <1>2 DEF Laid
<1>4. n + 1 \in 2..Len(s) /\ s[n + 1].kind = "record" /\ (n + 1) - 1 = n
  BY <1>1, <1>2, <1>3
<1>5. PICK m \in 2..Len(s) : m = n + 1
  BY <1>4
<1>6. /\ s[m].prev_hash = ChainAfter(s[m - 1])
      /\ s[m].datum.record_id = m - 2 /\ s[m].datum.key_id = s[1].key_id
  BY <1>3, <1>4, <1>5, InChain
<1>7. s[1].key_id = opts.key_id /\ walk.prev = ChainAfter(s[n])
  BY <1>1 DEF ReadInv
<1>8. Stands(file, walk.seg, walk.pos + 1)
  BY <1>1, <1>4 DEF Stands
<1>9. c = s[m] /\ m - 1 = n /\ m - 2 = n - 1 /\ m = walk.pos + 1
  BY <1>1, <1>2, <1>5
<1> QED BY <1>2, <1>6, <1>7, <1>8, <1>9

\* A clock that went back is one the history shows.
LEMMA ClockExcused ==
  ASSUME VerifyInv, BaseInv, TraceInv, edits = 0, ~rewritten, ReadInv, ClockInv, vpc = "record",
         vreport.violation = NoViolation, NEW c, c = file[walk.seg][walk.pos + 1],
         walk.pos < Len(file[walk.seg]), c.kind = "record", c.prev_hash = walk.prev,
         ClockRegressed(c)
  PROVE  \E w \in Entries : Traced(w, file, 0) /\ WentBack(w)
<1>1. PICK i, n : i = walk.seg /\ n = walk.pos + 1
  OBVIOUS
<1>2. /\ i \in Idx /\ i \in Nat /\ i \in listed /\ listed \in SUBSET Idx /\ 0 \in Idx
      /\ walk.pos \in Nat /\ walk.pos >= 1
  BY <1>1 DEF VerifyInv, StateInv, PathInv, WalkType, Idx
<1>3. Reference = file /\ Laid(file) /\ Gapless(listed)
  BY DEF Reference, BaseInv, ReadInv
<1>4. First(listed) = 0
  BY <1>2, <1>3, GaplessFirst
<1>5. Traced(walked, file, 0) /\ Len(walk.prev) = StartLen(file[0]) + Len(walked)
  BY <1>3, <1>4 DEF TraceInv, OnTrack, At
<1>6. walked \in Entries
  BY DEF VerifyInv, StateInv, Entries
<1>7. n \in 2..Len(file[i])
  <2>1. file[i] \in Seq(Chunk)
    BY <1>2, <1>3 DEF Laid
  <2>2. Len(file[i]) \in Nat
    BY <2>1
  <2> QED BY <1>1, <1>2, <2>2
<1>8. PICK v : v = Append(walked, <<i, c>>)
  OBVIOUS
<1>9. v \in Entries /\ Traced(v, file, 0)
  <2>1. 0 <= i
    BY <1>2
  <2>2. \A m \in 2..Len(file[i]) : \A x :
           /\ file[i][m].kind = "record" /\ Len(file[i][m].prev_hash) = StartLen(file[0]) + Len(walked)
           /\ x = Append(walked, <<i, file[i][m]>>)
           => x \in Entries /\ Len(x) = Len(walked) + 1 /\ Traced(x, file, 0)
    BY <1>2, <1>3, <1>5, <1>6, <2>1, TracedMore
  <2>3. file[i][n] = c
    BY <1>1
  <2> QED BY <1>5, <1>7, <1>8, <2>2, <2>3
<1>10. WentBack(v)
  <2>0. c \in Chunk /\ walk.prior_ts \in Int /\ MaxDrift \in Nat /\ WallClock \in [Inputs -> Nat]
    <3>1. c \in Chunk
      BY FrameType DEF NextFrame
    <3> QED BY <3>1, VerifierAssumption DEF VerifyInv, StateInv, WalkType
  <2>1. c.datum.input # NoInput
    BY <2>0 DEF ClockRegressed, WallOf
  <2>2. c.datum.input \in Inputs
    <3>1. c.datum \in Datum
      BY <2>0 DEF Chunk, Torn, Bad
    <3> QED BY <2>1, <3>1 DEF Datum
  <2>3. WallClock[c.datum.input] \in Nat /\ WallClock[c.datum.input] + MaxDrift < walk.prior_ts
    BY <2>0, <2>1, <2>2 DEF ClockRegressed, WallOf
  <2>4. walk.prior_ts # -1
    <3>1. PICK a, b, d : a = WallClock[c.datum.input] /\ b = walk.prior_ts /\ d = MaxDrift
      OBVIOUS
    <3>2. a \in Nat /\ b \in Int /\ d \in Nat /\ a + d < b
      BY <2>0, <2>3, <3>1
    <3>3. b > 0
      BY <3>2
    <3>4. b # -1
      BY <3>3
    <3> QED BY <3>1, <3>4
  <2>5. PICK m \in 1..Len(walked) : LastClock(walked, m, walk.prior_ts)
    BY <2>4 DEF ClockInv
  <2>e. PICK e : e = <<i, c>>
    OBVIOUS
  <2>6. e[2] = c
    BY <2>e
  <2>7. PICK ts : ts = walk.prior_ts
    OBVIOUS
  <2>8. LastClock(walked, m, ts) /\ e[2].datum.input # NoInput
        /\ WallClock[e[2].datum.input] + MaxDrift < ts /\ v = Append(walked, e)
    BY <1>8, <2>e, <2>1, <2>3, <2>5, <2>6, <2>7
  <2> QED BY <1>6, <2>8, ClockJudged
<1> QED BY <1>9, <1>10

LEMMA CalmRecord ==
  ASSUME VerifyInv, BaseInv, TraceInv, edits = 0, ~rewritten, CalmInv, VerifyRecord, UNCHANGED vars
  PROVE  CalmInv'
<1>1. /\ UNCHANGED <<opts, listed, saved, file, entries>> /\ vpc = "record"
      /\ walk.pos < Len(file[walk.seg])
  BY DEF VerifyRecord, vars
<1>2. /\ FileInv /\ StateInv /\ PathInv /\ TopInv /\ ReadInv /\ LineInv /\ ClockInv /\ PinInv
      /\ MeetInv /\ ExcuseInv
  BY DEF VerifyInv, CalmInv
<1>3. PICK i, n, c : i = walk.seg /\ n = walk.pos /\ c = file[i][n + 1]
  OBVIOUS
<1>4. /\ c \in Chunk /\ c.kind # "header" /\ i \in Idx /\ i \in listed /\ n \in Nat /\ n >= 1
      /\ n < Len(file[i])
      /\ RecordAccepted(c) \/ \E kind : RecordRefused(c, kind)
  BY <1>3, RecordReads
<1>m. n + 1 \in 2..Len(file[i]) /\ n + 1 \in 1..Len(file[i])
  <2>1. PICK l : l = Len(file[i])
    OBVIOUS
  <2>2. l \in Nat
    <3>1. file[i] \in Seq(Chunk)
      BY <1>2, <1>4 DEF FileInv
    <3> QED BY <2>1, <3>1
  <2>3. n < l /\ n \in Nat /\ n >= 1
    BY <1>4, <2>1
  <2>4. n + 1 \in 2..l /\ n + 1 \in 1..l
    BY <2>2, <2>3
  <2> QED BY <2>1, <2>4
<1>l. Laid(file)
  BY DEF BaseInv, Reference
<1>5. TopInv'
  BY <1>2 DEF TopInv, Topmost, vars
<1>6. vreport.error = "none" /\ Gapless(listed)
  BY <1>1, <1>2 DEF PathInv, ReadInv
<1>7. PinInv'
  BY <1>1, <1>2, <1>6 DEF PinInv, NamesRecord, Stands
<1>8. c.kind = "record" =>
        /\ c.prev_hash = walk.prev /\ c.datum.key_id = opts.key_id
        /\ c.datum.record_id + 2 = n + 1 /\ c.datum.record_id \in Nat
        /\ Stands(file, i, n + 1)
  BY <1>1, <1>2, <1>3, <1>l, FrameContinues
<1>9. CASE \E kind : RecordRefused(c, kind)
  <2>1. PICK kind : RecordRefused(c, kind)
    BY <1>9
  <2>r. PICK id : id = ReportedId(c, kind)
    OBVIOUS
  <2>2. PICK v : v = [kind |-> kind, segment |-> i, record_id |-> id]
    OBVIOUS
  <2>3. vpc' \in {"done", "header"} /\ kind # "none" /\ Blames(v) /\ kind = Judgement(c)
    BY <1>3, <2>1, <2>r, <2>2 DEF RecordRefused
  <2>4. v.kind = kind /\ v.segment = i /\ v # NoViolation
    BY <2>2, <2>3 DEF NoViolation
  <2>5. vreport'.violation # NoViolation
    BY <2>3, <2>4 DEF Blames
  <2>6. LineInv' /\ ClockInv' /\ MeetInv' /\ ReadInv'
    BY <1>1, <1>6, <2>3, <2>5 DEF LineInv, ClockInv, MeetInv, ReadInv
  <2>7. Excused(v, vreport.violation # NoViolation)
    <3>0. c.kind \in {"record", "torn"}
      <4>2. c.kind # "bad"
        BY <1>2, <1>3, <1>4, <1>m DEF TopInv, Sound
      <4> QED BY <1>4, <4>2 DEF Chunk, Torn, Bad
    <3>1. CASE kind = "RecordCorrupt"
      <4>1. c.kind = "torn"
        BY <2>3, <3>1 DEF Judgement
      <4>2. ~Sealed(file[i])
        BY <1>3, <1>m, <4>1 DEF Sealed
      <4>3. \A j \in listed : j <= i
        BY <1>1, <1>2, <1>4, <4>2, LastEntry
      <4> QED BY <2>4, <3>1, <4>3 DEF Excused
    <3>2. CASE kind # "RecordCorrupt"
      <4>1. c.kind = "record"
        BY <2>3, <3>0, <3>2 DEF Judgement
      <4>2. kind = "TimestampRegression" \/ kind = "CheckpointMismatch"
        BY <1>8, <2>1, <2>3, <4>1 DEF Judgement, RecordRefused, Kinds
      <4>3. CASE kind = "TimestampRegression"
        <5>1. ClockRegressed(c)
          BY <1>8, <2>3, <4>1, <4>3 DEF Judgement
        <5>2. CASE vreport.violation # NoViolation
          BY <2>4, <4>3, <5>2 DEF Excused
        <5>3. CASE vreport.violation = NoViolation
          <6>1. \E w \in Entries : Traced(w, file, 0) /\ WentBack(w)
            BY <1>1, <1>2, <1>3, <1>8, <4>1, <5>1, <5>3, ClockExcused
          <6> QED BY <2>4, <4>3, <6>1 DEF Excused
        <5> QED BY <5>2, <5>3
      <4>4. CASE kind = "CheckpointMismatch"
        <5>1. AtCheckpoint(c) /\ ChainAfter(c) # opts.checkpoint.hmac
          BY <2>3, <4>4 DEF Judgement
        <5>2. /\ opts.checkpoint.segment = i /\ opts.checkpoint.record_id = c.datum.record_id
              /\ opts.checkpoint.record_id + 2 = n + 1
          BY <1>3, <1>8, <4>1, <5>1 DEF AtCheckpoint
        <5>3. Refuted(opts.checkpoint)
          BY <1>3, <1>4, <1>8, <4>1, <5>1, <5>2 DEF Refuted
        <5> QED BY <2>4, <4>4, <5>3 DEF Excused
      <4> QED BY <4>2, <4>3, <4>4
    <3> QED BY <3>1, <3>2
  <2>8. ExcuseInv'
    BY <1>1, <1>2, <2>3, <2>7, BlamesExcused
  <2> QED BY <1>5, <1>7, <2>6, <2>8 DEF CalmInv
<1>10. CASE RecordAccepted(c)
  <2>1. /\ c.kind = "record" /\ walked' = Append(walked, <<i, c>>)
        /\ vpc' = "record" /\ vreport' = vreport
        /\ walk'.todo = walk.todo /\ walk'.seg = i /\ walk'.pos = n + 1
        /\ walk'.prev = ChainAfter(c) /\ walk'.prior_ts = WallOf(c)
        /\ walk'.reached = (walk.reached \/ AtCheckpoint(c))
    BY <1>1, <1>3, <1>10 DEF RecordAccepted
  <2>2. ExcuseInv'
    BY <1>1, <1>2, <2>1, ExcuseStays
  <2>3. LineInv'
    BY <1>1, <1>2, <1>3, <2>1 DEF LineInv, Ahead
  <2>4. MeetInv'
    <3>1. SUFFICES ASSUME vreport.violation = NoViolation, opts.checkpoint # NoCheckpoint,
                          ~walk.reached, opts.checkpoint.segment \notin walk.todo, ~AtCheckpoint(c)
                   PROVE  opts.checkpoint.segment = i /\ opts.checkpoint.record_id + 2 > n + 1
      BY <1>1, <2>1 DEF MeetInv
    <3>2. opts.checkpoint.segment = i /\ opts.checkpoint.record_id + 2 > n
      BY <1>1, <1>2, <1>3, <3>1 DEF MeetInv
    <3>3. opts.checkpoint.record_id \in Nat
      BY <1>2, <3>1 DEF PinInv, NamesRecord
    <3>4. opts.checkpoint.record_id # c.datum.record_id
      BY <1>3, <3>1, <3>2 DEF AtCheckpoint
    <3>5. c.datum.record_id + 2 = n + 1 /\ c.datum.record_id \in Nat
      BY <1>8, <2>1
    <3> QED BY <1>4, <3>2, <3>3, <3>4, <3>5
  <2>5. ReadInv'
    <3>1. Stands(file, i, 1) /\ file[i][1].key_id = opts.key_id
      BY <1>1, <1>2, <1>3 DEF ReadInv
    <3> QED BY <1>1, <1>3, <1>6, <1>8, <2>1, <3>1 DEF ReadInv, Stands
  <2>6. ClockInv'
    <3>1. SUFFICES ASSUME vreport.violation = NoViolation
                   PROVE  walk'.prior_ts = -1
                          \/ \E m \in 1..Len(walked') : LastClock(walked', m, walk'.prior_ts)
      BY <2>1 DEF ClockInv
    <3>2. PICK w, v, ts : w = walked /\ v = walked' /\ ts = walk.prior_ts
      OBVIOUS
    <3>3. PICK e : e = <<i, c>>
      OBVIOUS
    <3>4. e[2] = c
      BY <3>3
    <3>5. w \in Entries /\ v = Append(w, e) /\ (ts = -1 \/ \E m \in 1..Len(w) : LastClock(w, m, ts))
      BY <1>1, <1>2, <2>1, <3>1, <3>2, <3>3 DEF ClockInv, StateInv, Entries
    <3>6. PICK u : u = IF e[2].datum.input = NoInput THEN ts ELSE WallClock[e[2].datum.input]
      OBVIOUS
    <3>7. u = -1 \/ \E m \in 1..Len(v) : LastClock(v, m, u)
      BY <3>5, <3>6, ClockMoves
    <3>8. walk'.prior_ts = u
      BY <2>1, <3>2, <3>4, <3>6 DEF WallOf
    <3> QED BY <3>2, <3>7, <3>8
  <2> QED BY <1>5, <1>7, <2>2, <2>3, <2>4, <2>5, <2>6 DEF CalmInv
<1> QED BY <1>4, <1>9, <1>10

LEMMA CalmEnd ==
  ASSUME VerifyInv, Laid(file), CalmInv, VerifySegmentEnd, UNCHANGED vars
  PROVE  CalmInv'
<1>1. UNCHANGED <<opts, listed, saved, walked, file, entries>>
  BY DEF VerifySegmentEnd, vars
<1>2. /\ FileInv /\ StateInv /\ PathInv /\ TopInv /\ ReadInv /\ LineInv /\ ClockInv /\ PinInv
      /\ MeetInv /\ ExcuseInv
  BY DEF VerifyInv, CalmInv
<1>3. PICK i, n, l : i = walk.seg /\ n = walk.pos /\ l = Len(file[i])
  OBVIOUS
<1>4. /\ vpc = "record" /\ n >= l /\ i \in listed
      /\ walk'.todo = walk.todo /\ walk'.seg = i /\ walk'.prior_final = walk.prev
      /\ walk'.prior_ts = walk.prior_ts /\ walk'.reached = walk.reached
      /\ \/ vpc' = "header" /\ walk.todo # {} /\ vreport' = vreport
         \/ /\ vpc' = "done" /\ walk.todo = {}
            /\ vreport'.additional = vreport.additional
            /\ vreport'.violation # vreport.violation =>
                 /\ opts.checkpoint # NoCheckpoint /\ ~walk.reached
                 /\ vreport.violation = NoViolation
                 /\ vreport'.violation.kind = "CheckpointTruncated"
  BY <1>3, EndReads
<1>5. TopInv'
  BY <1>2 DEF TopInv, Topmost, vars
<1>6. vreport.error = "none" /\ Gapless(listed) /\ i \in Idx
  BY <1>2, <1>4 DEF PathInv, ReadInv, StateInv
<1>7. PinInv'
  BY <1>1, <1>2, <1>4, <1>6 DEF PinInv, NamesRecord, Stands
<1>8. ReadInv'
  BY <1>1, <1>4, <1>6 DEF ReadInv
<1>9. ClockInv'
  BY <1>1, <1>2, <1>4 DEF ClockInv
<1>10. l \in Nat /\ n = l /\ AtEnd(i, walk.prev)
  <2>1. file[i] \in Seq(Chunk)
    BY <1>2, <1>6 DEF FileInv
  <2>2. l \in Nat
    BY <1>3, <2>1
  <2>3. Stands(file, i, n) /\ walk.prev = ChainAfter(file[i][n])
    BY <1>2, <1>3, <1>4 DEF ReadInv
  <2>4. n = l
    <3>1. CASE n = 1 /\ HasHeader(file[i])
      <4>1. l # 0
        BY <1>3, <2>1, <3>1 DEF HasHeader
      <4> QED BY <1>4, <2>2, <3>1, <4>1
    <3>2. CASE n \in 2..l
      BY <1>4, <2>2, <3>2
    <3> QED BY <1>3, <2>3, <3>1, <3>2 DEF Stands
  <2> QED BY <1>3, <2>2, <2>3, <2>4 DEF AtEnd
<1>11. LineInv'
  BY <1>1, <1>2, <1>3, <1>4, <1>10 DEF LineInv, Ahead, AtEnd, Stands
\* The checkpoint's record is not behind the end of its segment.
<1>12. ASSUME vreport.violation = NoViolation, opts.checkpoint # NoCheckpoint, ~walk.reached
       PROVE  opts.checkpoint.segment \in walk.todo
  <2>1. SUFFICES ASSUME opts.checkpoint.segment = i, opts.checkpoint.record_id + 2 > n PROVE FALSE
    BY <1>2, <1>3, <1>4, <1>12 DEF MeetInv
  <2>2. PICK r : r = opts.checkpoint.record_id
    OBVIOUS
  <2>3. r \in Nat /\ Stands(file, i, r + 2) /\ r + 2 > l
    BY <1>2, <1>10, <1>12, <2>1, <2>2 DEF PinInv, NamesRecord
  <2> QED BY <1>3, <1>10, <2>3 DEF Stands
<1>13. MeetInv'
  BY <1>1, <1>4, <1>12 DEF MeetInv
<1>14. ExcuseInv'
  <2>1. vreport'.violation = vreport.violation /\ vreport'.additional = vreport.additional
    BY <1>4, <1>12
  <2> QED BY <1>1, <1>2, <2>1, ExcuseStays
<1> QED BY <1>5, <1>7, <1>8, <1>9, <1>11, <1>13, <1>14 DEF CalmInv

LEMMA CalmSave ==
  ASSUME VerifyInv, Laid(file), CalmInv, SaveCheckpoint, UNCHANGED vars
  PROVE  CalmInv'
<1>1. /\ UNCHANGED <<vpc, opts, listed, walk, vreport, walked, file, entries>> /\ vpc = "done"
  BY DEF SaveCheckpoint, Verified, vars
<1>2. /\ TopInv' /\ ReadInv' /\ LineInv' /\ ClockInv' /\ MeetInv'
  <2>1. TopInv'
    BY DEF CalmInv, TopInv, Topmost, vars
  <2> QED BY <1>1, <2>1 DEF CalmInv, ReadInv, LineInv, ClockInv, MeetInv
<1>3. ExcuseInv'
  BY <1>1, ExcuseStays DEF CalmInv
<1>4. PinInv'
  <2>1. PICK i, s, l : i = vreport.last_segment /\ s = file[i] /\ l = Len(s)
    OBVIOUS
  <2>2. /\ i \in listed /\ i \in Idx /\ i \in entries
    BY <1>1, <2>1 DEF VerifyInv, PathInv, StateInv, SaveCheckpoint, Verified
  <2>3. s \in Seq(Chunk) /\ Chains(s) /\ Tailed(s) /\ l \in Nat
    BY <2>1, <2>2 DEF Laid
  <2>4. l > 1 /\ \A n \in 2..Len(file[i]) : file[i][n].kind = "record"
    BY <2>1, <2>2 DEF SaveCheckpoint
  <2>5. l \in 2..Len(s) /\ s[l].kind = "record"
    BY <2>1, <2>3, <2>4
  <2>6. s[l].datum.record_id = l - 2
    BY <2>3, <2>5, InChain
  <2>7. saved'.segment = i /\ saved'.record_id = l - 2
    BY <2>1, <2>6 DEF SaveCheckpoint
  <2>8. l - 2 \in Nat /\ (l - 2) + 2 = l
    BY <2>3, <2>4
  <2>9. NamesRecord(saved)'
    BY <1>1, <2>1, <2>2, <2>5, <2>7, <2>8 DEF NamesRecord, Stands
  <2> QED BY <1>1, <2>9 DEF CalmInv, PinInv, NamesRecord, Stands
<1> QED BY <1>2, <1>3, <1>4 DEF CalmInv

LEMMA CalmStop ==
  ASSUME CalmInv, EndVerify, UNCHANGED vars
  PROVE  CalmInv'
<1>1. /\ UNCHANGED <<file, entries, saved>> /\ vpc' = "idle" /\ opts' = NoOpts
      /\ vreport'.violation = NoViolation
  BY DEF EndVerify, vars, StartReport
<1>2. TopInv'
  BY DEF CalmInv, TopInv, Topmost, vars
<1>3. ReadInv' /\ LineInv' /\ ClockInv' /\ MeetInv' /\ ExcuseInv'
  BY <1>1 DEF ReadInv, LineInv, ClockInv, MeetInv, ExcuseInv
<1>4. PinInv'
  BY <1>1 DEF CalmInv, PinInv, NamesRecord, Stands, NoOpts
<1> QED BY <1>2, <1>3, <1>4 DEF CalmInv

AlarmInv == edits = 0 => ~rewritten /\ CalmInv

LEMMA AlarmStart ==
  ASSUME VInit
  PROVE  AlarmInv
<1>1. TopInv
  BY TopStart DEF VInit
<1>2. /\ vpc = "idle" /\ opts = NoOpts /\ vreport.violation = NoViolation /\ saved = NoCheckpoint
      /\ ~rewritten
  BY DEF VInit, VerifierInit, StartReport
<1>3. ReadInv /\ LineInv /\ ClockInv /\ MeetInv /\ ExcuseInv
  BY <1>2 DEF ReadInv, LineInv, ClockInv, MeetInv, ExcuseInv
<1>4. PinInv
  BY <1>2 DEF PinInv, NamesRecord, NoOpts
<1> QED BY <1>1, <1>2, <1>3, <1>4 DEF AlarmInv, CalmInv

LEMMA AlarmNext ==
  ASSUME FewSegments, CreatesLand, VerifyInv, WriterInv, WriterInv', BaseInv, BaseInv', TraceInv,
         AlarmInv, [VNext]_allvars
  PROVE  AlarmInv'
<1> SUFFICES ASSUME edits' = 0 PROVE ~rewritten' /\ CalmInv'
  BY DEF AlarmInv
<1>1. ~Edit
  BY EditEffect DEF VerifyInv
<1>2. CASE WriterWorks \/ UNCHANGED allvars
  <2>1. UNCHANGED vvars /\ [Next]_vars
    BY <1>2 DEF WriterWorks, allvars
  <2>2. edits = 0 /\ ~rewritten'
    BY <2>1 DEF vvars, AlarmInv
  <2>3. IInv /\ IInv' /\ LogInv /\ CalmInv
    BY <2>2 DEF WriterInv, BaseInv, AlarmInv
  <2>4. Laid(file) /\ Laid(file')
    <3>1. Reference = file /\ Reference' = file'
      BY <2>2 DEF Reference
    <3> QED BY <3>1 DEF BaseInv
  <2> QED BY <2>1, <2>2, <2>3, <2>4, CalmWriter
<1>3. CASE VerifierNext /\ UNCHANGED vars
  <2>1. UNCHANGED <<edits, rewritten>>
    BY <1>3 DEF VerifierNext, StartVerify, VerifyHeader, VerifyRecord, VerifySegmentEnd,
                SaveCheckpoint, EndVerify
  <2>2. edits = 0 /\ ~rewritten /\ CalmInv /\ IInv /\ LogInv
    BY <2>1 DEF AlarmInv, WriterInv, BaseInv
  <2>3. Laid(file)
    BY <2>2 DEF Reference, BaseInv
  <2>4. CalmInv'
    BY <1>3, <2>2, <2>3, VerifierSteps, CalmStart, CalmHeader, CalmRecord, CalmEnd, CalmSave, CalmStop
  <2> QED BY <2>1, <2>2, <2>4
<1> QED BY <1>1, <1>2, <1>3 DEF VNext

\* Entries that went back are part of a history that did.
LEMMA WentBackShows ==
  ASSUME Laid(file), NEW w \in Entries, Traced(w, file, 0), WentBack(w)
  PROVE  ClockWentBack
<1>1. PICK h : h = History(file, 0)
  OBVIOUS
<1>2. 0 \in Idx
  BY DEF Idx
<1>3. IsPrefixOf(w, h)
  BY <1>1, <1>2, TracedIsHistory
<1>4. Numbers(h, file, 0, MaxIndex + 1)
  BY <1>1, <1>2, HistoryNumbers DEF Traced
<1>5. Len(h) \in Nat /\ Len(w) \in Nat
  BY <1>4 DEF Numbers, Entries
<1>6. WentBack(h)
  BY <1>3, <1>5, WentBackMore
<1> QED BY <1>1, <1>6 DEF WentBack, ClockWentBack

\* A verification of a log nobody has changed blames no record of it, beside a
\* writer at work and after its crashes: what it reports is a tail still being
\* written in the last segment, a clock that went back, a checkpoint whose HMAC
\* is not that of the record it names, or in forensic mode a consequence of an
\* earlier violation.
THEOREM NoFalseAlarmCorrect ==
  ASSUME FewSegments, WritesLand, CreatesLand
  PROVE  VSpec => []NoFalseAlarm
<1>1. VInit => BaseInv /\ TraceInv /\ AlarmInv
  <2>1. VInit => vpc = "idle"
    BY DEF VInit, VerifierInit
  <2> QED BY <2>1, BaseStart, AlarmStart DEF TraceInv
<1>2. (VerifyInv /\ WriterInv) /\ (VerifyInv /\ WriterInv)' /\ (BaseInv /\ TraceInv /\ AlarmInv)
        /\ [VNext]_allvars => (BaseInv /\ TraceInv /\ AlarmInv)'
  <2> SUFFICES ASSUME VerifyInv, WriterInv, VerifyInv', WriterInv', BaseInv, TraceInv, AlarmInv,
                      [VNext]_allvars
               PROVE  (BaseInv /\ TraceInv /\ AlarmInv)'
    OBVIOUS
  <2>1. BaseInv'
    BY BaseNext
  <2>2. TraceInv'
    BY <2>1, TraceNext
  <2>3. AlarmInv'
    BY <2>1, AlarmNext
  <2> QED BY <2>1, <2>2, <2>3
<1>3. ASSUME BaseInv, AlarmInv PROVE NoFalseAlarm
  <2> SUFFICES ASSUME edits = 0, vreport.violation # NoViolation,
                      \A i \in listed : HasHeader(file[i]) => file[i][1].key_id = opts.key_id,
                      NEW n \in 0..Len(vreport.additional), NEW v,
                      v = IF n = 0 THEN vreport.violation ELSE vreport.additional[n]
               PROVE  \/ v.kind \in {"RecordCorrupt", "HeaderCorrupt"} /\ \A j \in listed : j <= v.segment
                      \/ v.kind = "TimestampRegression" /\ (n > 0 \/ ClockWentBack)
                      \/ v.kind = "SegmentDiscontinuity" /\ n > 0
                      \/ v.kind = "CheckpointMismatch" /\ ~Pins(opts.checkpoint)
    BY DEF NoFalseAlarm
  <2>1. ExcuseInv /\ Laid(file)
    BY <1>3 DEF AlarmInv, CalmInv, BaseInv, Reference
  <2>2. ~Foreign
    <3>1. \A i \in listed : Stands(file, i, 1) => HasHeader(file[i])
      BY DEF Stands
    <3> QED BY <3>1 DEF Foreign
  <2>3. /\ Excused(vreport.violation, FALSE)
        /\ \A m \in 1..Len(vreport.additional) : Excused(vreport.additional[m], TRUE)
    BY <2>1, <2>2 DEF ExcuseInv
  <2>4. Excused(v, n > 0)
    <3>1. CASE n = 0
      <4>1. v = vreport.violation /\ (n > 0) = FALSE
        BY <3>1
      <4> QED BY <2>3, <4>1
    <3>2. CASE n # 0
      <4>1. n \in 1..Len(vreport.additional) /\ (n > 0) = TRUE
        BY <3>2
      <4> QED BY <2>3, <3>2, <4>1
    <3> QED BY <3>1, <3>2
  <2>5. (\E w \in Entries : Traced(w, file, 0) /\ WentBack(w)) => ClockWentBack
    BY <2>1, WentBackShows
  <2>6. Refuted(opts.checkpoint) => ~Pins(opts.checkpoint)
    BY DEF Refuted, Pins
  <2> QED BY <2>4, <2>5, <2>6 DEF Excused
<1> QED BY <1>1, <1>2, <1>3, VerifyInvariance, PTL DEF VSpec
=============================================================================
