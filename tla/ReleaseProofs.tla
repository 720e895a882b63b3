--------------------------- MODULE ReleaseProofs ---------------------------
(***************************************************************************)
(* Proofs about Release, for every set of files, contents, ids, builder    *)
(* requests, outside changes and verifier options, and for every bound.    *)
(*                                                                         *)
(* ReleaseInv ties the signatures to the history of the signer and each    *)
(* record of the copied log to the source; BuiltInv adds what a build that *)
(* nobody disturbed knows of the folder at each of its steps.              *)
(***************************************************************************)
EXTENDS Release, SequenceTheorems, TLAPS

-----------------------------------------------------------------------------
(* The inductive invariant. *)

Data == Contents \cup Ids \cup {Absent, Link, "unsigned", "signed"}
Events == {"app", "log.sealed"}
Chunk == [id : Nat, event : Events \cup {"header", "torn"}, body : {"whole", "elided", "changed"}]
Keys == {"none", "signer", "other"}
FileTable == UNION {[Q -> Data] : Q \in SUBSET Paths}
Doc == [key : Keys, id : Ids \cup {Absent}, files : FileTable, head : Nat]
Builder == [pc : Steps, spec : Specs \cup {NoSpec}, head : Nat, todo : SUBSET Paths, doc : Doc]

\* The types of the variables.
ReleaseTypes ==
  /\ source \in Seq(Events)
  /\ retirement \in [done : BOOLEAN, head : Nat, releases : SUBSET Doc]
  /\ folder \in [Paths -> Data]
  /\ copy \in Seq(Chunk)
  /\ json \in Doc
  /\ sig \in [by : Keys, doc : Doc]
  /\ build \in Builder
  /\ signed \in SUBSET Doc
  /\ issued \in SUBSET signed
  /\ built \in {"building", "ok", "no"}
  /\ edits \in 0..MaxEdits

\* A chunk that carries a record carries one of the source.
FromSource(c) == c.id # 0 => c.id \in 1..Len(source) /\ c.event = source[c.id]

\* The signer's name is on what the signer signed, no attested head is past the
\* end of the log it was taken from, and no copy holds a foreign record.
SignedPast ==
  /\ build.head <= Len(source)
  /\ build.pc # "idle" => build.spec \in Specs
  /\ build.pc = "copy" => Len(copy) \in 1..build.head
  /\ build.pc \in {"json", "sig"} => build.doc \in signed
  /\ sig.by = "signer" => sig.doc \in signed
  /\ \A d \in signed : d.head <= Len(source)
  /\ \A d \in retirement.releases : d.head <= retirement.head
  /\ \A m \in 1..Len(copy) : FromSource(copy[m])

ReleaseInv == ReleaseTypes /\ SignedPast

-----------------------------------------------------------------------------
(* The parts of the state. *)

LEMMA NoDocType == NoDoc \in Doc /\ NoDoc.key = "none" /\ NoDoc.head = 0
<1>1. << >> \in [{} -> Data]
  OBVIOUS
<1>2. << >> \in FileTable
  BY <1>1 DEF FileTable
<1> QED BY <1>2 DEF NoDoc, Doc, Keys

LEMMA IdleType ==
  /\ Idle \in Builder /\ Idle.pc = "idle" /\ Idle.head = 0
  /\ NoSig \in [by : Keys, doc : Doc] /\ NoSig.by = "none"
  BY NoDocType DEF Idle, Builder, Steps, NoSig, Keys

\* A table of digests with one more entry, or with its entries read again.
LEMMA TableType ==
  ASSUME NEW f \in FileTable
  PROVE  /\ DOMAIN f \subseteq Paths
         /\ \A q \in DOMAIN f : f[q] \in Data
         /\ \A p \in Paths, v \in Data :
              [q \in DOMAIN f \cup {p} |-> IF q = p THEN v ELSE f[q]] \in FileTable
         /\ \A g \in [Paths -> Data] : [q \in DOMAIN f |-> g[q]] \in FileTable
<1>1. PICK Q \in SUBSET Paths : f \in [Q -> Data]
  BY DEF FileTable
<1>2. DOMAIN f = Q /\ \A q \in Q : f[q] \in Data
  BY <1>1
<1>3. ASSUME NEW p \in Paths, NEW v \in Data
      PROVE [q \in DOMAIN f \cup {p} |-> IF q = p THEN v ELSE f[q]] \in FileTable
  <2>1. [q \in Q \cup {p} |-> IF q = p THEN v ELSE f[q]] \in [Q \cup {p} -> Data]
    BY <1>2
  <2>2. Q \cup {p} \in SUBSET Paths
    BY <1>1
  <2> QED BY <2>1, <2>2, <1>2 DEF FileTable
<1>4. ASSUME NEW g \in [Paths -> Data]
      PROVE [q \in DOMAIN f |-> g[q]] \in FileTable
  <2>1. [q \in Q |-> g[q]] \in [Q -> Data]
    BY <1>1
  <2> QED BY <2>1, <1>2 DEF FileTable
<1> QED BY <1>1, <1>2, <1>3, <1>4

LEMMA SpecType ==
  ASSUME NEW s \in Specs \cup {NoSpec}
  PROVE  s.files \subseteq Files /\ s.id \in Ids \cup {Absent}
  BY ReleaseAssumption DEF NoSpec

LEMMA HeadType ==
  ASSUME source \in Seq(Events), NEW s \in Specs
  PROVE  HeadFor(s) \in Nat /\ HeadFor(s) <= Len(source)
  BY ReleaseAssumption DEF HeadFor

LEMMA ChangeType ==
  ASSUME NEW c \in Changes
  PROVE  c[1] \in Paths /\ c[2] \in Data
  BY ReleaseAssumption DEF Data

\* What CopyRecord appends.
LEMMA RecordType ==
  ASSUME source \in Seq(Events), NEW n \in 1..Len(source), NEW b \in {"whole", "elided"}
  PROVE  /\ Record(n, b) \in Chunk /\ FromSource(Record(n, b))
         /\ Record(n, b).id = n /\ Record(n, b).event \in Events /\ Record(n, b).body = b
<1>1. source[n] \in Events /\ n \in Nat
  OBVIOUS
<1> QED BY <1>1 DEF Record, Chunk, FromSource

\* The step before a build's end, and the steps that fail, leave it idle.
LEMMA IdleKeeps ==
  ASSUME ReleaseInv, build' = Idle, UNCHANGED source
  PROVE  /\ build' \in Builder /\ build'.pc = "idle" /\ build'.head = 0
         /\ build'.head <= Len(source')
  BY IdleType DEF ReleaseInv, ReleaseTypes

-----------------------------------------------------------------------------
(* Every step keeps the invariant. *)

LEMMA ReleaseInitInv == ReleaseInit => ReleaseInv
<1> SUFFICES ASSUME ReleaseInit PROVE ReleaseInv
  OBVIOUS
<1>1. folder \in [Paths -> Data]
  BY DEF ReleaseInit, Data
<1>2. ReleaseTypes
  BY <1>1, NoDocType, IdleType, ReleaseAssumption DEF ReleaseInit, ReleaseTypes, NotRetired, Events, Chunk
<1>3. SignedPast
  BY NoDocType, IdleType DEF ReleaseInit, SignedPast, NotRetired
<1> QED BY <1>2, <1>3 DEF ReleaseInv

LEMMA AppendsKeeps ==
  ASSUME ReleaseInv, NEW e \in Events, WriterAppends(e)
  PROVE  ReleaseInv'
<1> USE DEF ReleaseInv
<1>1. source' \in Seq(Events) /\ Len(source') = Len(source) + 1
      /\ \A i \in 1..Len(source) : source'[i] = source[i]
  BY DEF ReleaseTypes, WriterAppends
<1>2. ReleaseTypes'
  BY <1>1 DEF ReleaseTypes, WriterAppends, bundle, past
<1>3. ASSUME NEW m \in 1..Len(copy) PROVE FromSource(copy[m])'
  <2>1. FromSource(copy[m])
    BY DEF SignedPast
  <2> QED BY <2>1, <1>1 DEF FromSource, ReleaseTypes, WriterAppends, bundle
<1>4. \A d \in signed : d.head \in Nat /\ d.head <= Len(source)
  BY DEF ReleaseTypes, SignedPast, Doc
<1>5. \A d \in signed : d.head <= Len(source')
  BY <1>1, <1>4 DEF ReleaseTypes
<1>6. build.head \in Nat /\ build.head <= Len(source')
  BY <1>1 DEF ReleaseTypes, SignedPast, Builder
<1>7. SignedPast'
  BY <1>3, <1>5, <1>6 DEF SignedPast, WriterAppends, bundle, past
<1> QED BY <1>2, <1>7

LEMMA RetireKeeps ==
  ASSUME ReleaseInv, Retire
  PROVE  ReleaseInv'
<1> USE DEF ReleaseInv
<1>1. /\ retirement' \in [done : BOOLEAN, head : Nat, releases : SUBSET Doc]
      /\ retirement'.head = Len(source) /\ retirement'.releases = issued
  BY DEF Retire, ReleaseTypes
<1>2. ReleaseTypes'
  BY <1>1 DEF ReleaseTypes, Retire, bundle, past
<1>3. ASSUME NEW m \in 1..Len(copy) PROVE FromSource(copy[m])'
  BY DEF SignedPast, FromSource, Retire, bundle
<1>4. \A d \in issued : d.head <= Len(source)
  BY DEF ReleaseTypes, SignedPast
<1>5. SignedPast'
  BY <1>1, <1>3, <1>4 DEF SignedPast, Retire, bundle, past
<1> QED BY <1>2, <1>5

LEMMA BeginKeeps ==
  ASSUME ReleaseInv, NEW s \in Specs, BuildBegin(s)
  PROVE  ReleaseInv'
<1> USE DEF ReleaseInv
<1> DEFINE h == IF s.log THEN HeadFor(s) ELSE 0
           pc == IF s.log THEN "copy" ELSE "instructions"
<1>1. build' = [Idle EXCEPT !.pc = pc, !.spec = s, !.head = h]
  BY DEF BuildBegin
<1>2. h \in Nat /\ h <= Len(source) /\ (s.log => h >= 1)
  BY HeadType, ReleaseAssumption DEF ReleaseTypes, BuildBegin
<1>3. pc \in {"copy", "instructions"} /\ (pc = "copy" => s.log)
  OBVIOUS
<1> HIDE DEF h, pc
<1>4. /\ build' \in Builder /\ build'.pc = pc /\ build'.spec = s /\ build'.head = h
  BY <1>1, <1>2, <1>3, IdleType DEF Builder, Steps
<1>5. (s.log /\ copy' = << HeaderChunk >>) \/ (~s.log /\ copy' = copy)
  BY ReleaseAssumption DEF BuildBegin
<1>a. HeaderChunk \in Chunk
  BY DEF HeaderChunk, Chunk
<1>b. << HeaderChunk >> \in Seq(Chunk) /\ Len(<< HeaderChunk >>) = 1
  BY <1>a
<1>c. copy' \in Seq(Chunk) /\ (s.log => Len(copy') = 1)
  BY <1>5, <1>b DEF ReleaseTypes
<1>6. ReleaseTypes'
  BY <1>4, <1>c DEF ReleaseTypes, BuildBegin
<1>7. ASSUME NEW m \in 1..Len(copy') PROVE FromSource(copy[m])'
  <2>1. CASE s.log
    <3>0. copy' = << HeaderChunk >>
      BY <2>1, <1>5, Zenon
    <3>a. PICK k : k = Len(copy')
      OBVIOUS
    <3>b. m \in 1..k /\ k = 1
      BY <2>1, <3>a, <1>c
    <3>1. m = 1
      BY <3>b
    <3>2. copy'[m] = HeaderChunk /\ HeaderChunk.id = 0
      BY <3>0, <3>1 DEF HeaderChunk
    <3> QED BY <3>2 DEF FromSource
  <2>2. CASE ~s.log
    BY <2>2, <1>5 DEF SignedPast, FromSource, BuildBegin
  <2> QED BY <2>1, <2>2
<1>8. pc = "copy" => Len(copy') \in 1..h
  <2>1. CASE pc = "copy"
    <3>1. PICK k : k = Len(copy')
      OBVIOUS
    <3>2. k = 1
      BY <2>1, <3>1, <1>3, <1>c
    <3>3. h \in Nat /\ h >= 1
      BY <2>1, <1>2, <1>3
    <3>4. k \in 1..h
      BY <3>2, <3>3
    <3> QED BY <3>1, <3>4
  <2> QED BY <2>1
<1>9. SignedPast'
  BY <1>2, <1>3, <1>4, <1>7, <1>8 DEF SignedPast, BuildBegin
<1> QED BY <1>6, <1>9

LEMMA CopyKeeps ==
  ASSUME ReleaseInv, CopyRecord
  PROVE  ReleaseInv'
<1> USE DEF ReleaseInv
<1> DEFINE b == IF Len(copy) \in build.spec.elide THEN "elided" ELSE "whole"
           pc == IF Len(copy) = build.head THEN "instructions" ELSE "copy"
<1>1. PICK n, h, c : n = Len(copy) /\ h = build.head /\ c = Record(n, b)
  OBVIOUS
<1>2. build.pc = "copy" /\ copy' = Append(copy, c) /\ build' = [build EXCEPT !.pc = pc]
  BY <1>1 DEF CopyRecord
<1>3. b \in {"whole", "elided"} /\ pc \in {"instructions", "copy"} /\ (pc = "copy" => n # h)
  BY <1>1
<1> HIDE DEF b, pc
<1>4. n \in Nat /\ h \in Nat /\ n \in 1..h /\ h <= Len(source)
  BY <1>1, <1>2 DEF SignedPast, ReleaseTypes, Builder
<1>5. n \in 1..Len(source)
  BY <1>4 DEF ReleaseTypes
<1>6. c \in Chunk /\ FromSource(c)
  BY <1>1, <1>3, <1>5, RecordType DEF ReleaseTypes
<1>7. /\ copy' \in Seq(Chunk) /\ Len(copy') = n + 1 /\ copy'[n + 1] = c
      /\ \A m \in 1..n : copy'[m] = copy[m]
  BY <1>1, <1>2, <1>6 DEF ReleaseTypes
<1>8. /\ build' \in Builder /\ build'.pc = pc /\ build'.spec = build.spec
      /\ build'.head = h /\ build'.doc = build.doc
  BY <1>1, <1>2, <1>3 DEF ReleaseTypes, Builder, Steps
<1>9. ReleaseTypes'
  BY <1>7, <1>8 DEF ReleaseTypes, CopyRecord, past
<1>10. ASSUME NEW m \in 1..(n + 1) PROVE FromSource(copy[m])'
  <2>1. CASE m = n + 1
    BY <2>1, <1>6, <1>7 DEF FromSource, CopyRecord
  <2>2. CASE m # n + 1
    <3>1. m \in 1..n
      BY <2>2, <1>4
    <3> QED BY <3>1, <1>1, <1>7 DEF FromSource, CopyRecord, SignedPast
  <2> QED BY <2>1, <2>2
<1>11. pc = "copy" => n + 1 \in 1..h
  BY <1>3, <1>4
<1>12. SignedPast'
  BY <1>1, <1>2, <1>3, <1>7, <1>8, <1>10, <1>11 DEF SignedPast, CopyRecord, past
<1> QED BY <1>9, <1>12

\* Steps that end a build with an error.
LEMMA FailKeeps ==
  ASSUME ReleaseInv, Fail, copy' \in Seq(Chunk),
         \A m \in 1..Len(copy') : FromSource(copy'[m]),
         UNCHANGED <<source, retirement, folder, json, sig, issued, signed, edits>>
  PROVE  ReleaseInv'
<1> USE DEF ReleaseInv
<1>1. /\ build' \in Builder /\ build'.pc = "idle" /\ build'.head <= Len(source')
  BY IdleKeeps DEF Fail
<1>2. ReleaseTypes'
  BY <1>1 DEF ReleaseTypes, Fail
<1>3. \A m \in 1..Len(copy') : FromSource(copy[m])'
  BY DEF FromSource
<1>4. SignedPast'
  BY <1>1, <1>3 DEF SignedPast, Fail
<1> QED BY <1>2, <1>4

LEMMA RefusedKeeps ==
  ASSUME ReleaseInv, CopyRefused
  PROVE  ReleaseInv'
<1>1. copy' \in Seq(Chunk) /\ \A m \in 1..Len(copy') : FromSource(copy'[m])
  BY DEF CopyRefused, bundle, ReleaseInv, ReleaseTypes, SignedPast
<1> QED BY <1>1, FailKeeps DEF CopyRefused, bundle

\* A copy cut short, perhaps with a torn frame at its end.
LEMMA CutType ==
  ASSUME ReleaseInv, NEW n \in 0..Len(copy), NEW tail \in {<< >>, <<Torn>>}
  PROVE  LET t == SubSeq(copy, 1, n) \o tail IN
         t \in Seq(Chunk) /\ \A m \in 1..Len(t) : FromSource(t[m])
<1> DEFINE s == SubSeq(copy, 1, n)
<1>1. copy \in Seq(Chunk)
  BY DEF ReleaseInv, ReleaseTypes
<1>2. s \in Seq(Chunk) /\ Len(s) = n /\ \A m \in 1..n : s[m] = copy[m]
  BY <1>1
<1>3. Torn \in Chunk /\ FromSource(Torn)
  BY DEF Torn, Chunk, FromSource
<1>4. tail \in Seq(Chunk) /\ \A m \in 1..Len(tail) : tail[m] = Torn
  <2>1. CASE tail = << >>
    BY <2>1
  <2>2. CASE tail = <<Torn>>
    <3>1. <<Torn>> \in Seq(Chunk) /\ Len(<<Torn>>) = 1 /\ <<Torn>>[1] = Torn
      BY <1>3
    <3> QED BY <2>2, <3>1
  <2> QED BY <2>1, <2>2
<1> HIDE DEF s
<1>5. PICK t, k : t = s \o tail /\ k = Len(tail)
  OBVIOUS
<1>a. n \in Nat /\ k \in Nat
  BY <1>1, <1>4, <1>5
<1>b. /\ t \in Seq(Chunk) /\ Len(t) = n + k
      /\ \A m \in 1..(n + k) : t[m] = IF m <= n THEN s[m] ELSE tail[m - n]
  <2>1. /\ s \o tail \in Seq(Chunk) /\ Len(s \o tail) = Len(s) + Len(tail)
        /\ \A i \in 1..Len(s) + Len(tail) :
             (s \o tail)[i] = IF i <= Len(s) THEN s[i] ELSE tail[i - Len(s)]
    BY <1>2, <1>4, ConcatProperties, ZenonT(40)
  <2>2. Len(s) = n /\ Len(tail) = k /\ s \o tail = t
    BY <1>2, <1>5
  <2> QED BY <2>1, <2>2, Zenon
<1>6. /\ t \in Seq(Chunk) /\ Len(t) = n + k
      /\ \A m \in 1..n : t[m] = s[m]
      /\ \A m \in 1..(n + k) : m > n => t[m] = tail[m - n] /\ m - n \in 1..k
  BY <1>a, <1>b
<1>7. ASSUME NEW m \in 1..(n + k) PROVE FromSource(t[m])
  <2>1. CASE m <= n
    <3>1. m \in 1..n /\ m \in 1..Len(copy)
      BY <2>1, <1>1, <1>a
    <3> QED BY <3>1, <1>2, <1>6 DEF ReleaseInv, SignedPast
  <2>2. CASE m > n
    BY <2>2, <1>3, <1>4, <1>5, <1>6
  <2> QED BY <2>1, <2>2, <1>a
<1> QED BY <1>5, <1>6, <1>7 DEF s

LEMMA KillKeeps ==
  ASSUME ReleaseInv, Kill
  PROVE  ReleaseInv'
<1>1. CASE build.pc = "copy"
  <2>1. PICK n \in 0..Len(copy), tail \in {<< >>, <<Torn>>} :
          copy' = SubSeq(copy, 1, n) \o tail
    BY <1>1 DEF Kill
  <2>2. copy' \in Seq(Chunk) /\ \A m \in 1..Len(copy') : FromSource(copy'[m])
    BY <2>1, CutType
  <2> QED BY <2>2, FailKeeps DEF Kill
<1>2. CASE build.pc # "copy"
  <2>1. copy' \in Seq(Chunk) /\ \A m \in 1..Len(copy') : FromSource(copy'[m])
    BY <1>2 DEF Kill, ReleaseInv, ReleaseTypes, SignedPast
  <2> QED BY <2>1, FailKeeps DEF Kill
<1> QED BY <1>1, <1>2

\* Steps of a build that touch neither the log, its copy nor a signature.
LEMMA BuildKeeps ==
  ASSUME ReleaseInv, build' \in Builder,
         build'.pc \in {"instructions", "statement", "statement_sig", "hash"},
         build'.spec \in Specs, build'.head = build.head,
         folder' \in [Paths -> Data],
         UNCHANGED <<source, retirement, copy, json, sig, past>>
  PROVE  ReleaseInv'
<1> USE DEF ReleaseInv
<1>1. ReleaseTypes'
  BY DEF ReleaseTypes, past
<1>2. \A m \in 1..Len(copy') : FromSource(copy[m])'
  BY DEF FromSource, SignedPast
<1>3. SignedPast'
  BY <1>2 DEF SignedPast, past
<1> QED BY <1>1, <1>3

LEMMA InstructionsKeeps ==
  ASSUME ReleaseInv, WriteInstructions
  PROVE  ReleaseInv'
<1> DEFINE pc == IF build.spec.statement /\ retirement.done THEN "statement" ELSE "hash"
           td == build.spec.files \cup {Instructions}
<1>1. build.spec \in Specs /\ build \in Builder
  BY DEF ReleaseInv, ReleaseTypes, SignedPast, WriteInstructions
<1>2. td \in SUBSET Paths /\ pc \in {"statement", "hash"} /\ build.spec.id \in Ids
  BY <1>1, SpecType, ReleaseAssumption DEF Paths
<1>3. build' = [build EXCEPT !.pc = pc, !.todo = td]
  BY DEF WriteInstructions
<1> HIDE DEF pc, td
<1>4. build' \in Builder /\ build'.pc = pc /\ build'.spec = build.spec /\ build'.head = build.head
  BY <1>1, <1>2, <1>3 DEF Builder, Steps
<1>5. folder' \in [Paths -> Data]
  BY <1>2 DEF WriteInstructions, InstructionsText, Data, ReleaseInv, ReleaseTypes
<1> QED BY <1>1, <1>2, <1>4, <1>5, BuildKeeps DEF WriteInstructions

LEMMA StatementKeeps ==
  ASSUME ReleaseInv, CopyStatement
  PROVE  ReleaseInv'
<1> DEFINE pc == IF build.pc = "statement" THEN "statement_sig" ELSE "hash"
<1>1. build.spec \in Specs /\ build \in Builder
  BY DEF ReleaseInv, ReleaseTypes, SignedPast, CopyStatement
<1>2. build' = [build EXCEPT !.pc = pc] /\ pc \in {"statement_sig", "hash"}
  BY <1>1 DEF CopyStatement, Builder
<1> HIDE DEF pc
<1>3. build' \in Builder /\ build'.pc = pc /\ build'.spec = build.spec /\ build'.head = build.head
  BY <1>1, <1>2 DEF Builder, Steps
<1>4. folder' \in [Paths -> Data]
  BY DEF CopyStatement, Data, ReleaseInv, ReleaseTypes
<1> QED BY <1>1, <1>2, <1>3, <1>4, BuildKeeps DEF CopyStatement

\* What HashFile makes of the builder when the file is a regular one.
LEMMA HashDoc ==
  ASSUME ReleaseInv, NEW p \in Paths, HashFile(p), folder[p] \notin {Absent, Link}
  PROVE  /\ build' \in Builder /\ build'.pc = build.pc /\ build'.spec = build.spec
         /\ build'.head = build.head
         /\ DOMAIN build'.doc.files = DOMAIN build.doc.files \cup {p}
         /\ build'.doc.files[p] = folder[p]
         /\ \A q \in DOMAIN build.doc.files : q # p => build'.doc.files[q] = build.doc.files[q]
<1>1. build \in Builder /\ folder \in [Paths -> Data]
  BY DEF ReleaseInv, ReleaseTypes
<1>2. PICK b, d, f, v : b = build /\ d = build.doc /\ f = build.doc.files /\ v = folder[p]
  OBVIOUS
<1>3. b \in Builder /\ d \in Doc /\ f \in FileTable /\ v \in Data /\ d = b.doc /\ f = d.files
  BY <1>1, <1>2 DEF Builder, Doc
<1>4. PICK g : g = [q \in DOMAIN f \cup {p} |-> IF q = p THEN v ELSE f[q]]
  OBVIOUS
<1>5. /\ g \in FileTable /\ DOMAIN g = DOMAIN f \cup {p} /\ g[p] = v
      /\ \A q \in DOMAIN f : q # p => g[q] = f[q]
  BY <1>3, <1>4, TableType
<1>6. build' = [b EXCEPT !.todo = b.todo \ {p}, !.doc.files = g]
  BY <1>2, <1>4 DEF HashFile, Digest
<1>7. /\ build' \in Builder /\ build'.pc = b.pc /\ build'.spec = b.spec /\ build'.head = b.head
      /\ build'.doc.files = g
  BY <1>3, <1>5, <1>6 DEF Builder, Doc
<1> QED BY <1>2, <1>5, <1>7

LEMMA HashKeeps ==
  ASSUME ReleaseInv, NEW p \in Paths, HashFile(p)
  PROVE  ReleaseInv'
<1>1. CASE folder[p] \in {Absent, Link}
  <2>1. copy' \in Seq(Chunk) /\ \A m \in 1..Len(copy') : FromSource(copy'[m])
    BY DEF HashFile, bundle, ReleaseInv, ReleaseTypes, SignedPast
  <2> QED BY <1>1, <2>1, FailKeeps DEF HashFile, bundle
<1>2. CASE folder[p] \notin {Absent, Link}
  <2>1. build' \in Builder /\ build'.pc = "hash" /\ build'.spec \in Specs /\ build'.head = build.head
    BY <1>2, HashDoc DEF HashFile, ReleaseInv, SignedPast
  <2>2. folder' \in [Paths -> Data] /\ UNCHANGED <<source, retirement, copy, json, sig, past>>
    BY <1>2 DEF HashFile, bundle, past, ReleaseInv, ReleaseTypes
  <2> QED BY <2>1, <2>2, BuildKeeps
<1> QED BY <1>1, <1>2

\* The attestation the signer is shown, and the builder once it is signed.
LEMMA SignedDoc ==
  ASSUME ReleaseInv, build.pc = "hash",
         NEW d, d = [build.doc EXCEPT !.key = "signer", !.id = build.spec.id, !.head = build.head],
         build' = [build EXCEPT !.pc = "json", !.doc = d]
  PROVE  /\ d \in Doc /\ d.key = "signer" /\ d.head = build.head /\ d.files = build.doc.files
         /\ build' \in Builder /\ build'.pc = "json" /\ build'.spec = build.spec
         /\ build'.head = build.head /\ build'.doc = d
<1>1. build \in Builder
  BY DEF ReleaseInv, ReleaseTypes
<1>2. PICK i, h, e : i = build.spec.id /\ h = build.head /\ e = build.doc
  OBVIOUS
<1>3. i \in Ids \cup {Absent} /\ h \in Nat /\ e \in Doc
  BY <1>1, <1>2, SpecType DEF Builder
<1>4. d \in Doc /\ d.key = "signer" /\ d.head = h /\ d.files = e.files
  BY <1>2, <1>3 DEF Doc, Keys
<1>5. /\ build' \in Builder /\ build'.pc = "json" /\ build'.spec = build.spec
      /\ build'.head = build.head /\ build'.doc = d
  BY <1>1, <1>4 DEF Builder, Steps
<1> QED BY <1>2, <1>4, <1>5

LEMMA SignKeeps ==
  ASSUME ReleaseInv, SignAttestation
  PROVE  ReleaseInv'
<1>1. CASE Fail /\ UNCHANGED signed
  <2>1. copy' \in Seq(Chunk) /\ \A m \in 1..Len(copy') : FromSource(copy'[m])
    BY DEF SignAttestation, bundle, ReleaseInv, ReleaseTypes, SignedPast
  <2> QED BY <1>1, <2>1, FailKeeps DEF SignAttestation, bundle
<1>2. CASE ~(Fail /\ UNCHANGED signed)
  <2>1. PICK d : d = [build.doc EXCEPT !.key = "signer", !.id = build.spec.id, !.head = build.head]
    OBVIOUS
  <2>2. build.pc = "hash" /\ build' = [build EXCEPT !.pc = "json", !.doc = d]
        /\ signed' = signed \cup {d} /\ UNCHANGED built
    BY <1>2, <2>1 DEF SignAttestation
  <2>3. /\ d \in Doc /\ d.head = build.head
        /\ build' \in Builder /\ build'.pc = "json" /\ build'.spec = build.spec
        /\ build'.head = build.head /\ build'.doc = d
    BY <2>1, <2>2, SignedDoc
  <2>4. ReleaseTypes'
    BY <2>2, <2>3 DEF ReleaseInv, ReleaseTypes, SignAttestation, bundle
  <2>5. \A m \in 1..Len(copy') : FromSource(copy[m])'
    BY DEF FromSource, ReleaseInv, SignedPast, SignAttestation, bundle
  <2>6. SignedPast'
    BY <2>2, <2>3, <2>5 DEF ReleaseInv, SignedPast, SignAttestation, bundle
  <2> QED BY <2>4, <2>6 DEF ReleaseInv
<1> QED BY <1>1, <1>2

LEMMA JsonKeeps ==
  ASSUME ReleaseInv, WriteJson
  PROVE  ReleaseInv'
<1> USE DEF ReleaseInv
<1>1. /\ build' \in Builder /\ build'.pc = "sig" /\ build'.spec = build.spec
      /\ build'.head = build.head /\ build'.doc = build.doc /\ build.doc \in Doc
  BY DEF ReleaseTypes, WriteJson, Builder, Steps
<1>2. ReleaseTypes'
  BY <1>1 DEF ReleaseTypes, WriteJson, past
<1>3. \A m \in 1..Len(copy') : FromSource(copy[m])'
  BY DEF FromSource, SignedPast, WriteJson
<1>4. SignedPast'
  BY <1>1, <1>3 DEF SignedPast, WriteJson, past
<1> QED BY <1>2, <1>4

LEMMA SigKeeps ==
  ASSUME ReleaseInv, WriteSig
  PROVE  ReleaseInv'
<1> USE DEF ReleaseInv
<1>1. build' \in Builder /\ build'.pc = "idle" /\ build'.head <= Len(source')
  BY IdleKeeps DEF WriteSig
<1>2. build.doc \in Doc /\ build.doc \in signed
  BY DEF ReleaseTypes, SignedPast, WriteSig, Builder
<1>3. sig' \in [by : Keys, doc : Doc] /\ sig'.doc = build.doc
  BY <1>2 DEF WriteSig, Keys
<1>4. built' \in {"building", "ok", "no"}
  BY DEF WriteSig
<1>5. ReleaseTypes'
  BY <1>1, <1>2, <1>3, <1>4 DEF ReleaseTypes, WriteSig
<1>6. \A m \in 1..Len(copy') : FromSource(copy[m])'
  BY DEF FromSource, SignedPast, WriteSig
<1>7. SignedPast'
  BY <1>1, <1>2, <1>3, <1>6 DEF SignedPast, WriteSig
<1> QED BY <1>5, <1>7

\* Changes from outside: the signature of the signer stays on what it signed.
LEMMA EditKeeps ==
  ASSUME ReleaseInv, Edited, folder' \in [Paths -> Data], json' \in Doc,
         sig' \in [by : Keys, doc : Doc], sig'.by = "signer" => sig'.doc \in signed,
         copy' \in Seq(Chunk), \A m \in 1..Len(copy') : FromSource(copy'[m]),
         build.pc = "copy" => UNCHANGED copy
  PROVE  ReleaseInv'
<1> USE DEF ReleaseInv
<1>1. edits' \in 0..MaxEdits
  BY ReleaseAssumption DEF ReleaseTypes, Edited
<1>2. ReleaseTypes'
  BY <1>1 DEF ReleaseTypes, Edited
<1>3. \A m \in 1..Len(copy') : FromSource(copy[m])'
  BY DEF FromSource, Edited
<1>4. SignedPast'
  BY <1>3 DEF SignedPast, Edited
<1> QED BY <1>2, <1>4

LEMMA EditFileKeeps ==
  ASSUME ReleaseInv, NEW c \in Changes, EditFile(c[1], c[2])
  PROVE  ReleaseInv'
<1>1. folder' \in [Paths -> Data]
  BY ChangeType DEF EditFile, ReleaseInv, ReleaseTypes
<1> QED BY <1>1, EditKeeps DEF EditFile, ReleaseInv, ReleaseTypes, SignedPast

\* A record keeps its identity when its body is withheld or changed.
LEMMA BodyType ==
  ASSUME ReleaseInv, NEW n \in 1..Len(copy), NEW b \in {"changed", "elided"},
         NEW t, t = [copy EXCEPT ![n].body = b]
  PROVE  t \in Seq(Chunk) /\ \A m \in 1..Len(t) : FromSource(t[m])
<1>1. copy \in Seq(Chunk)
  BY DEF ReleaseInv, ReleaseTypes
<1>2. PICK c, d, k : c = copy[n] /\ d = [c EXCEPT !.body = b] /\ k = Len(copy)
  OBVIOUS
<1>3. c \in Chunk /\ FromSource(c)
  BY <1>1, <1>2 DEF ReleaseInv, SignedPast
<1>4. d \in Chunk /\ d.id = c.id /\ d.event = c.event
  BY <1>2, <1>3 DEF Chunk
<1>5. FromSource(d)
  BY <1>3, <1>4 DEF FromSource
<1>6. t = [copy EXCEPT ![n] = d]
  BY <1>2
<1>7. t \in Seq(Chunk) /\ Len(t) = k /\ \A m \in 1..k : t[m] = IF m = n THEN d ELSE copy[m]
  BY <1>1, <1>2, <1>4, <1>6
<1> QED BY <1>2, <1>5, <1>7 DEF ReleaseInv, SignedPast

\* A copy without its n-th chunk.
LEMMA GapType ==
  ASSUME ReleaseInv, NEW n \in 1..Len(copy),
         NEW t, t = SubSeq(copy, 1, n - 1) \o SubSeq(copy, n + 1, Len(copy))
  PROVE  t \in Seq(Chunk) /\ \A m \in 1..Len(t) : FromSource(t[m])
<1>1. copy \in Seq(Chunk)
  BY DEF ReleaseInv, ReleaseTypes
<1>2. PICK s, u, k : /\ s = SubSeq(copy, 1, n - 1) /\ u = SubSeq(copy, n + 1, Len(copy))
                     /\ k = Len(copy)
  OBVIOUS
<1>3. k \in Nat /\ n \in 1..k
  BY <1>1, <1>2
<1>4. s \in Seq(Chunk) /\ Len(s) = n - 1 /\ \A m \in 1..(n - 1) : s[m] = copy[m]
  BY <1>1, <1>2, <1>3
<1>5. u \in Seq(Chunk) /\ Len(u) = k - n /\ \A m \in 1..(k - n) : u[m] = copy[n + m]
  BY <1>1, <1>2, <1>3
<1>6. /\ s \o u \in Seq(Chunk) /\ Len(s \o u) = Len(s) + Len(u)
      /\ \A i \in 1..Len(s) + Len(u) : (s \o u)[i] = IF i <= Len(s) THEN s[i] ELSE u[i - Len(s)]
  BY <1>4, <1>5, ConcatProperties, Zenon
<1>7. t \in Seq(Chunk) /\ Len(t) = k - 1
      /\ \A i \in 1..(k - 1) : t[i] = IF i <= n - 1 THEN s[i] ELSE u[i - (n - 1)]
  <2>1. PICK a, b : a = Len(s) /\ b = Len(u)
    OBVIOUS
  <2>2. a = n - 1 /\ b = k - n /\ a + b = k - 1
    BY <2>1, <1>3, <1>4, <1>5
  <2>3. t = s \o u
    BY <1>2
  <2>4. /\ t \in Seq(Chunk) /\ Len(t) = a + b
        /\ \A i \in 1..(a + b) : t[i] = IF i <= a THEN s[i] ELSE u[i - a]
    BY <1>6, <2>1, <2>3, Zenon
  <2> QED BY <2>2, <2>4, Zenon
<1>8. ASSUME NEW i \in 1..(k - 1) PROVE \E m \in 1..k : t[i] = copy[m]
  <2>1. CASE i <= n - 1
    <3>1. i \in 1..(n - 1) /\ i \in 1..k
      BY <2>1, <1>3
    <3> QED BY <2>1, <3>1, <1>4, <1>7
  <2>2. CASE ~(i <= n - 1)
    <3>1. i - (n - 1) \in 1..(k - n) /\ n + (i - (n - 1)) = i + 1 /\ i + 1 \in 1..k
      BY <2>2, <1>3
    <3>2. t[i] = u[i - (n - 1)]
      BY <2>2, <1>7
    <3> QED BY <3>1, <3>2, <1>5
  <2> QED BY <2>1, <2>2
<1> QED BY <1>2, <1>7, <1>8 DEF ReleaseInv, SignedPast

LEMMA EditLogKeeps ==
  ASSUME ReleaseInv, EditLog
  PROVE  ReleaseInv'
<1>1. PICK n \in 1..Len(copy) :
       copy' \in {SubSeq(copy, 1, n - 1), SubSeq(copy, 1, n - 1) \o SubSeq(copy, n + 1, Len(copy)),
                  [copy EXCEPT ![n].body = "changed"], [copy EXCEPT ![n].body = "elided"]}
  BY DEF EditLog
<1>2. copy' \in Seq(Chunk) /\ \A m \in 1..Len(copy') : FromSource(copy'[m])
  <2>1. CASE copy' = SubSeq(copy, 1, n - 1)
    <3>1. copy \in Seq(Chunk)
      BY DEF ReleaseInv, ReleaseTypes
    <3>2. /\ copy' \in Seq(Chunk) /\ Len(copy') = n - 1
          /\ \A m \in 1..(n - 1) : copy'[m] = copy[m] /\ m \in 1..Len(copy)
      BY <2>1, <3>1
    <3> QED BY <3>2 DEF ReleaseInv, SignedPast
  <2>2. CASE copy' = SubSeq(copy, 1, n - 1) \o SubSeq(copy, n + 1, Len(copy))
    BY <2>2, GapType
  <2>3. CASE copy' = [copy EXCEPT ![n].body = "changed"]
    BY <2>3, BodyType
  <2>4. CASE copy' = [copy EXCEPT ![n].body = "elided"]
    BY <2>4, BodyType
  <2> QED BY <1>1, <2>1, <2>2, <2>3, <2>4
<1> QED BY <1>2, EditKeeps DEF EditLog, ReleaseInv, ReleaseTypes, SignedPast

LEMMA ForgeKeeps ==
  ASSUME ReleaseInv, ForgeAttestation
  PROVE  ReleaseInv'
<1>1. PICK k \in {"signer", "other"}, c \in Changes :
       /\ folder' = [folder EXCEPT ![c[1]] = c[2]]
       /\ json' = [json EXCEPT !.key = k, !.files = [p \in DOMAIN @ |-> folder'[p]]]
       /\ sig' = IF k = "other" THEN [by |-> k, doc |-> json'] ELSE sig
  BY DEF ForgeAttestation
<1>2. folder' \in [Paths -> Data]
  BY <1>1, ChangeType DEF ReleaseInv, ReleaseTypes
<1>3. PICK g, f : g = folder' /\ f = json.files
  OBVIOUS
<1>4. json \in Doc /\ f \in FileTable
  BY <1>3 DEF ReleaseInv, ReleaseTypes, Doc
<1>5. [p \in DOMAIN f |-> g[p]] \in FileTable
  BY <1>2, <1>3, <1>4, TableType
<1>6. json' = [json EXCEPT !.key = k, !.files = [p \in DOMAIN f |-> g[p]]]
  BY <1>1, <1>3
<1>7. json' \in Doc
  BY <1>4, <1>5, <1>6 DEF Doc, Keys
<1>8. sig' \in [by : Keys, doc : Doc] /\ (sig'.by = "signer" => sig'.doc \in signed)
  <2>1. CASE k = "other"
    BY <1>1, <1>7, <2>1 DEF Keys
  <2>2. CASE k # "other"
    BY <1>1, <2>2 DEF ReleaseInv, ReleaseTypes, SignedPast
  <2> QED BY <2>1, <2>2
<1> QED BY <1>2, <1>7, <1>8, EditKeeps DEF ForgeAttestation, ReleaseInv, ReleaseTypes, SignedPast

LEMMA ReplaceKeeps ==
  ASSUME ReleaseInv, ReplaceAttestation
  PROVE  ReleaseInv'
<1>1. PICK d \in signed \cup {NoDoc} :
       /\ json' \in {d, json}
       /\ sig' = IF d = NoDoc THEN NoSig ELSE [by |-> "signer", doc |-> d]
  BY DEF ReplaceAttestation
<1>2. d \in Doc /\ json' \in Doc
  BY <1>1, NoDocType DEF ReleaseInv, ReleaseTypes
<1>3. sig' \in [by : Keys, doc : Doc] /\ (sig'.by = "signer" => sig'.doc \in signed)
  <2>1. CASE d = NoDoc
    BY <1>1, <2>1, IdleType
  <2>2. CASE d # NoDoc
    BY <1>1, <1>2, <2>2 DEF Keys
  <2> QED BY <2>1, <2>2
<1> QED BY <1>2, <1>3, EditKeeps DEF ReplaceAttestation, ReleaseInv, ReleaseTypes, SignedPast

\* A step that changes nothing keeps the invariant.
LEMMA ReleaseStutters ==
  ASSUME ReleaseInv, UNCHANGED vars
  PROVE  ReleaseInv'
<1> USE DEF ReleaseInv
<1>1. ReleaseTypes'
  BY DEF ReleaseTypes, vars
<1>2. SignedPast'
  BY DEF SignedPast, FromSource, vars
<1> QED BY <1>1, <1>2

\* ReleaseInv holds in every state of every execution.
THEOREM ReleaseInvariance == ReleaseSpec => []ReleaseInv
<1>1. ReleaseInv /\ [ReleaseNext]_vars => ReleaseInv'
  <2> SUFFICES ASSUME ReleaseInv, [ReleaseNext]_vars PROVE ReleaseInv'
    OBVIOUS
  <2>1. ASSUME NEW e \in {"app", "log.sealed"}, WriterAppends(e) PROVE ReleaseInv'
    BY <2>1, AppendsKeeps DEF Events
  <2>2. ASSUME NEW s \in Specs, BuildBegin(s) PROVE ReleaseInv'
    BY <2>2, BeginKeeps
  <2>3. ASSUME NEW p \in Paths, HashFile(p) PROVE ReleaseInv'
    BY <2>3, HashKeeps
  <2>4. ASSUME NEW c \in Changes, EditFile(c[1], c[2]) PROVE ReleaseInv'
    BY <2>4, EditFileKeeps
  <2> QED BY <2>1, <2>2, <2>3, <2>4, RetireKeeps, CopyKeeps, RefusedKeeps, InstructionsKeeps,
             StatementKeeps, SignKeeps, JsonKeeps, SigKeeps, KillKeeps, EditLogKeeps, ForgeKeeps,
             ReplaceKeeps, ReleaseStutters DEF ReleaseNext
<1> QED BY ReleaseInitInv, <1>1, PTL DEF ReleaseSpec

\* The type invariant that the runs check.
THEOREM ReleaseTypeCorrect == ReleaseSpec => []ReleaseTypeOK
<1>1. ReleaseInv => ReleaseTypeOK
  BY DEF ReleaseInv, ReleaseTypes, SignedPast, ReleaseTypeOK, Builder, Data, Events
<1> QED BY <1>1, ReleaseInvariance, PTL

-----------------------------------------------------------------------------
(* What verify_release accepts. *)

\* An attestation that is not refused.
LEMMA NotRefused ==
  ASSUME NEW o, AttestationRefusal(o) = "none"
  PROVE  /\ o.pin # "none" => sig.by = o.pin
         /\ KnowsRetirement(o) => json \in retirement.releases
         /\ sig.doc = json
         /\ json.key = sig.by
  BY DEF AttestationRefusal, NamesItsSigner

\* A file without a finding.
LEMMA FileAsAttested ==
  ASSUME NEW p, FileFinding(p) = "none"
  PROVE  folder[p] = json.files[p]
  BY DEF FileFinding, Digest

\* A copied log without a finding: it starts with the header and reaches the attested
\* head, and every chunk that is not a torn end is the record of its place.
LEMMA LogAsAttested ==
  ASSUME NEW o, LogFindings(o) = {}
  PROVE  /\ copy # << >> /\ copy[1] = HeaderChunk
         /\ ~(Len(copy) - 1 < json.head)
         /\ \A n \in 2..Len(copy) : copy[n].event = "torn" => ~(n - 1 <= json.head)
         /\ \A n \in 2..Len(copy) : copy[n].event # "torn" =>
              /\ copy[n].id = n - 1
              /\ copy[n].body # "changed"
              /\ ~(copy[n].event = "log.sealed" /\ copy[n].body = "elided")
              /\ KnowsRetirement(o) => ~(n - 1 > retirement.head)
  BY DEF LogFindings

\* A verdict of Verified leaves no violation of any kind.
LEMMA NoViolation ==
  ASSUME NEW o, Verdict(o) = "Verified"
  PROVE  /\ AttestationRefusal(o) = "none"
         /\ \A p \in DOMAIN json.files : FileFinding(p) = "none"
         /\ json.head > 0 => LogFindings(o) = {}
         /\ o.allow \/ \A p \in Paths : ~Unattested(p)
<1>1. Violations(o) = {}
  BY DEF Verdict
<1>2. AttestationRefusal(o) = "none"
  BY <1>1 DEF Violations
<1> QED BY <1>1, <1>2 DEF Violations

\* Whatever builds, kills and edits came before, what verifies under the signer's pin is
\* what the signer signed, file for file and record for record.
THEOREM VerifiedCorrect == ReleaseSpec => []VerifiedIsSigned
<1>1. ReleaseInv => VerifiedIsSigned
  <2> SUFFICES ASSUME ReleaseInv, NEW o \in Options, Verdict(o) = "Verified", o.pin = "signer"
               PROVE  /\ json \in signed
                      /\ \A p \in DOMAIN json.files : folder[p] = json.files[p]
                      /\ \A n \in 1..json.head :
                           copy[n+1] \in {Record(n, "whole"), Record(n, "elided")}
                             /\ (source[n] = "log.sealed" => copy[n+1].body = "whole")
                      /\ o.allow \/ Present \subseteq DOMAIN json.files \cup {Litter, StatementPath}
    BY DEF VerifiedIsSigned
  <2>1. json \in signed
    BY NoViolation, NotRefused DEF ReleaseInv, SignedPast
  <2>2. \A p \in DOMAIN json.files : folder[p] = json.files[p]
    BY NoViolation, FileAsAttested
  <2>3. ASSUME NEW n \in 1..json.head
        PROVE  /\ copy[n+1] \in {Record(n, "whole"), Record(n, "elided")}
               /\ source[n] = "log.sealed" => copy[n+1].body = "whole"
    <3>1. PICK k, h, m : k = Len(copy) /\ h = json.head /\ m = n + 1
      OBVIOUS
    <3>2. k \in Nat /\ h \in Nat /\ copy \in Seq(Chunk)
      BY <3>1 DEF ReleaseInv, ReleaseTypes, Doc
    <3>3. h > 0 /\ n \in 1..h
      BY <3>1, <3>2
    <3>4. LogFindings(o) = {}
      BY <3>1, <3>3, NoViolation
    <3>5. ~(k - 1 < h)
      BY <3>1, <3>4, LogAsAttested
    <3>6. m \in 2..k /\ m \in 1..k /\ m - 1 = n /\ m - 1 <= h
      BY <3>1, <3>2, <3>3, <3>5
    <3>7. PICK c : c = copy[m]
      OBVIOUS
    <3>8. c.event # "torn"
      BY <3>1, <3>4, <3>6, <3>7, LogAsAttested
    <3>9. /\ c.id = n /\ c.body # "changed"
          /\ ~(c.event = "log.sealed" /\ c.body = "elided")
      BY <3>1, <3>4, <3>6, <3>7, <3>8, LogAsAttested
    <3>10. c \in Chunk /\ FromSource(c)
      BY <3>1, <3>2, <3>6, <3>7 DEF ReleaseInv, SignedPast
    <3>11. c.event = source[n] /\ c.body \in {"whole", "elided"}
      BY <3>3, <3>9, <3>10 DEF FromSource, Chunk
    <3>12. c = [id |-> n, event |-> source[n], body |-> c.body]
      BY <3>9, <3>10, <3>11 DEF Chunk
    <3>13. c \in {Record(n, "whole"), Record(n, "elided")}
      BY <3>11, <3>12 DEF Record
    <3> QED BY <3>1, <3>7, <3>9, <3>11, <3>13
  <2>4. o.allow \/ Present \subseteq DOMAIN json.files \cup {Litter, StatementPath}
    BY NoViolation DEF Unattested, Present
  <2> QED BY <2>1, <2>2, <2>3, <2>4
<1> QED BY <1>1, ReleaseInvariance, PTL

\* A verifier that has the transition accepts neither a release nor a record that the
\* retired key signed after it.
THEOREM RetirementCorrect == ReleaseSpec => []RetirementHolds
<1>1. ReleaseInv => RetirementHolds
  <2> SUFFICES ASSUME ReleaseInv, NEW o \in Options, Verdict(o) = "Verified", KnowsRetirement(o)
               PROVE  /\ json \in retirement.releases
                      /\ json.head <= retirement.head
                      /\ json.head > 0 => \A n \in 2..Len(copy) :
                                           copy[n].event = "torn" \/ n - 1 <= retirement.head
    BY DEF RetirementHolds
  <2>1. json \in retirement.releases
    BY NoViolation, NotRefused
  <2>2. json.head <= retirement.head
    BY <2>1 DEF ReleaseInv, SignedPast
  <2>3. ASSUME json.head > 0, NEW n \in 2..Len(copy), copy[n].event # "torn"
        PROVE  n - 1 <= retirement.head
    <3>1. ~(n - 1 > retirement.head)
      BY <2>3, NoViolation, LogAsAttested
    <3>2. retirement.head \in Nat
      BY DEF ReleaseInv, ReleaseTypes
    <3> QED BY <3>1, <3>2
  <2> QED BY <2>1, <2>2, <2>3
<1> QED BY <1>1, ReleaseInvariance, PTL

-----------------------------------------------------------------------------
(* A build that nobody disturbs. *)

\* The copy is the header and the records up to h, bodies withheld where they may be.
CopyGood(h) ==
  /\ Len(copy) = h + 1 /\ copy[1] = HeaderChunk
  /\ \A n \in 2..(h + 1) : /\ copy[n].id = n - 1
                           /\ copy[n].event \in Events
                           /\ copy[n].body \in {"whole", "elided"}
                           /\ copy[n].event = "log.sealed" => copy[n].body = "whole"

\* The folder holds the files of the table.
FilesGood(f) == \A q \in DOMAIN f : folder[q] = f[q] /\ f[q] \notin {Absent, Link}

\* What a build that nobody disturbed has established when it reaches each step.
Progress ==
  /\ build.pc = "copy" => CopyGood(Len(copy) - 1)
  /\ build.pc \notin {"idle", "copy"} /\ build.head > 0 => CopyGood(build.head)
  /\ build.pc \in {"copy", "instructions", "statement", "statement_sig"} =>
       DOMAIN build.doc.files = {}
  /\ build.pc \in {"hash", "json", "sig"} => FilesGood(build.doc.files)
  /\ build.pc \in {"json", "sig"} => build.doc.key = "signer" /\ build.doc.head = build.head
  /\ build.pc = "sig" => json = build.doc

\* What it leaves behind.
Finished ==
  /\ build.pc = "idle"
  /\ json = sig.doc /\ sig.by = "signer" /\ json.key = "signer"
  /\ json.head > 0 => CopyGood(json.head)
  /\ FilesGood(json.files)

BuiltInv ==
  /\ built = "building" => Progress
  /\ built = "ok" => Finished

\* A step that leaves the builder and the folder alone leaves both alone.
LEMMA BuiltStutters ==
  ASSUME BuiltInv, UNCHANGED <<folder, copy, json, sig, build, built>>
  PROVE  BuiltInv'
<1>1. Progress => Progress'
  BY DEF Progress, CopyGood, FilesGood
<1>2. Finished => Finished'
  BY DEF Finished, CopyGood, FilesGood
<1> QED BY <1>1, <1>2 DEF BuiltInv

\* A build that failed or was disturbed promises nothing.
LEMMA BuiltLost ==
  ASSUME built' = "no"
  PROVE  BuiltInv'
  BY DEF BuiltInv

LEMMA BuiltBegins ==
  ASSUME ReleaseInv, BuiltInv, NEW s \in Specs, BuildBegin(s)
  PROVE  BuiltInv'
<1> DEFINE h == IF s.log THEN HeadFor(s) ELSE 0
           pc == IF s.log THEN "copy" ELSE "instructions"
<1>1. build' = [Idle EXCEPT !.pc = pc, !.spec = s, !.head = h]
  BY DEF BuildBegin
<1>2. built' = "building"
  BY DEF BuildBegin
<1>3. pc \in {"copy", "instructions"} /\ (pc = "copy" => s.log) /\ (pc # "copy" => h = 0)
  OBVIOUS
<1> HIDE DEF h, pc
<1>4. build'.pc = pc /\ build'.head = h /\ build'.doc = NoDoc
  BY <1>1 DEF Idle
<1>5. DOMAIN NoDoc.files = {}
  BY DEF NoDoc
<1>6. ASSUME pc = "copy" PROVE CopyGood(Len(copy) - 1)'
  <2>1. copy' = << HeaderChunk >>
    BY <1>3, <1>6 DEF BuildBegin
  <2>2. Len(copy') = 1 /\ copy'[1] = HeaderChunk
    BY <2>1
  <2>3. PICK k : k = Len(copy')
    OBVIOUS
  <2>4. k = (k - 1) + 1 /\ 2..((k - 1) + 1) = {}
    BY <2>2, <2>3
  <2> QED BY <2>2, <2>3, <2>4 DEF CopyGood
<1>7. Progress'
  BY <1>3, <1>4, <1>5, <1>6 DEF Progress
<1> QED BY <1>2, <1>7 DEF BuiltInv

LEMMA BuiltCopies ==
  ASSUME ReleaseInv, BuiltInv, CopyRecord
  PROVE  BuiltInv'
<1> DEFINE b == IF Len(copy) \in build.spec.elide THEN "elided" ELSE "whole"
           pc == IF Len(copy) = build.head THEN "instructions" ELSE "copy"
<1>1. PICK n, h, c : n = Len(copy) /\ h = build.head /\ c = Record(n, b)
  OBVIOUS
<1>2. build.pc = "copy" /\ copy' = Append(copy, c) /\ build' = [build EXCEPT !.pc = pc]
  BY <1>1 DEF CopyRecord
<1>3. /\ b \in {"whole", "elided"} /\ pc \in {"instructions", "copy"} /\ (pc # "copy" => n = h)
      /\ source[n] = "log.sealed" => b = "whole"
  BY <1>1 DEF CopyRecord
<1> HIDE DEF b, pc
<1>4. n \in Nat /\ h \in Nat /\ n \in 1..h /\ h <= Len(source)
  BY <1>1, <1>2 DEF ReleaseInv, SignedPast, ReleaseTypes, Builder
<1>5. n \in 1..Len(source) /\ source \in Seq(Events)
  BY <1>4 DEF ReleaseInv, ReleaseTypes
<1>6. c \in Chunk /\ c.id = n /\ c.event \in Events /\ c.body = b /\ c.event = source[n]
  BY <1>1, <1>3, <1>5, RecordType DEF Record
<1>7. /\ Len(copy') = n + 1 /\ copy'[n + 1] = c
      /\ \A m \in 1..n : copy'[m] = copy[m]
  BY <1>1, <1>2, <1>6 DEF ReleaseInv, ReleaseTypes
<1>8. build'.pc = pc /\ build'.head = h /\ build'.doc = build.doc
  BY <1>1, <1>2 DEF ReleaseInv, ReleaseTypes, Builder
<1>9. ASSUME built = "building" PROVE Progress'
  <2>1. CopyGood(n - 1)
    BY <1>1, <1>2, <1>9 DEF BuiltInv, Progress
  <2>2. /\ copy[1] = HeaderChunk
        /\ \A m \in 2..n : /\ copy[m].id = m - 1
                           /\ copy[m].event \in Events
                           /\ copy[m].body \in {"whole", "elided"}
                           /\ copy[m].event = "log.sealed" => copy[m].body = "whole"
    BY <2>1, <1>4 DEF CopyGood
  <2>3. copy'[1] = HeaderChunk
    BY <2>2, <1>4, <1>7
  <2>4. ASSUME NEW m \in 2..(n + 1)
        PROVE  /\ copy'[m].id = m - 1
               /\ copy'[m].event \in Events
               /\ copy'[m].body \in {"whole", "elided"}
               /\ copy'[m].event = "log.sealed" => copy'[m].body = "whole"
    <3>1. CASE m = n + 1
      BY <3>1, <1>3, <1>4, <1>6, <1>7
    <3>2. CASE m # n + 1
      <4>1. m \in 1..n /\ m \in 2..n
        BY <3>2, <1>4
      <4> QED BY <4>1, <1>7, <2>2
    <3> QED BY <3>1, <3>2
  <2>5. CopyGood(n)'
    BY <1>7, <2>3, <2>4 DEF CopyGood
  <2>6. (Len(copy) - 1)' = n
    BY <1>4, <1>7
  <2>7. CopyGood(Len(copy) - 1)'
    BY <2>5, <2>6 DEF CopyGood
  <2>8. pc # "copy" => CopyGood(build.head)'
    BY <2>5, <1>3, <1>8 DEF CopyGood
  <2>9. DOMAIN build'.doc.files = {}
    BY <1>2, <1>8, <1>9 DEF BuiltInv, Progress
  <2> QED BY <1>3, <1>8, <2>7, <2>8, <2>9 DEF Progress
<1>10. built # "ok" /\ UNCHANGED built
  BY <1>2 DEF BuiltInv, Finished, CopyRecord, past
<1> QED BY <1>9, <1>10 DEF BuiltInv

\* The files a build adds do not disturb its digests: none is taken yet.
LEMMA BuiltFiles ==
  ASSUME BuiltInv, build.pc \in {"instructions", "statement", "statement_sig"},
         build'.pc \in {"statement", "statement_sig", "hash"},
         build'.head = build.head, build'.doc = build.doc,
         UNCHANGED <<copy, json, sig, built>>
  PROVE  BuiltInv'
<1>1. ASSUME built = "building" PROVE Progress'
  <2>1. DOMAIN build.doc.files = {} /\ (build.head > 0 => CopyGood(build.head))
    BY <1>1 DEF BuiltInv, Progress
  <2>2. build'.head > 0 => CopyGood(build.head)'
    BY <2>1 DEF CopyGood
  <2>3. DOMAIN build'.doc.files = {}
    BY <2>1
  <2>4. FilesGood(build.doc.files)'
    BY <2>3 DEF FilesGood
  <2> QED BY <2>2, <2>3, <2>4 DEF Progress
<1>2. built # "ok"
  BY DEF BuiltInv, Finished
<1> QED BY <1>1, <1>2 DEF BuiltInv

LEMMA BuiltInstructions ==
  ASSUME ReleaseInv, BuiltInv, WriteInstructions
  PROVE  BuiltInv'
<1> DEFINE pc == IF build.spec.statement /\ retirement.done THEN "statement" ELSE "hash"
<1>1. /\ build' = [build EXCEPT !.pc = pc, !.todo = build.spec.files \cup {Instructions}]
      /\ pc \in {"statement", "hash"}
  BY DEF WriteInstructions
<1> HIDE DEF pc
<1>2. build'.pc = pc /\ build'.head = build.head /\ build'.doc = build.doc
  BY <1>1 DEF ReleaseInv, ReleaseTypes, Builder
<1> QED BY <1>1, <1>2, BuiltFiles DEF WriteInstructions, past

LEMMA BuiltStatement ==
  ASSUME ReleaseInv, BuiltInv, CopyStatement
  PROVE  BuiltInv'
<1> DEFINE pc == IF build.pc = "statement" THEN "statement_sig" ELSE "hash"
<1>1. build' = [build EXCEPT !.pc = pc] /\ pc \in {"statement_sig", "hash"}
  BY DEF CopyStatement, ReleaseInv, ReleaseTypes, Builder
<1> HIDE DEF pc
<1>2. build'.pc = pc /\ build'.head = build.head /\ build'.doc = build.doc
  BY <1>1 DEF ReleaseInv, ReleaseTypes, Builder
<1> QED BY <1>1, <1>2, BuiltFiles DEF CopyStatement, past

LEMMA BuiltHashes ==
  ASSUME ReleaseInv, BuiltInv, NEW p \in Paths, HashFile(p)
  PROVE  BuiltInv'
<1>1. CASE folder[p] \in {Absent, Link}
  BY <1>1, BuiltLost DEF HashFile, Fail
<1>2. CASE folder[p] \notin {Absent, Link}
  <2>1. PICK f, g : f = build.doc.files /\ g = build'.doc.files
    OBVIOUS
  <2>2. /\ build.pc = "hash" /\ build'.pc = "hash" /\ build'.head = build.head
        /\ DOMAIN g = DOMAIN f \cup {p} /\ g[p] = folder[p]
        /\ \A q \in DOMAIN f : q # p => g[q] = f[q]
    BY <1>2, <2>1, HashDoc DEF HashFile
  <2>3. UNCHANGED <<folder, copy, json, sig, built>>
    BY <1>2 DEF HashFile, bundle
  <2>4. ASSUME built = "building" PROVE Progress'
    <3>1. FilesGood(f) /\ (build.head > 0 => CopyGood(build.head))
      BY <2>1, <2>2, <2>4 DEF BuiltInv, Progress
    <3>2. FilesGood(g)'
      BY <3>1, <2>2, <2>3, <1>2 DEF FilesGood
    <3>3. FilesGood(build.doc.files)'
      BY <3>2, <2>1 DEF FilesGood
    <3>4. build'.head > 0 => CopyGood(build.head)'
      BY <3>1, <2>2, <2>3 DEF CopyGood
    <3> QED BY <3>3, <3>4, <2>2 DEF Progress
  <2>5. built # "ok"
    BY <2>2 DEF BuiltInv, Finished
  <2> QED BY <2>3, <2>4, <2>5 DEF BuiltInv
<1> QED BY <1>1, <1>2

LEMMA BuiltSigns ==
  ASSUME ReleaseInv, BuiltInv, SignAttestation
  PROVE  BuiltInv'
<1>1. CASE Fail
  BY <1>1, BuiltLost DEF Fail
<1>2. CASE ~Fail
  <2>1. PICK d : d = [build.doc EXCEPT !.key = "signer", !.id = build.spec.id, !.head = build.head]
    OBVIOUS
  <2>2. build.pc = "hash" /\ build' = [build EXCEPT !.pc = "json", !.doc = d]
        /\ UNCHANGED <<folder, copy, json, sig, built>>
    BY <1>2, <2>1 DEF SignAttestation, bundle
  <2>3. /\ d.key = "signer" /\ d.head = build.head /\ d.files = build.doc.files
        /\ build'.pc = "json" /\ build'.head = build.head /\ build'.doc = d
    BY <2>1, <2>2, SignedDoc
  <2>4. ASSUME built = "building" PROVE Progress'
    <3>1. FilesGood(build.doc.files) /\ (build.head > 0 => CopyGood(build.head))
      BY <2>2, <2>4 DEF BuiltInv, Progress
    <3>2. FilesGood(build.doc.files)'
      BY <3>1, <2>2, <2>3 DEF FilesGood
    <3>3. build'.head > 0 => CopyGood(build.head)'
      BY <3>1, <2>2, <2>3 DEF CopyGood
    <3> QED BY <3>2, <3>3, <2>3 DEF Progress
  <2>5. built # "ok"
    BY <2>2 DEF BuiltInv, Finished
  <2> QED BY <2>2, <2>4, <2>5 DEF BuiltInv
<1> QED BY <1>1, <1>2

LEMMA BuiltWritesJson ==
  ASSUME ReleaseInv, BuiltInv, WriteJson
  PROVE  BuiltInv'
<1>1. build'.pc = "sig" /\ build'.head = build.head /\ build'.doc = build.doc
  BY DEF ReleaseInv, ReleaseTypes, WriteJson, Builder
<1>2. ASSUME built = "building" PROVE Progress'
  <2>1. /\ FilesGood(build.doc.files) /\ (build.head > 0 => CopyGood(build.head))
        /\ build.doc.key = "signer" /\ build.doc.head = build.head
    BY <1>2 DEF BuiltInv, Progress, WriteJson
  <2>2. FilesGood(build.doc.files)'
    BY <2>1, <1>1 DEF FilesGood, WriteJson
  <2>3. build'.head > 0 => CopyGood(build.head)'
    BY <2>1, <1>1 DEF CopyGood, WriteJson
  <2> QED BY <1>1, <2>1, <2>2, <2>3 DEF Progress, WriteJson
<1>3. built # "ok" /\ UNCHANGED built
  BY DEF BuiltInv, Finished, WriteJson, past
<1> QED BY <1>2, <1>3 DEF BuiltInv

LEMMA BuiltWritesSig ==
  ASSUME ReleaseInv, BuiltInv, WriteSig
  PROVE  BuiltInv'
<1>1. build'.pc = "idle"
  BY IdleType DEF WriteSig
<1>2. ASSUME built = "building" PROVE Finished'
  <2>1. /\ FilesGood(build.doc.files) /\ (build.head > 0 => CopyGood(build.head))
        /\ build.doc.key = "signer" /\ build.doc.head = build.head /\ json = build.doc
    BY <1>2 DEF BuiltInv, Progress, WriteSig
  <2>2. json' = json /\ sig'.by = "signer" /\ sig'.doc = json
    BY <2>1 DEF WriteSig
  <2>3. FilesGood(json.files)'
    BY <2>1, <2>2 DEF FilesGood, WriteSig
  <2>4. json'.head > 0 => CopyGood(json.head)'
    BY <2>1, <2>2 DEF CopyGood, WriteSig
  <2> QED BY <1>1, <2>1, <2>2, <2>3, <2>4 DEF Finished
<1>3. built' # "building" /\ (built # "building" => built' # "ok")
  BY DEF WriteSig
<1> QED BY <1>2, <1>3 DEF BuiltInv

\* BuiltInv holds in every state of every execution.
THEOREM BuiltInvariance == ReleaseSpec => []BuiltInv
<1>1. ReleaseInit => BuiltInv
  BY DEF ReleaseInit, BuiltInv
<1>2. ReleaseInv /\ BuiltInv /\ [ReleaseNext]_vars => BuiltInv'
  <2> SUFFICES ASSUME ReleaseInv, BuiltInv, [ReleaseNext]_vars PROVE BuiltInv'
    OBVIOUS
  <2>1. ASSUME NEW e \in {"app", "log.sealed"}, WriterAppends(e) PROVE BuiltInv'
    BY <2>1, BuiltStutters DEF WriterAppends, bundle, past
  <2>2. ASSUME NEW s \in Specs, BuildBegin(s) PROVE BuiltInv'
    BY <2>2, BuiltBegins
  <2>3. ASSUME NEW p \in Paths, HashFile(p) PROVE BuiltInv'
    BY <2>3, BuiltHashes
  <2>4. CASE Retire \/ UNCHANGED vars
    BY <2>4, BuiltStutters DEF Retire, bundle, past, vars
  <2>5. CASE CopyRefused \/ Kill
    BY <2>5, BuiltLost DEF CopyRefused, Kill, Fail
  <2>6. CASE (\E c \in Changes : EditFile(c[1], c[2])) \/ EditLog \/ ForgeAttestation
             \/ ReplaceAttestation
    BY <2>6, BuiltLost DEF EditFile, EditLog, ForgeAttestation, ReplaceAttestation, Edited
  <2> QED BY <2>1, <2>2, <2>3, <2>4, <2>5, <2>6, BuiltCopies, BuiltInstructions, BuiltStatement,
             BuiltSigns, BuiltWritesJson, BuiltWritesSig DEF ReleaseNext
<1> QED BY <1>1, <1>2, ReleaseInvariance, PTL DEF ReleaseSpec

\* A log copied by an undisturbed build gives verify_release nothing to object to.
LEMMA GoodLog ==
  ASSUME NEW o, o.pin # "other", json.head \in Nat, CopyGood(json.head), ~KnowsRetirement(o)
  PROVE  LogFindings(o) = {}
<1>1. PICK h, k : h = json.head /\ k = Len(copy)
  OBVIOUS
<1>2. h \in Nat /\ k = h + 1 /\ copy[1] = HeaderChunk
  BY <1>1 DEF CopyGood
<1>3. \A n \in 2..k : /\ copy[n].id = n - 1 /\ copy[n].event # "torn" /\ copy[n].body # "changed"
                      /\ ~(copy[n].event = "log.sealed" /\ copy[n].body = "elided")
  BY <1>1, <1>2 DEF CopyGood, Events
<1>4. ~(k - 1 < h)
  BY <1>2
<1>5. copy # << >>
  <2>1. k # 0 /\ Len(<< >>) = 0
    BY <1>2
  <2> QED BY <2>1, <1>1
<1> QED BY <1>1, <1>2, <1>3, <1>4, <1>5 DEF LogFindings

\* What write returned Ok for verifies as long as nobody changes the folder, wherever no
\* retirement of its key is applied, and its log ends at the attested head.
THEOREM BuiltCorrect == ReleaseSpec => []BuiltVerifies
<1>1. ReleaseInv /\ BuiltInv => BuiltVerifies
  <2> SUFFICES ASSUME ReleaseInv, BuiltInv, built = "ok"
               PROVE  /\ json.head > 0 => Len(copy) = json.head + 1
                      /\ \A o \in Options :
                           o.pin # "other" /\ o.expect \in {Absent, json.id}
                             /\ ~KnowsRetirement(o) =>
                             Violations(o) \subseteq {"UnattestedFile"} \cup
                               (IF folder[Twin] # Absent THEN {"FileAltered"} ELSE {})
    BY DEF BuiltVerifies
  <2>1. Finished
    BY DEF BuiltInv
  <2>2. json.head > 0 => Len(copy) = json.head + 1
    BY <2>1 DEF Finished, CopyGood
  <2>3. ASSUME NEW o \in Options, o.pin # "other", o.expect \in {Absent, json.id},
               ~KnowsRetirement(o)
        PROVE  Violations(o) \subseteq {"UnattestedFile"} \cup
                 (IF folder[Twin] # Absent THEN {"FileAltered"} ELSE {})
    <3>1. AttestationRefusal(o) = "none"
      <4>1. o.pin # "none" => o.pin = "signer"
        BY <2>3, ReleaseAssumption
      <4>2. json # NoDoc /\ sig # NoSig
        BY <2>1, NoDocType, IdleType DEF Finished
      <4> QED BY <2>1, <2>3, <4>1, <4>2 DEF AttestationRefusal, NamesItsSigner, Finished
    <3>2. ASSUME NEW p \in DOMAIN json.files
          PROVE  \/ FileFinding(p) = "none"
                 \/ FileFinding(p) = "FileAltered" /\ folder[Twin] # Absent
      BY <2>1 DEF Finished, FilesGood, FileFinding, Digest
    <3>3. json.head > 0 => LogFindings(o) = {}
      BY <2>1, <2>3, GoodLog DEF Finished, ReleaseInv, ReleaseTypes, Doc
    <3> QED BY <3>1, <3>2, <3>3 DEF Violations
  <2> QED BY <2>2, <2>3
<1> QED BY <1>1, ReleaseInvariance, BuiltInvariance, PTL
=============================================================================
