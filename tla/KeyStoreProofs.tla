--------------------------- MODULE KeyStoreProofs ---------------------------
(***************************************************************************)
(* Theorems about KeyStore: for any number of processes, seeds and calls   *)
(* no stored key is overwritten, and the public key file ends up current.  *)
(***************************************************************************)
EXTENDS KeyStore, FiniteSetTheorems, TLAPS

USE KeyStoreAssumption

-----------------------------------------------------------------------------
(* The inductive invariant. *)

\* What a process keeps between two system calls.
ProcType ==
  [pc : KeySteps, op : Ops \cup {"none", "create", "read_back"},
   key : Seeds \cup {None}, fd : Inodes \cup {0}]

\* The steps of a process that has a key in hand.
PubSteps == {"pub_read", "pub_create", "pub_write", "pub_rename", "return"}

\* Who holds the lock: only load reads the item without it.
Locked(r) ==
  \/ r.pc \in {"set", "delete", "pub_remove"}
  \/ r.pc = "get" /\ r.op # "load"

ProcInv ==
  /\ proc \in [Procs -> ProcType]
  /\ handle \in [Procs -> Seeds \cup {None}]
  /\ drawn \subseteq Seeds
  /\ \A p \in Procs : Locked(proc[p]) => lock = p
  /\ \A p \in Procs : proc[p].pc = "pub_write" => proc[p].fd \in Inodes

\* A key in hand was in the keychain and is there still unless it was deleted.
HandInv ==
  \A p \in Procs : proc[p].pc \in PubSteps =>
    proc[p].key \in Seeds /\ proc[p].key \in {item} \cup deleted

KeyInv == KeyTypeOK /\ ProcInv /\ HandInv /\ NoSeedLost

-----------------------------------------------------------------------------

\* There is always an inode for a new temporary file: each process has at most
\* one open.
LEMMA FreeInode ==
  ASSUME ProcInv, tmp = 0, pub \in Inodes \cup {0}
  PROVE  (CHOOSE i \in Free : TRUE) \in Inodes \ {pub}
<1> DEFINE n == Cardinality(Procs)
           fds == {proc[q].fd : q \in Procs}
           used == fds \cup {pub}
<1>1. n \in Nat
  BY FS_CardinalityType
<1>2. IsFiniteSet(fds) /\ Cardinality(fds) <= n
  <2> DEFINE f == [q \in Procs |-> proc[q].fd]
  <2>1. f \in Surjection(Procs, fds)
    BY DEF Surjection
  <2> QED BY <2>1, FS_Surjection
<1>3. IsFiniteSet(used) /\ Cardinality(used) <= n + 1
  <2>1. Cardinality(fds) \in Nat
    BY <1>2, FS_CardinalityType
  <2> HIDE DEF fds, n
  <2>2. IsFiniteSet(used) /\ Cardinality(used) <= Cardinality(fds) + 1
    <3>1. /\ IsFiniteSet(used)
          /\ Cardinality(used) = Cardinality(fds) \/ Cardinality(used) = Cardinality(fds) + 1
      BY <1>2, FS_AddElement, Zenon
    <3> HIDE DEF used
    <3> QED BY <2>1, <3>1
  <2> HIDE DEF used
  <2> QED BY <1>1, <1>2, <2>1, <2>2, FS_CardinalityType
<1>4. IsFiniteSet(Inodes) /\ Cardinality(Inodes) = n + 2
  <2>1. 1 \in Int /\ n + 2 \in Int
    BY <1>1
  <2> QED BY <1>1, <2>1, FS_Interval DEF Inodes
<1>5. Inodes \ used # {}
  <2> SUFFICES ASSUME Inodes \subseteq used PROVE FALSE
    OBVIOUS
  <2>1. Cardinality(Inodes) <= Cardinality(used)
    <3> HIDE DEF used, n
    <3> QED BY <1>3, FS_Subset
  <2>2. Cardinality(used) \in Nat
    BY <1>3, FS_CardinalityType
  <2> HIDE DEF used, n
  <2> QED BY <1>1, <1>3, <1>4, <2>1, <2>2
<1>6. Inodes \ used \subseteq Free \cup {0} /\ 0 \notin Inodes
  BY <1>1 DEF Free, Inodes
<1>7. PICK i : i \in Free
  BY <1>5, <1>6
<1>8. (CHOOSE j \in Free : TRUE) \in Free
  BY <1>7
<1> QED BY <1>8 DEF Free

LEMMA InitKeyInv == KeyInit => KeyInv
<1> SUFFICES ASSUME KeyInit PROVE KeyInv
  OBVIOUS
<1>0. Cardinality(Procs) \in Nat
  BY FS_CardinalityType
<1>1. KeyTypeOK
  BY <1>0 DEF KeyInit, KeyTypeOK, Resting, Inodes, KeySteps, Empty
<1>2. ProcInv
  BY DEF KeyInit, ProcInv, ProcType, Resting, Locked, KeySteps
<1>3. HandInv /\ NoSeedLost
  BY DEF KeyInit, HandInv, NoSeedLost, PubSteps, Resting
<1> QED BY <1>1, <1>2, <1>3 DEF KeyInv

-----------------------------------------------------------------------------
(* Every step keeps it. *)

\* A call begins.
LEMMA CallKeeps ==
  ASSUME KeyInv, NEW p \in Procs, NEW op \in Ops, Call(p, op)
  PROVE  KeyInv'
<1> DEFINE r == [Resting EXCEPT !.op = op, !.pc = IF op = "load" THEN "get" ELSE "lock"]
<1>1. /\ proc' = [proc EXCEPT ![p] = r]
      /\ UNCHANGED <<item, lock, pub, tmp, text, handle, drawn, deleted>>
  BY DEF Call, files, hist
<1>2. r \in ProcType /\ r.pc \in {"get", "lock"} /\ ~Locked(r)
  BY DEF ProcType, Resting, KeySteps, Locked
<1> HIDE DEF r
<1>3. proc' \in [Procs -> ProcType] /\ proc'[p] = r /\ \A q \in Procs : q # p => proc'[q] = proc[q]
  BY <1>1, <1>2 DEF KeyInv, ProcInv
<1>4. ProcInv' /\ KeyTypeOK'
  BY <1>1, <1>2, <1>3 DEF KeyInv, KeyTypeOK, ProcInv, Locked, KeySteps
<1>5. HandInv' /\ NoSeedLost'
  BY <1>1, <1>2, <1>3 DEF KeyInv, HandInv, NoSeedLost, PubSteps
<1> QED BY <1>4, <1>5 DEF KeyInv

\* A call ends, by an error, with a key or because the process died.
LEMMA ReturnKeeps ==
  ASSUME KeyInv, NEW p \in Procs, Return(p),
         UNCHANGED <<item, drawn, deleted>>,
         pub' \in {pub, 0}, UNCHANGED <<tmp, text>>,
         handle' \in [Procs -> Seeds \cup {None}],
         \A q \in Procs : handle'[q] \in {None, item} \cup deleted
  PROVE  KeyInv'
<1>1. /\ Resting \in ProcType /\ ~Locked(Resting) /\ Resting.pc = "idle"
  BY DEF ProcType, Resting, KeySteps, Locked
<1>2. /\ proc' \in [Procs -> ProcType] /\ proc'[p] = Resting
      /\ \A q \in Procs : q # p => proc'[q] = proc[q]
      /\ lock' = IF lock = p THEN None ELSE lock
  BY <1>1 DEF KeyInv, ProcInv, Return
<1>3. ProcInv' /\ KeyTypeOK'
  BY <1>1, <1>2 DEF KeyInv, KeyTypeOK, ProcInv, Locked, KeySteps
<1>4. HandInv' /\ NoSeedLost'
  BY <1>1, <1>2 DEF KeyInv, HandInv, NoSeedLost, PubSteps
<1> QED BY <1>3, <1>4 DEF KeyInv

\* A process goes on with a key it already has.
LEMMA PubStepKeeps ==
  ASSUME KeyInv, NEW p \in Procs, NEW r \in ProcType,
         proc[p].pc \in PubSteps, proc' = [proc EXCEPT ![p] = r],
         r.pc \in PubSteps, r.key = proc[p].key, r.pc = "pub_write" => r.fd \in Inodes,
         UNCHANGED <<item, lock, handle, drawn, deleted>>,
         pub' \in Inodes \cup {0}, tmp' \in Inodes \cup {0},
         text' \in [Inodes -> Seeds \cup {Old, Empty}]
  PROVE  KeyInv'
<1>1. proc' \in [Procs -> ProcType] /\ proc'[p] = r /\ \A q \in Procs : q # p => proc'[q] = proc[q]
  BY DEF KeyInv, ProcInv
<1>2. ~Locked(r) /\ r.pc \in KeySteps
  BY DEF Locked, PubSteps, ProcType
<1>3. ProcInv' /\ KeyTypeOK'
  BY <1>1, <1>2 DEF KeyInv, KeyTypeOK, ProcInv, Locked, KeySteps, PubSteps
<1>4. HandInv' /\ NoSeedLost'
  BY <1>1 DEF KeyInv, HandInv, NoSeedLost, PubSteps
<1> QED BY <1>3, <1>4 DEF KeyInv

LEMMA AcquireLockKeeps ==
  ASSUME KeyInv, NEW p \in Procs, AcquireLock(p)
  PROVE  KeyInv'
<1> DEFINE r == [proc[p] EXCEPT !.pc = IF proc[p].op = "delete" THEN "delete" ELSE "get"]
<1>0. proc[p] \in ProcType
  BY DEF KeyInv, ProcInv
<1>1. /\ proc' = [proc EXCEPT ![p] = r] /\ lock = None /\ lock' = p
      /\ UNCHANGED <<item, pub, tmp, text, handle, drawn, deleted>>
  BY DEF AcquireLock, Goto, files, hist
<1>2. r \in ProcType /\ r.pc \in {"get", "delete"}
  BY <1>0 DEF ProcType, KeySteps
<1> HIDE DEF r
<1>3. proc' \in [Procs -> ProcType] /\ proc'[p] = r /\ \A q \in Procs : q # p => proc'[q] = proc[q]
  BY <1>1, <1>2 DEF KeyInv, ProcInv
<1>4. \A q \in Procs : ~Locked(proc[q])
  BY <1>1 DEF KeyInv, ProcInv
<1>5. ProcInv' /\ KeyTypeOK'
  BY <1>1, <1>2, <1>3, <1>4 DEF KeyInv, KeyTypeOK, ProcInv, Locked, KeySteps
<1>6. HandInv' /\ NoSeedLost'
  BY <1>1, <1>2, <1>3 DEF KeyInv, HandInv, NoSeedLost, PubSteps
<1> QED BY <1>5, <1>6 DEF KeyInv

LEMMA GetSecretKeeps ==
  ASSUME KeyInv, NEW p \in Procs, GetSecret(p)
  PROVE  KeyInv'
<1>0. /\ proc[p] \in ProcType /\ proc[p].pc = "get"
      /\ UNCHANGED <<item, pub, tmp, text, handle, drawn, deleted>>
  BY DEF KeyInv, ProcInv, GetSecret, files, hist
<1>1. CASE Return(p)
  BY <1>0, <1>1, ReturnKeeps DEF KeyInv, ProcInv, NoSeedLost
<1>2. CASE /\ item = None /\ proc[p].op \notin {"load"} /\ UNCHANGED lock
           /\ \E r \in ProcType : /\ proc' = [proc EXCEPT ![p] = r]
                                  /\ r.pc = "set" \/ (r.pc = "get" /\ r.op = "create")
  <2>1. PICK r \in ProcType : /\ proc' = [proc EXCEPT ![p] = r]
                              /\ r.pc = "set" \/ (r.pc = "get" /\ r.op = "create")
    BY <1>2
  <2>2. proc' \in [Procs -> ProcType] /\ proc'[p] = r /\ \A q \in Procs : q # p => proc'[q] = proc[q]
    BY <2>1 DEF KeyInv, ProcInv
  <2>3. lock = p
    BY <1>0, <1>2 DEF KeyInv, ProcInv, Locked
  <2>4. ProcInv' /\ KeyTypeOK'
    BY <1>0, <1>2, <2>1, <2>2, <2>3 DEF KeyInv, KeyTypeOK, ProcInv, Locked, KeySteps
  <2>5. HandInv' /\ NoSeedLost'
    BY <1>0, <1>2, <2>1, <2>2 DEF KeyInv, HandInv, NoSeedLost, PubSteps
  <2> QED BY <2>4, <2>5 DEF KeyInv
<1>3. CASE /\ item \in Seeds /\ UNCHANGED lock
           /\ proc' = [proc EXCEPT ![p].pc = "pub_read", ![p].key = item]
  <2> DEFINE r == [proc[p] EXCEPT !.pc = "pub_read", !.key = item]
  <2>1. r \in ProcType /\ r.pc = "pub_read" /\ r.key = item
    BY <1>0, <1>3 DEF ProcType, KeySteps
  <2>2. proc' = [proc EXCEPT ![p] = r]
    BY <1>0, <1>3 DEF KeyInv, ProcInv
  <2> HIDE DEF r
  <2>3. proc' \in [Procs -> ProcType] /\ proc'[p] = r /\ \A q \in Procs : q # p => proc'[q] = proc[q]
    BY <2>1, <2>2 DEF KeyInv, ProcInv
  <2>4. ProcInv' /\ KeyTypeOK'
    BY <1>0, <1>3, <2>1, <2>3 DEF KeyInv, KeyTypeOK, ProcInv, Locked, KeySteps
  <2>5. HandInv' /\ NoSeedLost'
    BY <1>0, <1>3, <2>1, <2>3 DEF KeyInv, HandInv, NoSeedLost, PubSteps
  <2> QED BY <2>4, <2>5 DEF KeyInv
<1>4. ASSUME item = None, proc[p].op = "load_or_generate",
             proc' = [proc EXCEPT ![p].op = "create"], UNCHANGED lock
      PROVE  KeyInv'
  <2> DEFINE r == [proc[p] EXCEPT !.op = "create"]
  <2>1. r \in ProcType /\ r.pc = "get" /\ r.op = "create"
    BY <1>0 DEF ProcType
  <2>2. proc' = [proc EXCEPT ![p] = r]
    BY <1>4
  <2> HIDE DEF r
  <2> QED BY <1>2, <1>4, <2>1, <2>2
<1>5. ASSUME item = None, proc[p].op = "create", Goto(p, "set"), UNCHANGED lock
      PROVE  KeyInv'
  <2> DEFINE r == [proc[p] EXCEPT !.pc = "set"]
  <2>1. r \in ProcType /\ r.pc = "set"
    BY <1>0 DEF ProcType, KeySteps
  <2>2. proc' = [proc EXCEPT ![p] = r]
    BY <1>5 DEF Goto
  <2> HIDE DEF r
  <2> QED BY <1>2, <1>5, <2>1, <2>2
<1> QED BY <1>1, <1>3, <1>4, <1>5 DEF GetSecret, DecodesAsSeed

\* Under the lock the slot is still empty when the fresh seed is stored.
LEMMA SetSecretKeeps ==
  ASSUME KeyInv, NEW p \in Procs, SetSecret(p)
  PROVE  KeyInv'
<1> DEFINE r == [proc[p] EXCEPT !.pc = "get", !.op = "read_back"]
<1>0. proc[p] \in ProcType /\ proc[p].pc = "set" /\ lock = p /\ item = None
  BY DEF KeyInv, ProcInv, Locked, NoSeedLost, SetSecret
<1>1. /\ proc' = [proc EXCEPT ![p] = r] /\ item' \in Seeds /\ drawn' = drawn \cup {item'}
      /\ UNCHANGED <<lock, pub, tmp, text, handle, deleted>>
  BY <1>0 DEF SetSecret, files, KeyInv, ProcInv
<1>2. r \in ProcType /\ r.pc = "get"
  BY <1>0 DEF ProcType, KeySteps
<1> HIDE DEF r
<1>3. proc' \in [Procs -> ProcType] /\ proc'[p] = r /\ \A q \in Procs : q # p => proc'[q] = proc[q]
  BY <1>1, <1>2 DEF KeyInv, ProcInv
<1>4. ProcInv' /\ KeyTypeOK'
  BY <1>0, <1>1, <1>2, <1>3 DEF KeyInv, KeyTypeOK, ProcInv, Locked, KeySteps
<1>5. HandInv'
  BY <1>0, <1>1, <1>2, <1>3 DEF KeyInv, HandInv, PubSteps
<1>6. \A q \in Procs : proc'[q].pc # "set"
  BY <1>0, <1>2, <1>3 DEF KeyInv, ProcInv, Locked
<1>7. NoSeedLost'
  <2>1. drawn \subseteq deleted /\ \A q \in Procs : handle[q] \in {None} \cup deleted
    BY <1>0 DEF KeyInv, ProcInv, NoSeedLost
  <2> QED BY <1>1, <1>6, <2>1 DEF NoSeedLost
<1> QED BY <1>4, <1>5, <1>7 DEF KeyInv

LEMMA CreateTmpKeeps ==
  ASSUME KeyInv, NEW p \in Procs, CreateTmp(p)
  PROVE  KeyInv'
<1> DEFINE n == IF tmp # 0 THEN tmp ELSE CHOOSE i \in Free : TRUE
           r == [proc[p] EXCEPT !.pc = "pub_write", !.fd = n]
<1>0. proc[p] \in ProcType /\ proc[p].pc = "pub_create"
  BY DEF KeyInv, ProcInv, CreateTmp
<1>1. n \in Inodes
  BY FreeInode DEF KeyInv, KeyTypeOK
<1>2. /\ proc' = [proc EXCEPT ![p] = r] /\ tmp' = n /\ text' = [text EXCEPT ![n] = Empty]
      /\ UNCHANGED <<item, lock, pub, handle, drawn, deleted>>
  <2>1. /\ tmp' = n /\ text' = [text EXCEPT ![n] = Empty]
        /\ proc' = [proc EXCEPT ![p].pc = "pub_write", ![p].fd = n]
        /\ UNCHANGED <<item, lock, pub, handle, drawn, deleted>>
    BY Zenon DEF CreateTmp, hist
  <2> HIDE DEF n
  <2>2. proc' = [proc EXCEPT ![p] = r]
    BY <1>0, <2>1 DEF KeyInv, ProcInv
  <2> QED BY <2>1, <2>2
<1>3. r \in ProcType /\ r.pc = "pub_write" /\ r.key = proc[p].key /\ r.fd = n
  BY <1>0, <1>1 DEF ProcType, KeySteps
<1> HIDE DEF n, r
<1>4. text' \in [Inodes -> Seeds \cup {Old, Empty}] /\ pub \in Inodes \cup {0}
  BY <1>1, <1>2 DEF KeyInv, KeyTypeOK
<1> QED BY <1>0, <1>1, <1>2, <1>3, <1>4, PubStepKeeps DEF PubSteps

LEMMA WriteTmpKeeps ==
  ASSUME KeyInv, NEW p \in Procs, WriteTmp(p)
  PROVE  KeyInv'
<1> DEFINE r == [proc[p] EXCEPT !.pc = "pub_rename"]
<1>0. proc[p] \in ProcType /\ proc[p].pc = "pub_write" /\ proc[p].key \in Seeds
  BY DEF KeyInv, ProcInv, HandInv, PubSteps, WriteTmp
<1>1. /\ proc' = [proc EXCEPT ![p] = r] /\ text' = [text EXCEPT ![proc[p].fd] = proc[p].key]
      /\ UNCHANGED <<item, lock, pub, tmp, handle, drawn, deleted>>
  BY <1>0 DEF WriteTmp, Goto, hist
<1>2. r \in ProcType /\ r.pc = "pub_rename" /\ r.key = proc[p].key
  BY <1>0 DEF ProcType, KeySteps
<1> HIDE DEF r
<1>3. /\ text' \in [Inodes -> Seeds \cup {Old, Empty}]
      /\ pub \in Inodes \cup {0} /\ tmp \in Inodes \cup {0}
  BY <1>0, <1>1 DEF KeyInv, KeyTypeOK
<1> QED BY <1>0, <1>1, <1>2, <1>3, PubStepKeeps DEF PubSteps

\* ReadPub, RenameTmp and PubFails, which write to no file.
LEMMA PubRestKeeps ==
  ASSUME KeyInv, NEW p \in Procs, ReadPub(p) \/ RenameTmp(p) \/ PubFails(p)
  PROVE  KeyInv'
<1>0. proc[p] \in ProcType /\ proc[p].pc \in PubSteps
  BY DEF KeyInv, ProcInv, ReadPub, RenameTmp, PubFails, PubSteps
<1>1. PICK r : /\ proc' = [proc EXCEPT ![p] = r]
               /\ r \in {[proc[p] EXCEPT !.pc = "return"], [proc[p] EXCEPT !.pc = "pub_create"],
                         [proc[p] EXCEPT !.pc = "return", !.fd = 0]}
  BY <1>0, Zenon DEF ReadPub, RenameTmp, PubFails, Goto, KeyInv, ProcInv
<1>2. r \in ProcType /\ r.pc \in {"return", "pub_create"} /\ r.key = proc[p].key
  BY <1>0, <1>1 DEF ProcType, KeySteps
<1>3. /\ UNCHANGED <<item, lock, text, handle, drawn, deleted>>
      /\ pub' \in {pub, tmp} /\ tmp' \in {tmp, 0}
  BY DEF ReadPub, RenameTmp, PubFails, files, hist
<1>4. /\ text' \in [Inodes -> Seeds \cup {Old, Empty}]
      /\ pub' \in Inodes \cup {0} /\ tmp' \in Inodes \cup {0}
  BY <1>3 DEF KeyInv, KeyTypeOK
<1> QED BY <1>0, <1>1, <1>2, <1>3, <1>4, PubStepKeeps DEF PubSteps

\* What is deleted was never handed out for good: it moves to deleted.
LEMMA DeleteItemKeeps ==
  ASSUME KeyInv, NEW p \in Procs, DeleteItem(p)
  PROVE  KeyInv'
<1>0. proc[p] \in ProcType /\ proc[p].pc = "delete" /\ lock = p
  BY DEF KeyInv, ProcInv, Locked, DeleteItem
<1>1. CASE item = None
  <2>1. Return(p) /\ UNCHANGED <<item, pub, tmp, text, handle, drawn>> /\ deleted' = deleted
    BY <1>1 DEF DeleteItem, files
  <2> QED BY <2>1, ReturnKeeps DEF KeyInv, ProcInv, NoSeedLost
<1>2. CASE item # None
  <2> DEFINE r == [proc[p] EXCEPT !.pc = "pub_remove"]
  <2>1. /\ proc' = [proc EXCEPT ![p] = r] /\ item' = None /\ deleted' = deleted \cup {item}
        /\ UNCHANGED <<lock, pub, tmp, text, handle, drawn>>
    BY <1>2 DEF DeleteItem, files, Goto
  <2>2. r \in ProcType /\ r.pc = "pub_remove"
    BY <1>0 DEF ProcType, KeySteps
  <2> HIDE DEF r
  <2>3. proc' \in [Procs -> ProcType] /\ proc'[p] = r /\ \A q \in Procs : q # p => proc'[q] = proc[q]
    BY <2>1, <2>2 DEF KeyInv, ProcInv
  <2>4. ProcInv' /\ KeyTypeOK'
    BY <1>0, <2>1, <2>2, <2>3 DEF KeyInv, KeyTypeOK, ProcInv, Locked, KeySteps
  <2>5. HandInv' /\ NoSeedLost'
    BY <2>1, <2>2, <2>3 DEF KeyInv, HandInv, NoSeedLost, PubSteps
  <2> QED BY <2>4, <2>5 DEF KeyInv
<1> QED BY <1>1, <1>2

LEMMA EndKeeps ==
  ASSUME KeyInv, NEW p \in Procs, LoadReturns(p) \/ RemovePub(p) \/ BackendFails(p) \/ Kill(p)
  PROVE  KeyInv'
<1>1. Return(p) /\ UNCHANGED <<item, drawn, deleted, tmp, text>> /\ pub' \in {pub, 0}
  BY DEF LoadReturns, RemovePub, BackendFails, Kill, files, hist
<1>2. CASE LoadReturns(p)
  <2>1. proc[p].key \in Seeds /\ proc[p].key \in {item} \cup deleted
    BY <1>2 DEF LoadReturns, KeyInv, HandInv, PubSteps
  <2>2. handle' = handle \/ handle' = [handle EXCEPT ![p] = proc[p].key]
    BY <1>2 DEF LoadReturns
  <2>3. /\ handle' \in [Procs -> Seeds \cup {None}]
        /\ \A q \in Procs : handle'[q] \in {None, item} \cup deleted
    BY <2>1, <2>2 DEF KeyInv, ProcInv, NoSeedLost
  <2> QED BY <1>1, <2>3, ReturnKeeps
<1>3. CASE RemovePub(p) \/ BackendFails(p) \/ Kill(p)
  <2>1. handle' = handle
    BY <1>3 DEF RemovePub, BackendFails, Kill, hist
  <2> QED BY <1>1, <2>1, ReturnKeeps DEF KeyInv, ProcInv, NoSeedLost
<1> QED BY <1>2, <1>3

LEMMA NextKeyInv == KeyInv /\ [KeyNext]_vars => KeyInv'
<1> SUFFICES ASSUME KeyInv, [KeyNext]_vars PROVE KeyInv'
  OBVIOUS
<1>1. CASE UNCHANGED vars
  <2>1. UNCHANGED <<item, lock, pub, tmp, text, proc, handle, drawn, deleted>>
    BY <1>1 DEF vars, files, hist
  <2> QED BY <2>1 DEF KeyInv, KeyTypeOK, ProcInv, HandInv, NoSeedLost
<1>2. CASE KeyNext
  <2>1. PICK p \in Procs : \/ (\E op \in Ops : Call(p, op)) \/ Step(p)
                          \/ BackendFails(p) \/ PubFails(p) \/ Kill(p)
    BY <1>2 DEF KeyNext
  <2> QED
    BY <2>1, CallKeeps, AcquireLockKeeps, GetSecretKeeps, SetSecretKeeps, CreateTmpKeeps,
       WriteTmpKeeps, PubRestKeeps, DeleteItemKeeps, EndKeeps DEF Step
<1> QED BY <1>1, <1>2

\* The inductive invariant holds in every state of every behaviour.
THEOREM KeyInvariance == KeySpec => []KeyInv
<1>1. KeyInit => KeyInv
  BY InitKeyInv
<1>2. KeyInv /\ [KeyNext]_vars => KeyInv'
  BY NextKeyInv
<1> QED BY <1>1, <1>2, PTL DEF KeySpec

\* The types hold, and whoever may write or delete the item holds the lock, for
\* any number of processes that call, fail and die in any order.
THEOREM KeyTypeCorrect == KeySpec => []KeyTypeOK
<1>1. KeyInv => KeyTypeOK
  BY DEF KeyInv
<1> QED BY <1>1, KeyInvariance, PTL

\* No seed that create or load_or_generate stored, and no item of another kind,
\* is ever overwritten; a key that was handed out is in the keychain until
\* delete removes it.
THEOREM SeedsKept == KeySpec => []NoSeedLost
<1>1. KeyInv => NoSeedLost
  BY DEF KeyInv
<1> QED BY <1>1, KeyInvariance, PTL

-----------------------------------------------------------------------------
(* The public key file.  Its writers share one temporary name without a lock: *)
(* an inode is good when it shows the stored key or somebody is about to      *)
(* write that key into it.                                                    *)

Good(n) == text[n] = item \/ \E q \in Procs : proc[q].pc = "pub_write" /\ proc[q].fd = n

PubSet == pub # 0 /\ item \in Seeds /\ Good(pub)

\* The temporary file is good while it exists; once somebody has renamed it the
\* file itself is, also for those who find no temporary file any more.
PubInv ==
  deleted = {} /\ ~spoiled =>
    /\ tmp # 0 => item \in Seeds /\ Good(tmp)
    /\ \A p \in Procs :
         /\ proc[p].pc \in {"pub_write", "pub_rename"} => tmp # 0 \/ PubSet
         /\ proc[p].pc = "return" \/ handle[p] # None => PubSet
         /\ proc[p].pc # "pub_remove"

\* Steps of a process that neither had nor gets an open file.
LEMMA QuietPub ==
  ASSUME PubInv, NEW p \in Procs,
         \A q \in Procs : q # p => proc'[q] = proc[q],
         proc[p].pc # "pub_write",
         proc'[p].pc \notin {"pub_write", "pub_rename", "pub_remove"},
         UNCHANGED <<item, pub, tmp, text, deleted, spoiled>>,
         \A q \in Procs : q # p => handle'[q] = handle[q],
         proc'[p].pc = "return" \/ handle'[p] # None =>
           PubSet \/ (deleted = {} /\ ~spoiled => proc[p].pc = "return" \/ handle[p] # None)
  PROVE  PubInv'
<1>1. \A n : Good(n) => Good(n)'
  BY DEF Good
<1>2. PubSet => PubSet'
  BY <1>1 DEF PubSet
<1> QED BY <1>1, <1>2 DEF PubInv

LEMMA InitPubInv == KeyInit => PubInv
  BY DEF KeyInit, PubInv, Resting

LEMMA ProcSteps ==
  ASSUME KeyInv, NEW p \in Procs, NEW r, proc' = [proc EXCEPT ![p] = r]
  PROVE  proc'[p] = r /\ \A q \in Procs : q # p => proc'[q] = proc[q]
  BY DEF KeyInv, ProcInv

\* Calls, and the steps up to the file.
LEMMA BeforePub ==
  ASSUME KeyInv, PubInv, NEW p \in Procs,
         (\E op \in Ops : Call(p, op)) \/ AcquireLock(p) \/ GetSecret(p)
  PROVE  PubInv'
<1>0. /\ proc[p] \in ProcType /\ proc[p].pc \in {"idle", "lock", "get"}
      /\ UNCHANGED <<item, pub, tmp, text, handle, deleted, spoiled>>
  BY DEF Call, AcquireLock, GetSecret, files, hist, KeyInv, ProcInv
<1>1. \E r : /\ proc' = [proc EXCEPT ![p] = r]
             /\ r.pc \in {"idle", "lock", "get", "delete", "set", "pub_read"}
  <2>1. CASE \E op \in Ops : Call(p, op)
    <3>1. PICK op \in Ops : Call(p, op)
      BY <2>1
    <3> DEFINE r == [Resting EXCEPT !.op = op, !.pc = IF op = "load" THEN "get" ELSE "lock"]
    <3>2. proc' = [proc EXCEPT ![p] = r]
      BY <3>1 DEF Call
    <3>3. r.pc \in {"get", "lock"}
      BY DEF Resting
    <3> QED BY <3>2, <3>3
  <2>2. CASE AcquireLock(p)
    <3> DEFINE r == [proc[p] EXCEPT !.pc = IF proc[p].op = "delete" THEN "delete" ELSE "get"]
    <3>1. proc' = [proc EXCEPT ![p] = r]
      BY <2>2 DEF AcquireLock, Goto
    <3>2. r.pc \in {"get", "delete"}
      BY <1>0 DEF ProcType
    <3> QED BY <3>1, <3>2
  <2>3. CASE GetSecret(p)
    <3>1. CASE Return(p)
      <4>1. proc' = [proc EXCEPT ![p] = Resting] /\ Resting.pc = "idle"
        BY <3>1 DEF Return, Resting
      <4> QED BY <4>1
    <3>2. CASE proc' = [proc EXCEPT ![p].op = "create"]
      <4> DEFINE r == [proc[p] EXCEPT !.op = "create"]
      <4>1. proc' = [proc EXCEPT ![p] = r]
        BY <3>2
      <4>2. r.pc = "get"
        BY <1>0, <2>3 DEF ProcType, GetSecret
      <4> QED BY <4>1, <4>2
    <3>3. CASE Goto(p, "set")
      <4> DEFINE r == [proc[p] EXCEPT !.pc = "set"]
      <4>1. proc' = [proc EXCEPT ![p] = r]
        BY <3>3 DEF Goto
      <4>2. r.pc = "set"
        BY <1>0 DEF ProcType
      <4> QED BY <4>1, <4>2
    <3>4. CASE proc' = [proc EXCEPT ![p].pc = "pub_read", ![p].key = item]
      <4> DEFINE r == [proc[p] EXCEPT !.pc = "pub_read", !.key = item]
      <4>1. proc' = [proc EXCEPT ![p] = r]
        BY <1>0, <3>4 DEF KeyInv, ProcInv
      <4>2. r.pc = "pub_read"
        BY <1>0 DEF ProcType
      <4> QED BY <4>1, <4>2
    <3> QED BY <2>3, <3>1, <3>2, <3>3, <3>4 DEF GetSecret
  <2> QED BY <2>1, <2>2, <2>3
<1>2. PICK r : /\ proc' = [proc EXCEPT ![p] = r]
               /\ r.pc \in {"idle", "lock", "get", "delete", "set", "pub_read"}
  BY <1>1
<1>3. proc'[p] = r /\ \A q \in Procs : q # p => proc'[q] = proc[q]
  BY <1>2, ProcSteps
<1> QED BY <1>0, <1>2, <1>3, QuietPub

\* Before the first seed nobody can have touched a public key file.
LEMMA SetSecretPub ==
  ASSUME KeyInv, PubInv, NEW p \in Procs, SetSecret(p)
  PROVE  PubInv'
<1> DEFINE r == [proc[p] EXCEPT !.pc = "get", !.op = "read_back"]
<1>0. proc[p] \in ProcType /\ item = None /\ item \notin Seeds
  BY DEF KeyInv, ProcInv, NoSeedLost, SetSecret
<1>1. /\ proc' = [proc EXCEPT ![p] = r]
      /\ UNCHANGED <<lock, pub, tmp, text, handle, deleted, spoiled>>
  BY <1>0 DEF SetSecret, files, KeyInv, ProcInv
<1>2. r.pc = "get"
  BY <1>0 DEF ProcType
<1> HIDE DEF r
<1>3. proc'[p] = r /\ \A q \in Procs : q # p => proc'[q] = proc[q]
  BY <1>1, ProcSteps
<1> QED BY <1>0, <1>1, <1>2, <1>3 DEF PubInv, PubSet

\* While no key was deleted, every key in hand is the stored one.
LEMMA HandIsItem ==
  ASSUME KeyInv, NEW p \in Procs, proc[p].pc \in PubSteps, deleted = {}
  PROVE  proc[p].key = item /\ item \in Seeds
  BY DEF KeyInv, HandInv

LEMMA ReadPubPub ==
  ASSUME KeyInv, PubInv, NEW p \in Procs, ReadPub(p)
  PROVE  PubInv'
<1> DEFINE r == [proc[p] EXCEPT !.pc = IF pub # 0 /\ text[pub] = proc[p].key
                                         THEN "return" ELSE "pub_create"]
<1>0. proc[p] \in ProcType /\ proc[p].pc = "pub_read"
  BY DEF KeyInv, ProcInv, ReadPub
<1>1. /\ proc' = [proc EXCEPT ![p] = r]
      /\ UNCHANGED <<item, pub, tmp, text, handle, deleted, spoiled>>
  BY DEF ReadPub, Goto, files, hist
<1>2. /\ r.pc \in {"return", "pub_create"}
      /\ r.pc = "return" => pub # 0 /\ text[pub] = proc[p].key
  BY <1>0 DEF ProcType
<1> HIDE DEF r
<1>3. proc'[p] = r /\ \A q \in Procs : q # p => proc'[q] = proc[q]
  BY <1>1, ProcSteps
<1>4. r.pc = "return" /\ deleted = {} => PubSet
  BY <1>0, <1>2, HandIsItem DEF PubSet, Good, PubSteps
<1>5. \A n : Good(n) => Good(n)'
  BY <1>0, <1>1, <1>3 DEF Good
<1>6. PubSet => PubSet'
  BY <1>1, <1>5 DEF PubSet
<1> QED BY <1>1, <1>2, <1>3, <1>4, <1>5, <1>6 DEF PubInv

\* The truncated file is good: the process that truncated it will write it.
LEMMA CreateTmpPub ==
  ASSUME KeyInv, PubInv, NEW p \in Procs, CreateTmp(p)
  PROVE  PubInv'
<1> DEFINE m == IF tmp # 0 THEN tmp ELSE CHOOSE i \in Free : TRUE
           r == [proc[p] EXCEPT !.pc = "pub_write", !.fd = m]
<1>0. proc[p] \in ProcType /\ proc[p].pc = "pub_create"
  BY DEF KeyInv, ProcInv, CreateTmp
<1>1. /\ tmp' = m /\ text' = [text EXCEPT ![m] = Empty]
      /\ proc' = [proc EXCEPT ![p].pc = "pub_write", ![p].fd = m]
      /\ UNCHANGED <<item, lock, pub, handle, drawn, deleted, spoiled>>
  BY Zenon DEF CreateTmp, hist
<1>2. m \in Inodes /\ m # 0
  <2>1. m \in Inodes
    BY FreeInode DEF KeyInv, KeyTypeOK
  <2>2. Cardinality(Procs) \in Nat
    BY FS_CardinalityType
  <2> HIDE DEF m
  <2> QED BY <2>1, <2>2 DEF Inodes
<1> HIDE DEF m
<1>3. proc' = [proc EXCEPT ![p] = r]
  BY <1>0, <1>1 DEF KeyInv, ProcInv
<1>4. r.pc = "pub_write" /\ r.fd = m
  BY <1>0 DEF ProcType
<1> HIDE DEF r
<1>5. proc'[p] = r /\ \A q \in Procs : q # p => proc'[q] = proc[q]
  BY <1>3, ProcSteps
<1>6. \E q \in Procs : proc'[q].pc = "pub_write" /\ proc'[q].fd = m
  BY <1>4, <1>5
<1>7. ASSUME NEW n \in Inodes, Good(n) PROVE Good(n)'
  <2>1. CASE n = m
    BY <1>6, <2>1 DEF Good
  <2>2. CASE n # m
    <3>1. text'[n] = text[n]
      BY <1>1, <2>2 DEF KeyInv, KeyTypeOK
    <3> QED BY <1>0, <1>1, <1>5, <1>7, <3>1 DEF Good
  <2> QED BY <2>1, <2>2
<1>8. PubSet => PubSet'
  BY <1>1, <1>7 DEF PubSet, KeyInv, KeyTypeOK, Good
<1>9. deleted = {} => item \in Seeds
  BY <1>0, HandIsItem DEF PubSteps
<1>10. Good(tmp)'
  BY <1>1, <1>6 DEF Good
<1> QED BY <1>1, <1>2, <1>4, <1>5, <1>8, <1>9, <1>10 DEF PubInv

LEMMA WriteTmpPub ==
  ASSUME KeyInv, PubInv, NEW p \in Procs, WriteTmp(p)
  PROVE  PubInv'
<1> DEFINE r == [proc[p] EXCEPT !.pc = "pub_rename"]
<1>0. proc[p] \in ProcType /\ proc[p].pc = "pub_write"
  BY DEF KeyInv, ProcInv, WriteTmp
<1>1. /\ proc' = [proc EXCEPT ![p] = r] /\ text' = [text EXCEPT ![proc[p].fd] = proc[p].key]
      /\ UNCHANGED <<item, lock, pub, tmp, handle, drawn, deleted, spoiled>>
  BY DEF WriteTmp, Goto, hist
<1>2. r.pc = "pub_rename"
  BY <1>0 DEF ProcType
<1> HIDE DEF r
<1>3. proc'[p] = r /\ \A q \in Procs : q # p => proc'[q] = proc[q]
  BY <1>1, ProcSteps
<1>4. ASSUME deleted = {}, NEW n \in Inodes, Good(n) PROVE Good(n)'
  <2>1. proc[p].key = item
    BY <1>0, <1>4, HandIsItem DEF PubSteps
  <2>2. CASE n = proc[p].fd
    BY <1>1, <2>1, <2>2 DEF Good, KeyInv, KeyTypeOK
  <2>3. CASE n # proc[p].fd
    <3>1. text'[n] = text[n]
      BY <1>1, <2>3 DEF KeyInv, KeyTypeOK
    <3>2. CASE text[n] = item
      BY <1>1, <3>1, <3>2 DEF Good
    <3>3. CASE \E q \in Procs : proc[q].pc = "pub_write" /\ proc[q].fd = n
      BY <1>3, <2>3, <3>3 DEF Good
    <3> QED BY <1>4, <3>2, <3>3 DEF Good
  <2> QED BY <2>2, <2>3
<1>5. deleted = {} /\ PubSet => PubSet'
  BY <1>1, <1>4 DEF PubSet, KeyInv, KeyTypeOK
<1>6. deleted = {} /\ tmp # 0 /\ Good(tmp) => Good(tmp)'
  BY <1>1, <1>4 DEF KeyInv, KeyTypeOK, Good
<1> QED BY <1>0, <1>1, <1>2, <1>3, <1>5, <1>6 DEF PubInv

\* Whatever has the temporary name is good, so the file is once it is renamed;
\* when somebody else renamed it first the file is good already.
LEMMA RenameTmpPub ==
  ASSUME KeyInv, PubInv, NEW p \in Procs, RenameTmp(p)
  PROVE  PubInv'
<1> DEFINE r == [proc[p] EXCEPT !.pc = "return", !.fd = 0]
<1>0. proc[p] \in ProcType /\ proc[p].pc = "pub_rename"
  BY DEF KeyInv, ProcInv, RenameTmp
<1>1. /\ pub' = (IF tmp # 0 THEN tmp ELSE pub) /\ tmp' = 0
      /\ UNCHANGED <<item, text, handle, deleted, spoiled>>
  BY DEF RenameTmp, hist
<1>2. proc' = [proc EXCEPT ![p] = r]
  BY <1>0 DEF RenameTmp, KeyInv, ProcInv
<1>3. r.pc = "return"
  BY <1>0 DEF ProcType
<1> HIDE DEF r
<1>4. proc'[p] = r /\ \A q \in Procs : q # p => proc'[q] = proc[q]
  BY <1>2, ProcSteps
<1>5. \A n : Good(n) => (text[n] = item \/ \E q \in Procs : proc'[q].pc = "pub_write" /\ proc'[q].fd = n)
  BY <1>0, <1>4 DEF Good
<1>6. deleted = {} /\ ~spoiled => PubSet'
  BY <1>0, <1>1, <1>5 DEF PubInv, PubSet, Good
<1>7. deleted = {} /\ ~spoiled => \A q \in Procs : proc'[q].pc # "pub_remove"
  BY <1>3, <1>4 DEF PubInv
<1> QED BY <1>1, <1>6, <1>7 DEF PubInv

LEMMA EndPub ==
  ASSUME KeyInv, PubInv, NEW p \in Procs,
         \/ LoadReturns(p) \/ DeleteItem(p) \/ RemovePub(p)
         \/ BackendFails(p) \/ PubFails(p) \/ Kill(p)
  PROVE  PubInv'
<1>1. CASE LoadReturns(p)
  <2>1. /\ proc' = [proc EXCEPT ![p] = Resting] /\ proc[p].pc = "return"
        /\ UNCHANGED <<item, pub, tmp, text, deleted, spoiled>>
        /\ handle' = handle \/ handle' = [handle EXCEPT ![p] = proc[p].key]
    BY <1>1 DEF LoadReturns, Return, files
  <2>2. proc'[p] = Resting /\ \A q \in Procs : q # p => proc'[q] = proc[q]
    BY <2>1, ProcSteps
  <2>3. \A q \in Procs : q # p => handle'[q] = handle[q]
    BY <2>1 DEF KeyInv, ProcInv
  <2> QED BY <2>1, <2>2, <2>3, QuietPub DEF Resting
<1>2. CASE DeleteItem(p) /\ item = None
  <2>1. /\ proc' = [proc EXCEPT ![p] = Resting] /\ proc[p].pc = "delete"
        /\ UNCHANGED <<item, pub, tmp, text, handle, deleted, spoiled>>
    BY <1>2 DEF DeleteItem, Return, files
  <2>2. proc'[p] = Resting /\ \A q \in Procs : q # p => proc'[q] = proc[q]
    BY <2>1, ProcSteps
  <2> QED BY <2>1, <2>2, QuietPub DEF Resting
<1>3. CASE DeleteItem(p) /\ item # None
  <2>1. item \in deleted'
    BY <1>3 DEF DeleteItem
  <2> QED BY <2>1 DEF PubInv
<1>4. CASE RemovePub(p)
  BY <1>4 DEF RemovePub, PubInv, hist
<1>5. CASE PubFails(p) \/ Kill(p)
  BY <1>5 DEF PubFails, Kill, PubInv
<1>6. CASE BackendFails(p)
  <2>1. /\ proc' = [proc EXCEPT ![p] = Resting] /\ proc[p].pc \in {"lock", "get", "set", "delete"}
        /\ UNCHANGED <<item, pub, tmp, text, handle, deleted, spoiled>>
    BY <1>6 DEF BackendFails, Return, files, hist
  <2>2. proc'[p] = Resting /\ \A q \in Procs : q # p => proc'[q] = proc[q]
    BY <2>1, ProcSteps
  <2> QED BY <2>1, <2>2, QuietPub DEF Resting
<1> QED BY <1>1, <1>2, <1>3, <1>4, <1>5, <1>6

LEMMA NextPubInv == KeyInv /\ PubInv /\ [KeyNext]_vars => PubInv'
<1> SUFFICES ASSUME KeyInv, PubInv, [KeyNext]_vars PROVE PubInv'
  OBVIOUS
<1>1. CASE UNCHANGED vars
  <2>1. UNCHANGED <<item, pub, tmp, text, proc, handle, deleted, spoiled>>
    BY <1>1 DEF vars, files, hist
  <2> QED BY <2>1 DEF PubInv, PubSet, Good
<1>2. CASE KeyNext
  <2>1. PICK p \in Procs : \/ (\E op \in Ops : Call(p, op)) \/ Step(p)
                          \/ BackendFails(p) \/ PubFails(p) \/ Kill(p)
    BY <1>2 DEF KeyNext
  <2> QED
    BY <2>1, BeforePub, SetSecretPub, ReadPubPub, CreateTmpPub, WriteTmpPub, RenameTmpPub,
       EndPub DEF Step
<1> QED BY <1>1, <1>2

\* Whoever raced for the temporary file: when nobody is in a call, a key was
\* handed out and none was deleted, the public key file shows the stored key.
THEOREM PubCorrect == KeySpec => []PubIsCurrent
<1>1. KeyInit => PubInv
  BY InitPubInv
<1>2. KeyInv /\ KeyInv' /\ PubInv /\ [KeyNext]_vars => PubInv'
  BY NextPubInv
<1>3. PubInv => PubIsCurrent
  BY DEF PubInv, PubIsCurrent, PubSet, Good
<1> QED BY <1>1, <1>2, <1>3, KeyInvariance, PTL DEF KeySpec
=============================================================================
