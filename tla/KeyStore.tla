------------------------------ MODULE KeyStore ------------------------------
(***************************************************************************)
(* The signing key in the operating system's keychain                      *)
(* (crates/ogentic-audit-keychain/src/signer.rs): processes that load,     *)
(* create, load or generate, and delete the key of one (service, account), *)
(* the lock file between them, and the public key file that load keeps     *)
(* current without holding the lock.                                       *)
(*                                                                         *)
(* A seed stands for its key pair.  Open files are inodes: File::create on *)
(* an existing name truncates the inode others may still be writing to.    *)
(***************************************************************************)
EXTENDS Integers, FiniteSets

CONSTANTS
  Procs,     \* processes
  Seeds,     \* what InMemorySigner::generate may draw
  Old,       \* a key that was in the keychain once
  Foreign,   \* an item of another kind or application
  None,
  Ops,       \* the calls processes make
  MaxCalls,  \* bound of the model: calls altogether
  Faults     \* "kill": a process dies; "io": the public key file cannot be written;
             \* "backend": the lock file or the keychain cannot be used

ASSUME KeyStoreAssumption ==
  /\ IsFiniteSet(Procs)
  /\ {Old, Foreign, None} \cap (Procs \cup Seeds) = {}
  /\ Cardinality({Old, Foreign, None}) = 3
  /\ Ops \subseteq {"load", "create", "load_or_generate", "delete"}
  /\ MaxCalls \in Nat
  /\ Faults \subseteq {"kill", "io", "backend"}

VARIABLES
  item,     \* the keychain item
  lock,     \* who holds the lock file
  pub,      \* the inode named <account>.pub, 0 for no file
  tmp,      \* the inode named <account>.pub.tmp, 0 for no file
  text,     \* what each inode holds
  proc,     \* each process: next system call, operation, key in hand, open inode
  calls,    \* history: number of calls
  handle,   \* history: the key each process was last given
  drawn,    \* history: the seeds that were generated
  deleted,  \* history: the items delete has removed
  spoiled   \* history: a process died or a file could not be written

files == <<pub, tmp, text>>
hist == <<handle, drawn, deleted, spoiled>>
vars == <<item, lock, files, proc, calls, hist>>

Inodes == 1..(Cardinality(Procs) + 2)
Empty == "empty"

Resting == [pc |-> "idle", op |-> "none", key |-> None, fd |-> 0]

\* Init: nothing, or an item of someone else; perhaps the file of an old key.
KeyInit ==
  /\ item \in {None, Foreign}
  /\ lock = None
  /\ pub \in {0, 1}
  /\ tmp = 0
  /\ text = [n \in Inodes |-> IF n = pub THEN Old ELSE Empty]
  /\ proc = [p \in Procs |-> Resting]
  /\ calls = 0
  /\ handle = [p \in Procs |-> None]
  /\ drawn = {}
  /\ deleted = {}
  /\ spoiled = FALSE

-----------------------------------------------------------------------------

Goto(p, step) == proc' = [proc EXCEPT ![p].pc = step]

\* Wrong variant of Return: the lock is kept.
ReturnLocked(p) ==
  /\ proc' = [proc EXCEPT ![p] = Resting]
  /\ UNCHANGED lock

\* The call ends; its lock, if it holds one, is dropped.
Return(p) ==
  /\ proc' = [proc EXCEPT ![p] = Resting]
  /\ lock' = IF lock = p THEN None ELSE lock

\* A process calls one of the operations; only load takes no lock.
Call(p, op) ==
  /\ proc[p].pc = "idle"
  /\ calls < MaxCalls
  /\ calls' = calls + 1
  /\ proc' = [proc EXCEPT ![p] = [Resting EXCEPT !.op = op,
                                    !.pc = IF op = "load" THEN "get" ELSE "lock"]]
  /\ UNCHANGED <<item, lock, files, hist>>

\* Wrong variant of AcquireLock: the lock is shared.
AcquireLockShared(p) ==
  /\ proc[p].pc = "lock"
  /\ lock' = p
  /\ Goto(p, IF proc[p].op = "delete" THEN "delete" ELSE "get")
  /\ UNCHANGED <<item, files, calls, hist>>

\* Lock::acquire blocks until the lock is free.
AcquireLock(p) ==
  /\ proc[p].pc = "lock"
  /\ lock = None
  /\ lock' = p
  /\ Goto(p, IF proc[p].op = "delete" THEN "delete" ELSE "get")
  /\ UNCHANGED <<item, files, calls, hist>>

\* decode_item: the item is one of ours, its public key that of its seed.
DecodesAsSeed == item \in Seeds

\* load reads the item: not found and not a signing key are errors, on which
\* load_or_generate goes on to create_locked and create_locked to a new seed.
GetSecret(p) ==
  LET op == proc[p].op IN
  /\ proc[p].pc = "get"
  /\ CASE item = None /\ op = "load_or_generate" ->
            proc' = [proc EXCEPT ![p].op = "create"] /\ UNCHANGED lock
       [] item = None /\ op = "create" -> Goto(p, "set") /\ UNCHANGED lock
       [] DecodesAsSeed ->
            proc' = [proc EXCEPT ![p].pc = "pub_read", ![p].key = item] /\ UNCHANGED lock
       [] OTHER -> Return(p)
  /\ UNCHANGED <<item, files, calls, hist>>

\* create_locked stores a fresh seed, then loads it to read it back; under the
\* lock nobody else stores one, so the two are the same.
SetSecret(p) ==
  /\ proc[p].pc = "set"
  /\ \E s \in Seeds \ drawn :
       /\ item' = s
       /\ drawn' = drawn \cup {s}
       /\ proc' = [proc EXCEPT ![p].pc = "get", ![p].op = "read_back"]
  /\ UNCHANGED <<lock, files, calls, handle, deleted, spoiled>>

\* The lock file cannot be opened, or the keychain reports an error of its own: the
\* call ends with it.  A seed that is set but cannot be read back stays there.
BackendFails(p) ==
  /\ "backend" \in Faults
  /\ proc[p].pc \in {"lock", "get", "set", "delete"}
  /\ Return(p)
  /\ UNCHANGED <<item, files, calls, hist>>

\* Wrong variant of ReadPub: a file that is there is taken to be current.
ReadPubExists(p) ==
  /\ proc[p].pc = "pub_read"
  /\ Goto(p, IF pub # 0 THEN "return" ELSE "pub_create")
  /\ UNCHANGED <<item, lock, files, calls, hist>>

\* write_public_key_file: nothing to do when the file is current.
ReadPub(p) ==
  /\ proc[p].pc = "pub_read"
  /\ Goto(p, IF pub # 0 /\ text[pub] = proc[p].key THEN "return" ELSE "pub_create")
  /\ UNCHANGED <<item, lock, files, calls, hist>>

Free == Inodes \ ({pub, tmp} \cup {proc[p].fd : p \in Procs})

\* File::create of the temporary file, whoever made the one that is there.
CreateTmp(p) ==
  LET n == IF tmp # 0 THEN tmp ELSE CHOOSE i \in Free : TRUE IN
  /\ proc[p].pc = "pub_create"
  /\ tmp' = n
  /\ text' = [text EXCEPT ![n] = Empty]
  /\ proc' = [proc EXCEPT ![p].pc = "pub_write", ![p].fd = n]
  /\ UNCHANGED <<item, lock, pub, calls, hist>>

WriteTmp(p) ==
  /\ proc[p].pc = "pub_write"
  /\ text' = [text EXCEPT ![proc[p].fd] = proc[p].key]
  /\ Goto(p, "pub_rename")
  /\ UNCHANGED <<item, lock, pub, tmp, calls, hist>>

\* rename of whatever has the temporary name; load ignores that there is none.
RenameTmp(p) ==
  /\ proc[p].pc = "pub_rename"
  /\ pub' = IF tmp # 0 THEN tmp ELSE pub
  /\ tmp' = 0
  /\ proc' = [proc EXCEPT ![p].pc = "return", ![p].fd = 0]
  /\ UNCHANGED <<item, lock, text, calls, hist>>

\* The file cannot be written: load returns its key all the same.
PubFails(p) ==
  /\ "io" \in Faults
  /\ proc[p].pc \in {"pub_create", "pub_write", "pub_rename"}
  /\ proc' = [proc EXCEPT ![p].pc = "return", ![p].fd = 0]
  /\ spoiled' = TRUE
  /\ UNCHANGED <<item, lock, files, calls, handle, drawn, deleted>>

\* load has its key; create, which found one, returns AlreadyExists instead.
LoadReturns(p) ==
  /\ proc[p].pc = "return"
  /\ handle' = IF proc[p].op = "create" THEN handle ELSE [handle EXCEPT ![p] = proc[p].key]
  /\ Return(p)
  /\ UNCHANGED <<item, files, calls, drawn, deleted, spoiled>>

\* delete removes the item, then the public key file.
DeleteItem(p) ==
  /\ proc[p].pc = "delete"
  /\ IF item = None THEN Return(p) ELSE Goto(p, "pub_remove") /\ UNCHANGED lock
  /\ deleted' = deleted \cup ({item} \ {None})
  /\ item' = None
  /\ UNCHANGED <<files, calls, handle, drawn, spoiled>>

RemovePub(p) ==
  /\ proc[p].pc = "pub_remove"
  /\ pub' = 0
  /\ Return(p)
  /\ UNCHANGED <<item, tmp, text, calls, hist>>

\* A process dies; the system closes its files and drops its lock.
Kill(p) ==
  /\ "kill" \in Faults
  /\ proc[p].pc # "idle"
  /\ Return(p)
  /\ spoiled' = TRUE
  /\ UNCHANGED <<item, files, calls, handle, drawn, deleted>>

Step(p) ==
  \/ AcquireLock(p)
  \/ GetSecret(p)
  \/ SetSecret(p)
  \/ ReadPub(p)
  \/ CreateTmp(p)
  \/ WriteTmp(p)
  \/ RenameTmp(p)
  \/ LoadReturns(p)
  \/ DeleteItem(p)
  \/ RemovePub(p)

KeyNext ==
  \E p \in Procs : \/ \E op \in Ops : Call(p, op)
                   \/ Step(p)
                   \/ BackendFails(p)
                   \/ PubFails(p)
                   \/ Kill(p)

KeySpec == KeyInit /\ [][KeyNext]_vars

\* System calls return, and the lock goes to somebody who waits for it.
KeyFairSpec == KeySpec /\ \A p \in Procs : WF_vars(Step(p))

-----------------------------------------------------------------------------
(* Properties. *)

KeySteps == {"idle", "lock", "get", "set", "pub_read", "pub_create", "pub_write", "pub_rename",
             "return", "delete", "pub_remove"}

\* The type invariant; whoever may write or delete the item holds the lock.
KeyTypeOK ==
  /\ item \in Seeds \cup {None, Foreign}
  /\ lock \in Procs \cup {None}
  /\ pub \in Inodes \cup {0} /\ tmp \in Inodes \cup {0}
  /\ text \in [Inodes -> Seeds \cup {Old, Empty}]
  /\ \A p \in Procs : proc[p].pc \in KeySteps /\ handle[p] \in Seeds \cup {None}
  /\ \A p \in Procs : proc[p].pc \in {"set", "delete", "pub_remove"} => lock = p

\* "two processes can never overwrite a seed whose fingerprint may already be
\* published": every seed that was generated, and an item of another kind, stays
\* in the keychain until delete removes it, whoever creates or dies meanwhile.
NoSeedLost ==
  /\ \A p \in Procs : proc[p].pc = "set" => item = None
  /\ drawn \subseteq {item} \cup deleted
  /\ \A p \in Procs : handle[p] \in {None, item} \cup deleted

\* "Keep the display copy of the public key current": when nobody is in a call
\* and no key was ever deleted, the file shows the stored key, although
\* its writers share one temporary file without a lock.
PubIsCurrent ==
  /\ \A p \in Procs : proc[p].pc = "idle"
  /\ \E p \in Procs : handle[p] # None
  /\ deleted = {} /\ ~spoiled
  => pub # 0 /\ text[pub] = item

\* Every call returns: nobody waits for a lock that is never released, although
\* calls fail and processes die while they hold it.
CallsReturn == \A p \in Procs : proc[p].pc # "idle" ~> proc[p].pc = "idle"
=============================================================================
