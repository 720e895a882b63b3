------------------------------- MODULE AuditLog -------------------------------
(***************************************************************************)
(* What the library promises its caller: one append-only log.  A record    *)
(* joins at the end, a flush makes everything appended so far durable, and *)
(* a failure takes away at most an unflushed tail (README: "Survives       *)
(* crashes"; sync_compat.rs: a flushed record is durable).                 *)
(*                                                                         *)
(* The log is a set of placed records <<segment, position, input>>, whose  *)
(* places order them.                                                      *)
(***************************************************************************)
EXTENDS Naturals

CONSTANT Inputs

VARIABLES log, durable

PlacedRecords == Nat \X Nat \X Inputs

Precedes(a, b) == a[1] < b[1] \/ (a[1] = b[1] /\ a[2] < b[2])

LogInit ==
  /\ log = {}
  /\ durable = {}

\* e comes after everything in the log.
LogAppend ==
  \E e \in log' \ log :
    /\ e \in PlacedRecords
    /\ \A f \in log : Precedes(f, e)
    /\ log' = log \cup {e}
    /\ UNCHANGED durable

LogFlush ==
  /\ durable' = log
  /\ UNCHANGED log

\* A front part of the log is left, with everything durable.
LogLose ==
  /\ durable \subseteq log'
  /\ log' \subseteq log
  /\ \A e \in log', f \in log : Precedes(f, e) => f \in log'
  /\ UNCHANGED durable

LogNext == LogAppend \/ LogFlush \/ LogLose

LogSpec == LogInit /\ [][LogNext]_<<log, durable>>
=============================================================================
