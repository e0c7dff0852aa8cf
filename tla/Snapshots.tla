------------------------------ MODULE Snapshots ------------------------------
(***************************************************************************)
(* SqliteLedgerStore.create_snapshot: a copy of the ledger made under the  *)
(* writer lock and, if it is compressed, turned into its final file after  *)
(* the lock is released, through a temporary file beside the destination   *)
(* whose name is the destination's with the suffix ".sqlite3".             *)
(*                                                                         *)
(* The directory is a map from names to contents.  The writer connection   *)
(* keeps the ledger open, so it goes on working when its name is gone.     *)
(***************************************************************************)
EXTENDS Integers

CONSTANTS Threads,       \* callers of create_snapshot
          Stems,         \* file names without their suffix
          Book,          \* of these, the stem of the ledger's own file
          Destinations,  \* what callers ask for: records of a path and compress
          None,
          MaxCommits     \* bound: the writes made to the ledger

Suffixes == {".sqlite3", ".zst"}
Paths == Stems \X Suffixes

VARIABLES
  files,      \* what each name of the directory holds
  commits,    \* writes committed to the open ledger
  writerLock, \* the thread that holds _writer_lock
  pc,         \* where each thread is
  call,       \* the destination it asked for
  at,         \* the commits its checkpoint moved into the ledger's file
  raw         \* raw_bytes, before they are compressed

vars == <<files, commits, writerLock, pc, call, at, raw>>

-----------------------------------------------------------------------------
LedgerFile == [kind |-> "ledger"]
Partial == [kind |-> "partial"]
Sqlite(n) == [kind |-> "sqlite", commits |-> n]
Zstd(content) == [kind |-> "zstd", of |-> content]

\* The file the backup is written to.
TempPath(c) == IF c.compress THEN <<c.path[1], ".sqlite3">> ELSE c.path

Init ==
  /\ files = [p \in Paths |-> IF p = <<Book, ".sqlite3">> THEN LedgerFile ELSE None]
  /\ commits = 0
  /\ writerLock = None
  /\ pc = [t \in Threads |-> "idle"]
  /\ call = [t \in Threads |-> None]
  /\ at = [t \in Threads |-> 0]
  /\ raw = [t \in Threads |-> None]

Leave(t, where) == pc' = [pc EXCEPT ![t] = where]

\* Any write of the store.
Commit ==
  /\ writerLock = None
  /\ commits < MaxCommits
  /\ commits' = commits + 1
  /\ UNCHANGED <<files, writerLock, pc, call, at, raw>>

Call(t) ==
  /\ pc[t] = "idle"
  /\ \E c \in Destinations : call' = [call EXCEPT ![t] = c]
  /\ Leave(t, "lock")
  /\ UNCHANGED <<files, commits, writerLock, at, raw>>

\* wal_checkpoint(TRUNCATE), which raises BusyError while a reader holds frames.
Checkpoint(t) ==
  /\ pc[t] = "lock"
  /\ writerLock = None
  /\ \/ /\ writerLock' = t
        /\ at' = [at EXCEPT ![t] = commits]
        /\ Leave(t, "backup")
     \/ /\ Leave(t, "raised")
        /\ UNCHANGED <<writerLock, at>>
  /\ UNCHANGED <<files, commits, call, raw>>

\* What a backup may be written over: nothing, or another database.
Replaceable(content) == content = None \/ content.kind \in {"sqlite", "partial"}

\* The destination is opened, created if need be, and the steps begin.  Copied
\* to the ledger's own name, the ledger replaces itself by itself.
BeginBackup(t) ==
  /\ pc[t] = "backup"
  /\ files' = [files EXCEPT ![TempPath(call[t])] =
                 IF Replaceable(@) THEN Partial ELSE @]
  /\ Leave(t, "steps")
  /\ UNCHANGED <<commits, writerLock, call, at, raw>>

EndBackup(t) ==
  /\ pc[t] = "steps"
  /\ files[TempPath(call[t])] \in {Partial, LedgerFile, None}
  /\ files' = [files EXCEPT ![TempPath(call[t])] =
                 IF @ = Partial THEN Sqlite(commits) ELSE @]
  /\ writerLock' = None
  /\ Leave(t, IF call[t].compress THEN "read" ELSE "returned")
  /\ UNCHANGED <<commits, call, at, raw>>

\* A step of the backup raises: a full disk, or a destination that is no database.
BackupFails(t) ==
  /\ pc[t] = "steps"
  /\ writerLock' = None
  /\ Leave(t, "raised")
  /\ UNCHANGED <<files, commits, call, at, raw>>

\* temp_path.read_bytes(), outside the lock.  The ledger's own file lacks what
\* is still in its WAL.
ReadBytes(t) ==
  /\ pc[t] = "read"
  /\ LET content == files[TempPath(call[t])]
     IN /\ Leave(t, IF content = None THEN "raised" ELSE "write")
        /\ \E n \in at[t]..commits :
             raw' = [raw EXCEPT ![t] = IF content = LedgerFile THEN Sqlite(n) ELSE content]
  /\ UNCHANGED <<files, commits, writerLock, call, at>>

WriteBytes(t) ==
  /\ pc[t] = "write"
  /\ files' = [files EXCEPT ![call[t].path] = Zstd(raw[t])]
  /\ Leave(t, "unlink")
  /\ UNCHANGED <<commits, writerLock, call, at, raw>>

Unlink(t) ==
  /\ pc[t] = "unlink"
  /\ Leave(t, IF files[TempPath(call[t])] = None THEN "raised" ELSE "returned")
  /\ files' = [files EXCEPT ![TempPath(call[t])] = None]
  /\ UNCHANGED <<commits, writerLock, call, at, raw>>

\* The caller has its DatabaseSnapshot, or its exception, and goes on.
Return(t) ==
  /\ pc[t] \in {"returned", "raised"}
  /\ Leave(t, "idle")
  /\ UNCHANGED <<files, commits, writerLock, call, at, raw>>

Next == \/ Commit
        \/ \E t \in Threads : \/ Call(t) \/ Checkpoint(t) \/ BeginBackup(t)
                              \/ EndBackup(t) \/ BackupFails(t) \/ ReadBytes(t)
                              \/ WriteBytes(t) \/ Unlink(t) \/ Return(t)

Spec == Init /\ [][Next]_vars

-----------------------------------------------------------------------------
(* Properties.                                                             *)

\* Threads whose own call may be changing the same files.
Others(t) == {u \in Threads \ {t} : pc[u] \notin {"idle", "lock", "returned", "raised"}}

\* create_snapshot returns a DatabaseSnapshot only when its output_path holds
\* the ledger as of the call, in the form that was asked for.
SnapshotIsThere ==
  \A t \in Threads :
    pc[t] = "returned" /\ Others(t) = {} =>
      \E n \in at[t]..commits :
        files[call[t].path] = IF call[t].compress THEN Zstd(Sqlite(n)) ELSE Sqlite(n)
=============================================================================
