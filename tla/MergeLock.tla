----------------------------- MODULE MergeLock -----------------------------
(***************************************************************************)
(* The file lock of `stamp merge` (src/lib/mergeLock.ts), one system call  *)
(* per action.  A member of Procs is one `stamp merge` invocation, that is *)
(* one operating-system process: it acquires the lock at most once, so the *)
(* inode it creates is named after it.  Its record {pid, host, startedAt}  *)
(* is written by a call of its own after the exclusive create, and every   *)
(* unlink is by path: it removes whatever file is there.                   *)
(*                                                                         *)
(* Time is one bit per invocation: overdue says that its startedAt is more *)
(* than staleSec old.  The ghost variable robbed collects the invocations  *)
(* whose lock file another one unlinked while they still relied on it.     *)
(***************************************************************************)
EXTENDS Naturals

CONSTANTS
    Procs,       \* the `stamp merge` invocations on one git common dir
    NoProc,      \* no lock file / no record read
    HostOf,      \* hostname() of each invocation
    Slow,        \* invocations that may run longer than staleSec
    Mortal,      \* invocations that may be killed
    DiskFaults,  \* may a write or an unlink of the lock file fail?
    MaxRetries   \* MAX_RETRIES

ASSUME NoProcAssumption == NoProc \notin Procs
ASSUME MaxRetriesAssumption == MaxRetries \in Nat \ {0}
ASSUME DiskFaultsAssumption == DiskFaults \in BOOLEAN

VARIABLES
    lockFile,   \* the inode at lockPath, named after its creator, or NoProc
    written,    \* inodes that hold a complete record
    overdue,    \* invocations that started more than staleSec ago
    lpc,        \* where each invocation is in acquireMergeLock
    attempt,    \* `attempt`, the loop counter
    seen,       \* the record read in isStale
    robbed      \* ghost: lost their file to another's unlink

lockVars == <<lockFile, written, overdue, lpc, attempt, seen, robbed>>

\* Types, and: an invocation that has not given up has a turn of the loop left.
LockTypeOK ==
    /\ lockFile \in Procs \cup {NoProc}
    /\ written \subseteq Procs
    /\ overdue \subseteq Procs
    /\ lpc \in [Procs -> {"start", "open", "write", "read", "judge", "unlink",
                          "held", "released", "done", "failed", "diskError", "dead"}]
    /\ attempt \in [Procs -> 0..MaxRetries]
    /\ seen \in [Procs -> Procs \cup {NoProc}]
    /\ robbed \subseteq Procs
    /\ \A p \in Procs : lpc[p] # "failed" => attempt[p] < MaxRetries

LockInit ==
    /\ lockFile = NoProc
    /\ written = {}
    /\ overdue = {}
    /\ lpc = [p \in Procs |-> "start"]
    /\ attempt = [p \in Procs |-> 0]
    /\ seen = [p \in Procs |-> NoProc]
    /\ robbed = {}

-----------------------------------------------------------------------------

\* Invocations that have returned or died: `kill -0` finds no such process.
Gone(p) == lpc[p] \in {"done", "failed", "diskError", "dead"}

\* Between the exclusive create and the release, p relies on its lock file.
Relies(p) == lpc[p] \in {"write", "held"}

\* An unlink of lockPath by p, whoever's file is there.
Unlink(p) ==
    /\ lockFile' = NoProc
    /\ robbed' = robbed \cup {q \in Procs \ {p} : lockFile = q /\ Relies(q)}

\* acquireMergeLock is called; startedAt is read.
Invoke(p) ==
    /\ lpc[p] = "start"
    /\ lpc' = [lpc EXCEPT ![p] = "open"]
    /\ UNCHANGED <<lockFile, written, overdue, attempt, seen, robbed>>

\* A slip of OpenExclusive: the file is opened without O_EXCL.
OpenShared(p) ==
    /\ lpc[p] = "open"
    /\ lockFile' = p
    /\ lpc' = [lpc EXCEPT ![p] = "write"]
    /\ UNCHANGED <<written, overdue, attempt, seen, robbed>>

\* openSync(lockPath, "wx") succeeds: an EMPTY file exists from now on.
OpenExclusive(p) ==
    /\ lpc[p] = "open"
    /\ lockFile = NoProc
    /\ lockFile' = p
    /\ lpc' = [lpc EXCEPT ![p] = "write"]
    /\ UNCHANGED <<written, overdue, attempt, seen, robbed>>

\* openSync fails with EEXIST.
OpenExists(p) ==
    /\ lpc[p] = "open"
    /\ lockFile # NoProc
    /\ lpc' = [lpc EXCEPT ![p] = "read"]
    /\ UNCHANGED <<lockFile, written, overdue, attempt, seen, robbed>>

\* writeFileSync on the descriptor: it reaches p's own inode, linked or not.
WriteRecord(p) ==
    /\ lpc[p] = "write"
    /\ written' = written \cup {p}
    /\ lpc' = [lpc EXCEPT ![p] = "held"]
    /\ UNCHANGED <<lockFile, overdue, attempt, seen, robbed>>

\* writeFileSync fails (disk full): the error propagates, the empty file stays.
WriteFails(p) ==
    /\ DiskFaults
    /\ lpc[p] = "write"
    /\ lpc' = [lpc EXCEPT ![p] = "diskError"]
    /\ UNCHANGED <<lockFile, written, overdue, attempt, seen, robbed>>

\* isStale, readFileSync and JSON.parse: a missing or an incomplete file is
\* stale at once, a record is kept for the checks that follow.
ReadRecord(p) ==
    /\ lpc[p] = "read"
    /\ \/ /\ lockFile \notin written
          /\ lpc' = [lpc EXCEPT ![p] = "unlink"]
          /\ seen' = [seen EXCEPT ![p] = NoProc]
       \/ /\ lockFile \in written
          /\ lpc' = [lpc EXCEPT ![p] = "judge"]
          /\ seen' = [seen EXCEPT ![p] = lockFile]
    /\ UNCHANGED <<lockFile, written, overdue, attempt, robbed>>

\* A slip of Stale: the pid is not probed.
StaleUnprobed(p, q) == q \in overdue \/ HostOf[q] # HostOf[p]

\* isStale's verdict on the record q that p read: age, then host, then pid.
Stale(p, q) == q \in overdue \/ HostOf[q] # HostOf[p] \/ Gone(q)

JudgeHolder(p) ==
    /\ lpc[p] = "judge"
    /\ lpc' = [lpc EXCEPT ![p] = IF Stale(p, seen[p]) THEN "unlink" ELSE "failed"]
    /\ UNCHANGED <<lockFile, written, overdue, attempt, seen, robbed>>

\* A slip of UnlinkStale: one turn of the loop too many.
UnlinkOnceMore(p) ==
    /\ lpc[p] = "unlink"
    /\ Unlink(p)
    /\ attempt' = [attempt EXCEPT ![p] = @ + 1]
    /\ lpc' = [lpc EXCEPT ![p] = IF attempt[p] + 1 <= MaxRetries THEN "open" ELSE "failed"]
    /\ UNCHANGED <<written, overdue, seen>>

\* unlinkSync of the lock judged stale (ENOENT is fine), then the next turn of
\* the loop, or the contention error after MaxRetries turns.
UnlinkStale(p) ==
    /\ lpc[p] = "unlink"
    /\ Unlink(p)
    /\ attempt' = [attempt EXCEPT ![p] = @ + 1]
    /\ lpc' = [lpc EXCEPT ![p] = IF attempt[p] + 1 < MaxRetries THEN "open" ELSE "failed"]
    /\ UNCHANGED <<written, overdue, seen>>

\* unlinkSync fails with anything but ENOENT: the loop is left with lastErr.
UnlinkFails(p) ==
    /\ DiskFaults
    /\ lpc[p] = "unlink"
    /\ lpc' = [lpc EXCEPT ![p] = "diskError"]
    /\ UNCHANGED <<lockFile, written, overdue, attempt, seen, robbed>>

\* makeLock's release: unlink by path, with no look at who owns the file.
Release(p) ==
    /\ lpc[p] = "held"
    /\ Unlink(p)
    /\ lpc' = [lpc EXCEPT ![p] = "released"]
    /\ UNCHANGED <<written, overdue, attempt, seen>>

Exit(p) ==
    /\ lpc[p] = "released"
    /\ lpc' = [lpc EXCEPT ![p] = "done"]
    /\ UNCHANGED <<lockFile, written, overdue, attempt, seen, robbed>>

\* SIGKILL, or an unhandled SIGINT: no `finally` runs and the file stays.
Die(p) ==
    /\ p \in Mortal
    /\ lpc[p] # "start" /\ ~Gone(p)
    /\ lpc' = [lpc EXCEPT ![p] = "dead"]
    /\ UNCHANGED <<lockFile, written, overdue, attempt, seen, robbed>>

\* staleSec passes since p's startedAt.
Overrun(p) ==
    /\ p \in Slow \ overdue
    /\ lpc[p] # "start"
    /\ overdue' = overdue \cup {p}
    /\ UNCHANGED <<lockFile, written, lpc, attempt, seen, robbed>>

\* Every step of p that takes or probes the lock.
Acquire(p) ==
    \/ Invoke(p) \/ OpenExclusive(p) \/ OpenExists(p) \/ WriteRecord(p)
    \/ WriteFails(p) \/ ReadRecord(p) \/ JudgeHolder(p) \/ UnlinkStale(p)
    \/ UnlinkFails(p)

LockNext == \E p \in Procs : Acquire(p) \/ Release(p) \/ Exit(p) \/ Die(p) \/ Overrun(p)

LockSpec == LockInit /\ [][LockNext]_lockVars

\* A running process is scheduled until it ends; no fairness on kills, on the
\* passing of time or on the faults of the disk.
LockStep(p) ==
    \/ Invoke(p) \/ OpenExclusive(p) \/ OpenExists(p) \/ WriteRecord(p)
    \/ ReadRecord(p) \/ JudgeHolder(p) \/ UnlinkStale(p) \/ Release(p) \/ Exit(p)

LockFairness == \A p \in Procs : WF_lockVars(LockStep(p))

LockFairSpec == LockSpec /\ LockFairness

-----------------------------------------------------------------------------

Holding(p) == lpc[p] = "held"

\* What the lock does guarantee: if two invocations are in the locked section
\* together, one of them had its file unlinked by another invocation.  The
\* exclusive create alone never lets a second one in.
ExclusionUnlessRobbed ==
    \A p, q \in Procs : Holding(p) /\ Holding(q) /\ p # q => {p, q} \cap robbed # {}

\* A lock file left behind by a killed merge does not block the next one: an
\* invocation that starts when every other one is gone gets the lock, unless it
\* is killed or the disk fails it.
Alone(p) == lpc[p] = "open" /\ attempt[p] = 0 /\ \A q \in Procs \ {p} : Gone(q)

CrashedHolderDoesNotBlock ==
    \A p \in Procs : Alone(p) ~> (Holding(p) \/ lpc[p] \in {"dead", "diskError"})
=============================================================================
