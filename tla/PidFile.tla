------------------------------ MODULE PidFile ------------------------------
(***************************************************************************)
(* The pid file of a data directory (cmd/yabber/pidfile_unix.go): `yabber  *)
(* run` locks it for as long as it lives, `yabber reload` probes the lock  *)
(* to find the instance and sends it SIGHUP.  The file is a name and the   *)
(* inodes that name has had; flock locks an inode through an open file,    *)
(* so a removed file can still be locked.  A process of either kind may    *)
(* be anywhere between two of its system calls.                            *)
(***************************************************************************)
EXTENDS Naturals, FiniteSets

CONSTANTS
    Instances,   \* `yabber run` processes, one start each; also their pids
    Reloads,     \* `yabber reload` processes
    Inodes,      \* bound: files created under the name
    MaxReleases, \* bound: instances that stop in order
    MaxCrashes,  \* bound: instances that die at any point
    MaxUnwritten,\* bound: instances whose pid cannot be written
    Nil

ASSUME PidFileAssumption ==
    /\ Nil \notin Inodes /\ Nil \notin Instances
    /\ Instances \cap Reloads = {}
    /\ MaxReleases \in Nat /\ MaxCrashes \in Nat /\ MaxUnwritten \in Nat

VARIABLES
    name,    \* the inode the path names, or Nil
    content, \* what each inode holds: a pid, Nil when empty
    pc,      \* where each process is
    fd,      \* the inode each process has open, or Nil
    shared,  \* reload processes holding a shared lock
    pid,     \* the pid a reload has read, or Nil
    used     \* inodes created so far

vars == <<name, content, pc, fd, shared, pid, used>>

\* An instance holds the exclusive lock in these states; "starting" ends
\* when run.go calls signal.Notify, "removed" when release closes the file.
Locking == {"locked", "truncated", "starting", "running", "removed"}

TypeOK ==
    /\ name \in Inodes \cup {Nil}
    /\ content \in [Inodes -> Instances \cup {Nil}]
    /\ pc \in [Instances \cup Reloads ->
                  Locking \cup {"new", "opened", "refused", "stopped", "killed", "crashed",
                                "probed", "read", "done"}]
    /\ fd \in [Instances \cup Reloads -> Inodes \cup {Nil}]
    /\ \A p \in Instances : fd[p] # Nil => pc[p] \in Locking \cup {"opened"}
    /\ shared \subseteq Reloads
    /\ pid \in [Reloads -> Instances \cup {Nil}]
    /\ used \subseteq Inodes

Init ==
    /\ name = Nil
    /\ content = [i \in Inodes |-> Nil]
    /\ pc = [p \in Instances \cup Reloads |-> "new"]
    /\ fd = [p \in Instances \cup Reloads |-> Nil]
    /\ shared = {}
    /\ pid = [r \in Reloads |-> Nil]
    /\ used = {}

Goto(p, state) == pc' = [pc EXCEPT ![p] = state]

Holds(p) == pc[p] \in Locking
Ended(p) == pc[p] \in {"stopped", "killed", "crashed"}

\* Mutant of LockedByOther: a pid in the file stands for the lock.
NamesOther(p) == content[fd[p]] \notin {p, Nil}

\* flock would block: another process has an exclusive lock on p's inode.
LockedByOther(p) == \E q \in Instances \ {p} : Holds(q) /\ fd[q] = fd[p]
SharedByOther(p) == \E r \in shared : fd[r] = fd[p]

-----------------------------------------------------------------------------
(* acquirePidFile, the instance's life, release.                           *)

Open(p) ==
    /\ pc[p] = "new"
    /\ IF name # Nil
       THEN fd' = [fd EXCEPT ![p] = name] /\ UNCHANGED <<name, used>>
       ELSE \E i \in Inodes \ used :
               fd' = [fd EXCEPT ![p] = i] /\ name' = i /\ used' = used \cup {i}
    /\ Goto(p, "opened")
    /\ UNCHANGED <<content, shared, pid>>

Flock(p) ==
    /\ pc[p] = "opened" /\ ~LockedByOther(p) /\ ~SharedByOther(p)
    /\ Goto(p, "locked")
    /\ UNCHANGED <<name, content, fd, shared, pid, used>>

\* Mutant of Refuse: the file stays open.
RefuseLeaks(p) ==
    /\ pc[p] = "opened" /\ (LockedByOther(p) \/ SharedByOther(p))
    /\ Goto(p, "refused")
    /\ UNCHANGED <<name, content, fd, shared, pid, used>>

\* "another yabber is running with this data directory"
Refuse(p) ==
    /\ pc[p] = "opened" /\ (LockedByOther(p) \/ SharedByOther(p))
    /\ fd' = [fd EXCEPT ![p] = Nil]
    /\ Goto(p, "refused")
    /\ UNCHANGED <<name, content, shared, pid, used>>

\* Mutant of Truncate: the old pid stays until the new one is written.
TruncateLater(p) ==
    /\ pc[p] = "locked"
    /\ Goto(p, "truncated")
    /\ UNCHANGED <<name, content, fd, shared, pid, used>>

\* Truncating an open regular file to nothing allocates nothing and is taken
\* to succeed.
Truncate(p) ==
    /\ pc[p] = "locked"
    /\ content' = [content EXCEPT ![fd[p]] = Nil]
    /\ Goto(p, "truncated")
    /\ UNCHANGED <<name, fd, shared, pid, used>>

WritePid(p) ==
    /\ pc[p] = "truncated"
    /\ content' = [content EXCEPT ![fd[p]] = p]
    /\ Goto(p, "starting")
    /\ UNCHANGED <<name, fd, shared, pid, used>>

\* The error of WriteAt is lost in a shadowed variable: the instance goes on
\* with an empty file.
WriteFails(p) ==
    /\ pc[p] = "truncated"
    /\ Cardinality({q \in Instances : Holds(q) /\ content[fd[q]] = Nil}) <= MaxUnwritten
    /\ Goto(p, "starting")
    /\ UNCHANGED <<name, content, fd, shared, pid, used>>

\* Load, New and Start succeeded; signal.Notify has been called.
Serve(p) ==
    /\ pc[p] = "starting"
    /\ Goto(p, "running")
    /\ UNCHANGED <<name, content, fd, shared, pid, used>>

\* release, first statement, on SIGTERM or when starting failed: it removes
\* whatever file has the name now.
Remove(p) ==
    /\ pc[p] \in {"starting", "running"}
    /\ Cardinality({q \in Instances : pc[q] \in {"removed", "stopped"}}) < MaxReleases
    /\ name' = Nil
    /\ Goto(p, "removed")
    /\ UNCHANGED <<content, fd, shared, pid, used>>

\* release, second statement: closing the file drops the lock.
Close(p) ==
    /\ pc[p] = "removed"
    /\ fd' = [fd EXCEPT ![p] = Nil]
    /\ Goto(p, "stopped")
    /\ UNCHANGED <<name, content, shared, pid, used>>

\* The kernel closes the files of a process that dies.
Crash(p) ==
    /\ pc[p] \in Locking \cup {"opened"}
    /\ Cardinality({q \in Instances : pc[q] = "crashed"}) < MaxCrashes
    /\ fd' = [fd EXCEPT ![p] = Nil]
    /\ Goto(p, "crashed")
    /\ UNCHANGED <<name, content, shared, pid, used>>

-----------------------------------------------------------------------------
(* runningPid and reloadCommand.                                           *)

\* Without a file: "not running", nothing is opened.
ReloadOpen(r) ==
    /\ pc[r] = "new"
    /\ IF name = Nil
       THEN Goto(r, "done") /\ UNCHANGED fd
       ELSE Goto(r, "opened") /\ fd' = [fd EXCEPT ![r] = name]
    /\ UNCHANGED <<name, content, shared, pid, used>>

\* The shared lock is granted: a stale pid file.
ProbeGranted(r) ==
    /\ pc[r] = "opened" /\ ~LockedByOther(r)
    /\ shared' = shared \cup {r}
    /\ Goto(r, "probed")
    /\ UNCHANGED <<name, content, fd, pid, used>>

ProbeUnlock(r) ==
    /\ pc[r] = "probed"
    /\ shared' = shared \ {r}
    /\ fd' = [fd EXCEPT ![r] = Nil]
    /\ Goto(r, "done")
    /\ UNCHANGED <<name, content, pid, used>>

\* The lock is held: read the pid.  An empty file is "unreadable".
ProbeRead(r) ==
    /\ pc[r] = "opened" /\ LockedByOther(r)
    /\ Goto(r, "read")
    /\ UNCHANGED <<name, content, fd, shared, pid, used>>

ReadPid(r) ==
    /\ pc[r] = "read" /\ pid[r] = Nil
    /\ pid' = [pid EXCEPT ![r] = content[fd[r]]]
    /\ fd' = [fd EXCEPT ![r] = Nil]
    /\ IF pid'[r] = Nil THEN Goto(r, "done") ELSE UNCHANGED pc
    /\ UNCHANGED <<name, content, shared, used>>

\* kill(pid, SIGHUP): reloads a running instance, and terminates one that
\* has not called signal.Notify yet.  Anyone else with that pid gets it too.
Kill(r) ==
    /\ pc[r] = "read" /\ pid[r] # Nil
    /\ LET p == pid[r]
           dies == pc[p] \in {"new", "opened", "locked", "truncated", "starting"}
       IN  /\ pc' = [pc EXCEPT ![r] = "done", ![p] = IF dies THEN "killed" ELSE @]
           /\ fd' = IF dies THEN [fd EXCEPT ![p] = Nil] ELSE fd
    /\ UNCHANGED <<name, content, shared, pid, used>>

-----------------------------------------------------------------------------
Run(p) ==
    \/ Open(p) \/ Flock(p) \/ Refuse(p) \/ Truncate(p) \/ WritePid(p) \/ WriteFails(p)
    \/ Serve(p) \/ Close(p)

Reload(r) ==
    \/ ReloadOpen(r) \/ ProbeGranted(r) \/ ProbeUnlock(r) \/ ProbeRead(r)
    \/ ReadPid(r) \/ Kill(r)

Next ==
    \/ \E p \in Instances : Run(p) \/ Remove(p) \/ Crash(p)
    \/ \E r \in Reloads : Reload(r)

Spec == Init /\ [][Next]_vars

-----------------------------------------------------------------------------
(* Properties.                                                             *)

\* As long as nobody has unlinked the first file, at most one instance holds
\* the lock, however starts, refusals, reload probes and crashes overlap.
OneInstanceUntilUnlinked ==
    used \subseteq {name} => \A p, q \in Instances : Holds(p) /\ Holds(q) => p = q

\* The file an instance has locked names it or, when the pid could not be
\* written, nobody, whatever starts, stops, probes and crashes overlapped it.
\* Only between Flock and Truncate may it still name another instance, never
\* one that lives: one that has stopped or died before.  A reload in that window
\* signals that pid, though pidfile_unix.go:17-18 says that "a stale file after
\* a crash never [...] misdirects a reload".
RunningIsNamed ==
    \A p \in Instances : Holds(p) =>
        \/ content[fd[p]] \in {p, Nil}
        \/ pc[p] = "locked" /\ Ended(content[fd[p]])

\* What the documentation says and the code does not do.  README.md:82: "`run`
\* holds an exclusive lock on DIR/yabber.pid, so two instances can never share
\* ACME state".
OneInstance == \A p, q \in Instances : Holds(p) /\ Holds(q) => p = q
=============================================================================
