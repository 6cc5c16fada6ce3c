--------------------------- MODULE PidFileProofs ---------------------------
(***************************************************************************)
(* Proofs about PidFile for any number of processes and inodes.  PidInv is *)
(* inductive: who has which inode open, that a lock is exclusive for its   *)
(* inode, and what a locked inode says.                                    *)
(***************************************************************************)
EXTENDS PidFile, TLAPS

HasFile(p) == pc[p] \in Locking \cup {"opened"}

\* A process that is about to use its file has one.
FdInv ==
    /\ name # Nil => name \in used
    /\ \A p \in Instances : HasFile(p) => fd[p] \in used
    /\ \A r \in Reloads : pc[r] \in {"opened", "read"} /\ pid[r] = Nil => fd[r] \in Inodes

LockInv == \A p, q \in Instances : Holds(p) /\ Holds(q) /\ fd[p] = fd[q] => p = q

\* Only the holder of the lock writes the inode, and it keeps the lock for as
\* long as it lives.
ContentInv ==
    /\ \A p \in Instances :
           /\ pc[p] = "truncated" => content[fd[p]] = Nil
           /\ pc[p] \in Locking \ {"locked"} => content[fd[p]] \in {p, Nil}
    /\ \A i \in Inodes : content[i] # Nil =>
           \/ Ended(content[i])
           \/ Holds(content[i]) /\ fd[content[i]] = i

PidInv == TypeOK /\ FdInv /\ LockInv /\ ContentInv

LEMMA InitPidInv == Init => PidInv
  BY PidFileAssumption
     DEF Init, PidInv, TypeOK, FdInv, HasFile, LockInv, Holds, Locking, ContentInv, Ended

\* What a step changes of the positions when it moves one process.
LEMMA GotoFacts ==
    ASSUME TypeOK, NEW p \in Instances \cup Reloads,
           NEW state \in Locking \cup {"new", "opened", "refused", "stopped", "killed",
                                       "crashed", "probed", "read", "done"},
           Goto(p, state)
    PROVE  /\ pc'[p] = state
           /\ \A q \in Instances \cup Reloads : q # p => pc'[q] = pc[q]
           /\ pc' \in [Instances \cup Reloads ->
                  Locking \cup {"new", "opened", "refused", "stopped", "killed", "crashed",
                                "probed", "read", "done"}]
  BY DEF TypeOK, Goto

\* Steps after which every instance is where it was, or has ended or been refused.
LEMMA QuietKeepsPidInv ==
    ASSUME PidInv, TypeOK', UNCHANGED <<name, content, used>>,
           \A p \in Instances : \/ pc'[p] = pc[p] /\ fd'[p] = fd[p]
                                \/ Ended(p)'
                                \/ pc[p] = "opened" /\ pc'[p] = "refused",
           \A r \in Reloads : pc'[r] \in {"opened", "read"} /\ pid'[r] = Nil => fd'[r] \in Inodes
    PROVE  PidInv'
  <1>1. FdInv'
    BY DEF PidInv, FdInv, HasFile, Locking, Ended
  <1>2. LockInv'
    BY DEF PidInv, LockInv, Holds, Locking, Ended
  <1>3. ContentInv'
    <2>1. \A p \in Instances :
             /\ pc'[p] = "truncated" => content'[fd'[p]] = Nil
             /\ pc'[p] \in Locking \ {"locked"} => content'[fd'[p]] \in {p, Nil}
      BY DEF PidInv, ContentInv, Locking, Ended
    <2>2. ASSUME NEW i \in Inodes, content'[i] # Nil
          PROVE  \/ Ended(content[i])'
                 \/ Holds(content[i])' /\ fd'[content'[i]] = i
      <3> DEFINE q == content[i]
      <3>1. q \in Instances /\ content'[i] = q
        BY <2>2 DEF PidInv, TypeOK
      <3>2. Ended(q) \/ (Holds(q) /\ fd[q] = i)
        BY <2>2, <3>1 DEF PidInv, ContentInv
      <3>. QED
        BY <3>1, <3>2 DEF Ended, Holds, Locking
    <2>. QED
      BY <2>1, <2>2 DEF ContentInv
  <1>. QED
    BY <1>1, <1>2, <1>3 DEF PidInv

LEMMA OpenKeepsPidInv ==
    ASSUME PidInv, NEW p \in Instances, Open(p)
    PROVE  PidInv'
  <1> USE DEF PidInv
  <1>1. /\ pc'[p] = "opened"
        /\ \A q \in Instances \cup Reloads : q # p => pc'[q] = pc[q]
        /\ pc' \in [Instances \cup Reloads ->
                  Locking \cup {"new", "opened", "refused", "stopped", "killed", "crashed",
                                "probed", "read", "done"}]
    BY GotoFacts DEF Open
  <1>2. PICK i \in Inodes : /\ fd' = [fd EXCEPT ![p] = i] /\ name' = i
                            /\ used' = used \cup {i}
    <2>1. CASE name # Nil
      BY <2>1 DEF Open, TypeOK, FdInv
    <2>2. CASE name = Nil
      BY <2>2 DEF Open
    <2>. QED
      BY <2>1, <2>2
  <1>3. /\ fd'[p] = i /\ \A q \in Instances \cup Reloads : q # p => fd'[q] = fd[q]
        /\ UNCHANGED <<content, shared, pid>> /\ p \notin Reloads
    BY <1>2, PidFileAssumption DEF Open, TypeOK
  <1>4. TypeOK'
    BY <1>1, <1>2, <1>3 DEF TypeOK
  <1>5. FdInv'
    BY <1>1, <1>2, <1>3 DEF FdInv, HasFile
  <1>6. LockInv'
    BY <1>1, <1>3 DEF LockInv, Holds, Locking
  <1>7. pc[p] = "new"
    BY DEF Open
  <1>8. \A q \in Instances :
           /\ pc'[q] = "truncated" => content'[fd'[q]] = Nil
           /\ pc'[q] \in Locking \ {"locked"} => content'[fd'[q]] \in {q, Nil}
    BY <1>1, <1>3 DEF ContentInv, Locking
  <1>9. ASSUME NEW j \in Inodes, content'[j] # Nil
        PROVE  \/ Ended(content[j])'
               \/ Holds(content[j])' /\ fd'[content'[j]] = j
    <2> DEFINE q == content[j]
    <2>1. q \in Instances /\ content'[j] = q /\ (Ended(q) \/ (Holds(q) /\ fd[q] = j))
      BY <1>3, <1>9 DEF TypeOK, ContentInv
    <2>2. q # p
      BY <1>7, <2>1 DEF Ended, Holds, Locking
    <2>. QED
      BY <1>1, <1>3, <2>1, <2>2 DEF Ended, Holds
  <1>10. ContentInv'
    BY <1>8, <1>9 DEF ContentInv
  <1>. QED
    BY <1>4, <1>5, <1>6, <1>10

LEMMA FlockKeepsPidInv ==
    ASSUME PidInv, NEW p \in Instances, Flock(p)
    PROVE  PidInv'
  <1> USE DEF PidInv
  <1>1. /\ pc'[p] = "locked" /\ pc[p] = "opened"
        /\ \A q \in Instances \cup Reloads : q # p => pc'[q] = pc[q]
        /\ pc' \in [Instances \cup Reloads ->
                  Locking \cup {"new", "opened", "refused", "stopped", "killed", "crashed",
                                "probed", "read", "done"}]
        /\ UNCHANGED <<name, content, fd, shared, pid, used>>
        /\ p \notin Reloads
    BY GotoFacts, PidFileAssumption DEF Flock, Locking
  <1>2. \A q \in Instances : q # p /\ Holds(q) => fd[q] # fd[p]
    BY DEF Flock, LockedByOther
  <1>3. TypeOK' /\ FdInv'
    BY <1>1 DEF TypeOK, FdInv, HasFile
  <1>4. LockInv'
    BY <1>1, <1>2 DEF LockInv, Holds, Locking
  <1>5. ASSUME NEW i \in Inodes, content'[i] # Nil
        PROVE  \/ Ended(content[i])'
               \/ Holds(content[i])' /\ fd'[content'[i]] = i
    <2> DEFINE q == content[i]
    <2>1. q \in Instances /\ content'[i] = q /\ (Ended(q) \/ (Holds(q) /\ fd[q] = i))
      BY <1>1, <1>5 DEF TypeOK, ContentInv
    <2>2. q # p
      BY <1>1, <2>1 DEF Ended, Holds, Locking
    <2>. QED
      BY <1>1, <2>1, <2>2 DEF Ended, Holds
  <1>6. ContentInv'
    BY <1>1, <1>5 DEF ContentInv, Locking
  <1>. QED
    BY <1>3, <1>4, <1>6

\* The holder goes on: it may write its inode, and Remove unlinks the name.
LEMMA HolderKeepsPidInv ==
    ASSUME PidInv, NEW p \in Instances,
           Truncate(p) \/ WritePid(p) \/ WriteFails(p) \/ Serve(p) \/ Remove(p)
    PROVE  PidInv'
  <1> USE DEF PidInv, Truncate, WritePid, WriteFails, Serve, Remove
  <1>1. /\ pc'[p] \in Locking /\ pc[p] \in Locking
        /\ \A q \in Instances \cup Reloads : q # p => pc'[q] = pc[q]
        /\ pc' \in [Instances \cup Reloads ->
                  Locking \cup {"new", "opened", "refused", "stopped", "killed", "crashed",
                                "probed", "read", "done"}]
        /\ UNCHANGED <<fd, shared, pid, used>>
        /\ p \notin Reloads
    BY GotoFacts, PidFileAssumption DEF Locking
  <1>2. fd[p] \in Inodes /\ fd[p] \in used
    BY <1>1 DEF FdInv, HasFile, TypeOK
  <1>3. /\ content' \in [Inodes -> Instances \cup {Nil}]
        /\ \A i \in Inodes : i # fd[p] => content'[i] = content[i]
        /\ name' \in {name, Nil}
        /\ pc'[p] = "truncated" => content'[fd[p]] = Nil
        /\ pc'[p] \in Locking \ {"locked"}
        /\ content'[fd[p]] \in {p, Nil}
    <2>1. CASE Truncate(p)
      BY <1>2, <2>1, GotoFacts DEF TypeOK, Locking
    <2>2. CASE WritePid(p)
      BY <1>2, <2>2, GotoFacts DEF TypeOK, Locking
    <2>3. CASE WriteFails(p) \/ Serve(p) \/ Remove(p)
      BY <1>2, <2>3, GotoFacts DEF TypeOK, Locking, ContentInv
    <2>. QED
      BY <2>1, <2>2, <2>3
  <1>4. \A q \in Instances : q # p /\ Holds(q) => fd[q] # fd[p] /\ fd[q] \in Inodes
    BY <1>1 DEF LockInv, Holds, FdInv, HasFile, TypeOK
  <1>5. TypeOK' /\ FdInv'
    BY <1>1, <1>2, <1>3 DEF TypeOK, FdInv, HasFile
  <1>6. LockInv'
    BY <1>1 DEF LockInv, Holds
  <1>7. \A q \in Instances :
           /\ pc'[q] = "truncated" => content'[fd'[q]] = Nil
           /\ pc'[q] \in Locking \ {"locked"} => content'[fd'[q]] \in {q, Nil}
    BY <1>1, <1>3, <1>4 DEF ContentInv, Holds, Locking
  <1>8. ASSUME NEW i \in Inodes, content'[i] # Nil
        PROVE  \/ Ended(content[i])'
               \/ Holds(content[i])' /\ fd'[content'[i]] = i
    <2>1. CASE content'[i] = p /\ i = fd[p]
      BY <1>1, <2>1 DEF Holds
    <2>2. CASE content'[i] = content[i]
      <3> DEFINE q == content[i]
      <3>1. q \in Instances /\ (Ended(q) \/ (Holds(q) /\ fd[q] = i))
        BY <1>8, <2>2 DEF TypeOK, ContentInv
      <3>2. CASE q = p
        BY <1>1, <2>2, <3>1, <3>2 DEF Ended, Holds, Locking
      <3>3. CASE q # p
        BY <1>1, <2>2, <3>1, <3>3 DEF Ended, Holds
      <3>. QED
        BY <3>2, <3>3
    <2>. QED
      BY <1>3, <1>8, <2>1, <2>2
  <1>9. ContentInv'
    BY <1>7, <1>8 DEF ContentInv
  <1>. QED
    BY <1>5, <1>6, <1>9

\* Refused, stopped or dead: the file is closed.
LEMMA EndKeepsPidInv ==
    ASSUME PidInv, NEW p \in Instances, Refuse(p) \/ Close(p) \/ Crash(p)
    PROVE  PidInv'
  <1> USE DEF PidInv, Refuse, Close, Crash
  <1>1. PICK state \in {"refused", "stopped", "crashed"} :
            /\ Goto(p, state) /\ fd' = [fd EXCEPT ![p] = Nil]
            /\ UNCHANGED <<name, content, shared, pid, used>>
    OBVIOUS
  <1>2. /\ pc'[p] = state
        /\ \A q \in Instances \cup Reloads : q # p => pc'[q] = pc[q] /\ fd'[q] = fd[q]
        /\ TypeOK'
    BY <1>1, GotoFacts DEF TypeOK
  <1>3. /\ state \notin {"opened", "read"} /\ p \notin Reloads
        /\ Ended(p)' \/ (pc[p] = "opened" /\ pc'[p] = "refused")
    <2>1. CASE Refuse(p)
      BY <1>1, <1>2, <2>1, PidFileAssumption, GotoFacts DEF TypeOK
    <2>2. CASE Close(p)
      BY <1>1, <1>2, <2>2, PidFileAssumption, GotoFacts DEF TypeOK, Ended
    <2>3. CASE Crash(p)
      BY <1>1, <1>2, <2>3, PidFileAssumption, GotoFacts DEF TypeOK, Ended
    <2>. QED
      BY <2>1, <2>2, <2>3
  <1>4. \A r \in Reloads : pc'[r] \in {"opened", "read"} /\ pid'[r] = Nil => fd'[r] \in Inodes
    BY <1>1, <1>2, <1>3 DEF FdInv
  <1>. QED
    BY <1>1, <1>2, <1>3, <1>4, QuietKeepsPidInv

LEMMA ProbeKeepsPidInv ==
    ASSUME PidInv, NEW r \in Reloads,
           ReloadOpen(r) \/ ProbeGranted(r) \/ ProbeUnlock(r) \/ ProbeRead(r) \/ ReadPid(r)
    PROVE  PidInv'
  <1> USE DEF PidInv, ReloadOpen, ProbeGranted, ProbeUnlock, ProbeRead, ReadPid
  <1>1. UNCHANGED <<name, content, used>> /\ r \notin Instances
    BY PidFileAssumption
  <1>2. /\ \A q \in Instances \cup Reloads : q # r => pc'[q] = pc[q] /\ fd'[q] = fd[q]
        /\ \A q \in Reloads : q # r => pid'[q] = pid[q]
        /\ pc' \in [Instances \cup Reloads ->
                  Locking \cup {"new", "opened", "refused", "stopped", "killed", "crashed",
                                "probed", "read", "done"}]
    BY DEF TypeOK, Goto
  <1>3. pid' \in [Reloads -> Instances \cup {Nil}]
    BY DEF TypeOK, FdInv
  <1>4. fd' \in [Instances \cup Reloads -> Inodes \cup {Nil}] /\ shared' \subseteq Reloads
    BY DEF TypeOK
  <1>5. pc'[r] \in {"opened", "read"} /\ pid'[r] = Nil => fd'[r] \in Inodes
    <2>1. CASE ReloadOpen(r)
      BY <2>1, GotoFacts DEF TypeOK
    <2>2. CASE ProbeGranted(r) \/ ProbeUnlock(r)
      BY <2>2, GotoFacts
    <2>3. CASE ProbeRead(r)
      BY <2>3 DEF FdInv
    <2>4. CASE ReadPid(r)
      BY <2>4, GotoFacts
    <2>. QED
      BY <2>1, <2>2, <2>3, <2>4
  <1>6. TypeOK'
    BY <1>1, <1>2, <1>3, <1>4 DEF TypeOK
  <1>. QED
    BY <1>1, <1>2, <1>5, <1>6, QuietKeepsPidInv DEF FdInv

LEMMA KillKeepsPidInv ==
    ASSUME PidInv, NEW r \in Reloads, Kill(r)
    PROVE  PidInv'
  <1> USE DEF PidInv, Kill
  <1> DEFINE p == pid[r]
             dies == pc[p] \in {"new", "opened", "locked", "truncated", "starting"}
  <1>1. p \in Instances /\ p # r /\ p \notin Reloads /\ r \notin Instances
    BY PidFileAssumption DEF TypeOK
  <1>2. /\ pc'[r] = "done" /\ pc'[p] = IF dies THEN "killed" ELSE pc[p]
        /\ \A q \in Instances \cup Reloads : q # r /\ q # p => pc'[q] = pc[q] /\ fd'[q] = fd[q]
        /\ fd'[r] = fd[r] /\ fd'[p] = IF dies THEN Nil ELSE fd[p]
        /\ UNCHANGED <<name, content, shared, pid, used>>
    BY <1>1 DEF TypeOK
  <1>3. TypeOK'
    BY <1>1 DEF TypeOK
  <1>4. \A q \in Instances : \/ pc'[q] = pc[q] /\ fd'[q] = fd[q]
                             \/ Ended(q)'
    BY <1>1, <1>2 DEF Ended
  <1>5. \A q \in Reloads : pc'[q] \in {"opened", "read"} /\ pid'[q] = Nil => fd'[q] \in Inodes
    BY <1>1, <1>2 DEF FdInv
  <1>. QED
    BY <1>2, <1>3, <1>4, <1>5, QuietKeepsPidInv

LEMMA StepKeepsPidInv ==
    ASSUME PidInv, [Next]_vars
    PROVE  PidInv'
  <1>1. CASE Next
    BY <1>1, OpenKeepsPidInv, FlockKeepsPidInv, HolderKeepsPidInv, EndKeepsPidInv,
       ProbeKeepsPidInv, KillKeepsPidInv
       DEF Next, Run, Reload
  <1>2. CASE UNCHANGED vars
    BY <1>2 DEF vars, PidInv, TypeOK, FdInv, HasFile, LockInv, Holds, ContentInv, Ended
  <1>. QED
    BY <1>1, <1>2

LEMMA PidInvariant == Spec => []PidInv
  BY InitPidInv, StepKeepsPidInv, PTL DEF Spec

\* Type correctness.
THEOREM PidTypeCorrect == Spec => []TypeOK
  BY PidInvariant, PTL DEF PidInv

\* The lock keeps instances apart until somebody unlinks the file it is on
\* (pidfile_unix.go:24-45).
THEOREM OneUntilUnlinked == Spec => []OneInstanceUntilUnlinked
  <1>1. PidInv => OneInstanceUntilUnlinked
    BY DEF PidInv, FdInv, HasFile, LockInv, Holds, OneInstanceUntilUnlinked
  <1>. QED
    BY <1>1, PidInvariant, PTL

\* The file an instance has locked names nobody else, or, before Truncate, only
\* one that has ended: through crashes, unlinked files and pids that could not
\* be written.
THEOREM NamesItself == Spec => []RunningIsNamed
  <1>1. ASSUME PidInv, NEW p \in Instances, Holds(p)
        PROVE  \/ content[fd[p]] \in {p, Nil}
               \/ pc[p] = "locked" /\ Ended(content[fd[p]])
    <2>1. CASE pc[p] # "locked"
      BY <1>1, <2>1 DEF PidInv, ContentInv, Holds
    <2>2. CASE pc[p] = "locked"
      <3> DEFINE q == content[fd[p]]
      <3>1. fd[p] \in Inodes /\ q \in Instances \cup {Nil}
        BY <1>1 DEF PidInv, FdInv, HasFile, Holds, TypeOK
      <3>2. q # Nil => Ended(q) \/ (Holds(q) /\ fd[q] = fd[p])
        BY <1>1, <3>1 DEF PidInv, ContentInv
      <3>3. q # Nil /\ Holds(q) /\ fd[q] = fd[p] => q = p
        BY <1>1, <3>1 DEF PidInv, LockInv
      <3>. QED
        BY <2>2, <3>1, <3>2, <3>3
    <2>. QED
      BY <2>1, <2>2
  <1>2. PidInv => RunningIsNamed
    BY <1>1 DEF RunningIsNamed
  <1>. QED
    BY <1>2, PidInvariant, PTL
=============================================================================
