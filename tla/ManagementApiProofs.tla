------------------------ MODULE ManagementApiProofs ------------------------
(***************************************************************************)
(* Proofs about ManagementApi for any clients, sites and values.  ApiInv   *)
(* and DurableInv are inductive whatever happens, QuietInv as long as      *)
(* nobody sends SIGHUP or edits the file.                                  *)
(***************************************************************************)
EXTENDS ManagementApi, TLAPS

LEMMA NilIsNoChange == Nil \notin Changes /\ Nil \notin Configurations
  BY ApiAssumption DEF Changes, Configurations

LEMMA ModifiedFacts ==
    ASSUME TypeOK, NEW c \in Clients, change[c] # Nil
    PROVE  /\ Modified(c, applied) \in Configurations
           /\ DOMAIN change[c] \subseteq Sites
           /\ \A s \in DOMAIN change[c] : change[c][s] \in Values \cup {Nil}
           /\ \A s \in DOMAIN change[c] : Modified(c, applied)[s] = change[c][s]
           /\ \A s \in Sites \ DOMAIN change[c] : Modified(c, applied)[s] = applied[s]
  <1>1. change[c] \in Changes
    BY DEF TypeOK
  <1>2. PICK S \in {Sites} \cup {{s} : s \in Sites} : change[c] \in [S -> Values \cup {Nil}]
    BY <1>1 DEF Changes
  <1>3. /\ DOMAIN change[c] \subseteq Sites
        /\ \A s \in DOMAIN change[c] : change[c][s] \in Values \cup {Nil}
    BY <1>2
  <1>. QED
    BY <1>3 DEF TypeOK, Configurations, Modified

LEMMA InitApiInv == Init => ApiInv
  BY ApiAssumption DEF Init, ApiInv, TypeOK, LockInv, Configurations

LEMMA SendKeepsApiInv ==
    ASSUME ApiInv, NEW c \in Clients, NEW s \in Sites, NEW v \in Values \cup {Nil},
           Send(c, s, v)
    PROVE  ApiInv'
  <1> USE DEF ApiInv, Send, history
  <1>1. ASSUME change' = [change EXCEPT ![c] = [seen[c] EXCEPT ![s] = v]], seen[c] # Nil
        PROVE  change'[c] \in [Sites -> Values \cup {Nil}]
    BY <1>1 DEF TypeOK, Configurations
  <1>2. ASSUME change' = [change EXCEPT ![c] = [t \in {s} |-> v]]
        PROVE  change'[c] \in [{s} -> Values \cup {Nil}]
    BY <1>2 DEF TypeOK
  <1>3. PICK S \in {Sites, {s}} : change'[c] \in [S -> Values \cup {Nil}]
    <2>1. change'[c] \in [Sites -> Values \cup {Nil}] \/ change'[c] \in [{s} -> Values \cup {Nil}]
      BY <1>1, <1>2
    <2>. QED
      BY <2>1
  <1>4. change'[c] \in Changes /\ change'[c] # Nil /\ DOMAIN change'[c] \subseteq Sites
    BY <1>3, NilIsNoChange DEF Changes
  <1>5. \A d \in Clients : d # c => change'[d] = change[d]
    BY DEF TypeOK
  <1>6. change' \in [Clients -> Changes \cup {Nil}]
    BY <1>4, <1>5 DEF TypeOK
  <1>7. TypeOK'
    BY <1>6 DEF TypeOK
  <1>8. LockInv'
    BY <1>4, <1>5 DEF TypeOK, LockInv
  <1>. QED
    BY <1>7, <1>8

LEMMA LockedKeepsApiInv ==
    ASSUME ApiInv, NEW c \in Clients,
           Lock(c) \/ Update(c) \/ Save(c) \/ Respond(c)
    PROVE  ApiInv'
  <1> USE DEF ApiInv, request, history
  <1>1. CASE Lock(c)
    BY <1>1, ApiAssumption DEF Lock, TypeOK, LockInv
  <1>2. CASE Update(c)
    <2>1. change[c] # Nil /\ writes = c /\ \A d \in Clients : d # c => writes # d
      BY <1>2 DEF Update, LockInv
    <2>2. applied' \in Configurations /\ \A s \in DOMAIN change[c] : applied'[s] = change[c][s]
      BY <1>2, <2>1, ModifiedFacts DEF Update
    <2>3. Meant(c) \subseteq Sites
      BY DEF Meant
    <2>4. TypeOK'
      BY <1>2, <2>2, <2>3 DEF Update, TypeOK
    <2>5. LockInv'
      BY <1>2, <2>1, <2>2 DEF Update, TypeOK, LockInv
    <2>. QED
      BY <2>4, <2>5
  <1>3. CASE Save(c)
    BY <1>3 DEF Save, TypeOK, LockInv
  <1>4. CASE Respond(c)
    <2> USE <1>4 DEF Respond
    <2>1. change[c] # Nil /\ writes = c /\ \A d \in Clients : d # c => writes # d
      BY DEF LockInv
    <2>2. ack' \in Configurations /\ doubtful' \subseteq Sites
      BY <2>1, ModifiedFacts DEF TypeOK, Configurations
    <2>3. CASE kind[c] = "put"
      BY <2>1, <2>2, <2>3, ApiAssumption DEF TypeOK, LockInv
    <2>4. CASE kind[c] # "put"
      BY <2>1, <2>2, <2>4, ApiAssumption DEF TypeOK, LockInv, Forget
    <2>. QED
      BY <2>3, <2>4
  <1>. QED
    BY <1>1, <1>2, <1>3, <1>4

\* The steps that end a request early, and those that are not a request's.
LEMMA OthersKeepApiInv ==
    ASSUME ApiInv,
           \/ \E c \in Clients : Get(c) \/ Reject(c) \/ SaveFails(c) \/ Body(c)
           \/ Reload \/ Crash
           \/ \E s \in Sites, v \in Values \cup {Nil} : EditFile(s, v)
           \/ UNCHANGED vars
    PROVE  ApiInv'
  <1> USE ApiAssumption DEF ApiInv, request, history
  <1>1. ASSUME NEW c \in Clients, Get(c)
        PROVE  ApiInv'
    BY <1>1 DEF Get, TypeOK, LockInv
  <1>2. ASSUME NEW c \in Clients, Reject(c)
        PROVE  ApiInv'
    <2>1. writes = c /\ \A d \in Clients : d # c => writes # d
      BY <1>2 DEF Reject, LockInv
    <2>2. TypeOK'
      BY <1>2 DEF Reject, Forget, TypeOK
    <2>3. LockInv'
      BY <1>2, <2>1 DEF Reject, Forget, TypeOK, LockInv
    <2>. QED
      BY <2>2, <2>3
  <1>3. ASSUME NEW c \in Clients, SaveFails(c)
        PROVE  ApiInv'
    <2>1. writes = c /\ \A d \in Clients : d # c => writes # d
      BY <1>3 DEF SaveFails, LockInv
    <2>2. count' \in [failures : 0..MaxFailures, crashes : 0..MaxCrashes,
                      edits : 0..MaxEdits, reloads : 0..MaxReloads]
      BY <1>3 DEF SaveFails, TypeOK
    <2>3. TypeOK'
      BY <1>3, <2>2 DEF SaveFails, Forget, TypeOK
    <2>4. LockInv'
      BY <1>3, <2>1 DEF SaveFails, Forget, TypeOK, LockInv
    <2>. QED
      BY <2>3, <2>4
  <1>4. ASSUME NEW c \in Clients, Body(c)
        PROVE  ApiInv'
    BY <1>4 DEF Body, Forget, TypeOK, LockInv
  <1>5. CASE Reload
    BY <1>5 DEF Reload, ReloadLoads, ReloadApplies, ReloadFails, Overwritten, TypeOK, LockInv
  <1>6. CASE Crash
    BY <1>6 DEF Crash, TypeOK, LockInv
  <1>7. ASSUME NEW s \in Sites, NEW v \in Values \cup {Nil}, EditFile(s, v)
        PROVE  ApiInv'
    BY <1>7 DEF EditFile, TypeOK, LockInv, Configurations
  <1>8. CASE UNCHANGED vars
    BY <1>8 DEF vars, TypeOK, LockInv
  <1>. QED
    BY <1>1, <1>2, <1>3, <1>4, <1>5, <1>6, <1>7, <1>8

LEMMA ApiInvStep == ApiInv /\ [Next]_vars => ApiInv'
  BY SendKeepsApiInv, LockedKeepsApiInv, OthersKeepApiInv DEF Next, Change

LEMMA ApiInvariance == Spec => []ApiInv
  BY InitApiInv, ApiInvStep, PTL DEF Spec

\* Type correctness, with any number of reloads, edits and crashes.
THEOREM ApiTypeCorrect == Spec => []TypeOK
  BY ApiInvariance, PTL DEF ApiInv

\* A Save writes what the server serves at that moment, reloads or not.
THEOREM SavesTheApplied == Spec => SaveWritesApplied
  <1>1. ApiInv /\ [Next]_vars =>
          [\A c \in Clients : pc[c] = "save" /\ pc'[c] = "respond" => file' = applied]_vars
    <2> SUFFICES ASSUME ApiInv, Next, NEW c \in Clients, pc[c] = "save", pc'[c] = "respond"
                 PROVE  file' = applied
      OBVIOUS
    <2> USE DEF ApiInv
    <2>1. ASSUME NEW d \in Clients, Save(d)
          PROVE  file' = applied
      BY <2>1 DEF Save, LockInv
    <2>2. ASSUME NEW d \in Clients, Get(d) \/ \E s \in Sites, v \in Values \cup {Nil} : Send(d, s, v)
          PROVE  FALSE
      BY <2>2 DEF Get, Send, TypeOK
    <2>3. ASSUME NEW d \in Clients, Lock(d) \/ Update(d)
          PROVE  FALSE
      BY <2>3 DEF Lock, Update, TypeOK
    <2>4. ASSUME NEW d \in Clients, Reject(d) \/ SaveFails(d) \/ Respond(d) \/ Body(d)
          PROVE  FALSE
      BY <2>4 DEF Reject, SaveFails, Respond, Body, Forget, TypeOK
    <2>5. CASE Reload \/ Crash \/ \E s \in Sites, v \in Values \cup {Nil} : EditFile(s, v)
      BY <2>5 DEF Reload, ReloadLoads, ReloadApplies, ReloadFails, Crash, EditFile, TypeOK
    <2>. QED
      BY <2>1, <2>2, <2>3, <2>4, <2>5 DEF Next, Change
  <1>. QED
    BY <1>1, ApiInvariance, PTL DEF Spec, SaveWritesApplied

-----------------------------------------------------------------------------
(* Durability.                                                             *)

LEMMA DurableStep == DurableInv /\ [Next]_vars => DurableInv'
  <1> SUFFICES ASSUME DurableInv, [Next]_vars
               PROVE  DurableInv'
    OBVIOUS
  <1> USE DEF DurableInv
  <1>0. ApiInv' /\ TypeOK /\ TypeOK' /\ LockInv
    BY ApiInvStep DEF ApiInv
  <1>1. ASSUME NEW c \in Clients,
               Get(c) \/ Lock(c) \/ Body(c)
                 \/ \E s \in Sites, v \in Values \cup {Nil} : Send(c, s, v)
        PROVE  DurableInv'
    <2>1. UNCHANGED <<applied, file, ack, doubtful, edited>>
      BY <1>1 DEF Get, Lock, Body, Send, history
    <2>2. \A d \in Clients : pc'[d] = "respond" => pc[d] = "respond"
      BY <1>0, <1>1 DEF Get, Lock, Body, Send, Forget, TypeOK
    <2>. QED
      BY <1>0, <2>1, <2>2 DEF FileInv, AcknowledgedIsDurable
  <1>2. ASSUME NEW c \in Clients, Update(c)
        PROVE  DurableInv'
    <2> USE <1>2 DEF Update
    <2>1. change[c] # Nil /\ \A d \in Clients : pc'[d] # "respond"
      BY <1>0 DEF LockInv, TypeOK
    <2>2. \A s \in Sites \ Meant(c) : applied'[s] = applied[s]
      BY <2>1, <1>0, ModifiedFacts DEF Meant, Matches
    <2>3. FileInv' /\ AcknowledgedIsDurable'
      BY <2>1, <2>2 DEF FileInv, AcknowledgedIsDurable
    <2>. QED
      BY <1>0, <2>3
  <1>3. ASSUME NEW c \in Clients, Save(c)
        PROVE  DurableInv'
    <2>1. file' = applied /\ UNCHANGED <<applied, ack, doubtful>>
      BY <1>0, <1>3 DEF Save, LockInv
    <2>. QED
      BY <1>0, <2>1 DEF FileInv, AcknowledgedIsDurable
  <1>4. ASSUME NEW c \in Clients, Reject(c) \/ SaveFails(c)
        PROVE  DurableInv'
    <2>1. UNCHANGED <<applied, file, ack, doubtful, edited>>
      BY <1>4 DEF Reject, SaveFails, history
    <2>2. \A d \in Clients : pc'[d] = "respond" => pc[d] = "respond"
      BY <1>0, <1>4 DEF Reject, SaveFails, Forget, TypeOK
    <2>. QED
      BY <1>0, <2>1, <2>2 DEF FileInv, AcknowledgedIsDurable
  <1>5. ASSUME NEW c \in Clients, Respond(c)
        PROVE  DurableInv'
    <2>1. /\ writes = c
          /\ \A s \in Sites \ edited : file[s] = applied[s]
          /\ \A s \in DOMAIN change[c] : applied[s] = change[c][s]
      BY <1>0, <1>5 DEF Respond, LockInv, FileInv
    <2>2. \A d \in Clients : pc'[d] # "respond"
      BY <1>0, <1>5, <2>1 DEF Respond, Forget, TypeOK, LockInv
    <2>3. FileInv'
      BY <2>2 DEF FileInv
    <2>4. AcknowledgedIsDurable'
      BY <1>5, <2>1 DEF Respond, AcknowledgedIsDurable
    <2>. QED
      BY <1>0, <2>3, <2>4
  <1>6. CASE Reload
    <2>1. FileInv'
      BY <1>0, <1>6, ApiAssumption DEF Reload, ReloadLoads, ReloadApplies, ReloadFails, history,
                                      FileInv, TypeOK, LockInv
    <2>2. AcknowledgedIsDurable'
      BY <1>6 DEF Reload, ReloadLoads, ReloadApplies, ReloadFails, Overwritten, history,
                  AcknowledgedIsDurable
    <2>. QED
      BY <1>0, <2>1, <2>2
  <1>7. ASSUME NEW s \in Sites, NEW v \in Values \cup {Nil}, EditFile(s, v)
        PROVE  DurableInv'
    <2>1. \A t \in Sites : t # s => file'[t] = file[t]
      BY <1>0, <1>7 DEF EditFile, TypeOK, Configurations
    <2>. QED
      BY <1>0, <1>7, <2>1 DEF EditFile, FileInv, AcknowledgedIsDurable
  <1>8. CASE Crash
    BY <1>0, <1>8 DEF Crash, FileInv, AcknowledgedIsDurable
  <1>9. CASE UNCHANGED vars
    BY <1>0, <1>9 DEF vars, FileInv, AcknowledgedIsDurable
  <1>. QED
    BY <1>1, <1>2, <1>3, <1>4, <1>5, <1>6, <1>7, <1>8, <1>9 DEF Next, Change

\* An acknowledged change survives other clients' changes, failed Saves,
\* crashes and SIGHUPs, in the server and in the file, until another change of
\* the same site, an edit of it, or a SIGHUP that had read the file before the
\* site was saved and applies it afterwards (api/api.go:71-78, 187-232,
\* cmd/yabber/run.go).
THEOREM Durability == Spec => []AcknowledgedIsDurable
  <1>1. Init => DurableInv
    BY InitApiInv, ApiAssumption DEF Init, DurableInv, FileInv, AcknowledgedIsDurable
  <1>2. DurableInv => AcknowledgedIsDurable
    BY DEF DurableInv
  <1>. QED
    BY <1>1, <1>2, DurableStep, PTL DEF Spec

-----------------------------------------------------------------------------
(* The saved file, as long as nobody reloads or edits it.                  *)

Quiet == MaxReloads = 0 /\ MaxEdits = 0

LEMMA QuietSteps ==
    ASSUME Quiet, ApiInv, QuietInv, Next
    PROVE  \/ \E c \in Clients : Get(c) \/ Change(c)
                 \/ \E s \in Sites, v \in Values \cup {Nil} : Send(c, s, v)
           \/ Crash
  <1>1. count.reloads = 0 /\ count.edits = 0 /\ loaded = Nil
    BY DEF Quiet, ApiInv, QuietInv, TypeOK
  <1>. QED
    BY <1>1 DEF Quiet, Next, Reload, ReloadLoads, ReloadApplies, ReloadFails, EditFile

LEMMA QuietStep ==
    ASSUME Quiet, ApiInv, QuietInv, [Next]_vars
    PROVE  QuietInv'
  <1>0. TypeOK /\ LockInv
    BY DEF ApiInv
  <1>1. ASSUME NEW c \in Clients,
               Get(c) \/ Lock(c) \/ Body(c) \/ Respond(c)
                 \/ \E s \in Sites, v \in Values \cup {Nil} : Send(c, s, v)
        PROVE  QuietInv'
    <2>1. UNCHANGED <<applied, file, loaded, saved, edited>>
      BY <1>1 DEF Get, Lock, Body, Send, Respond, history
    <2>2. \A d \in Clients : pc'[d] # "save" => pc[d] # "save"
      BY <1>0, <1>1 DEF Get, Lock, Body, Send, Respond, Forget, TypeOK
    <2>. QED
      BY <2>1, <2>2 DEF QuietInv
  <1>2. ASSUME NEW c \in Clients, Update(c)
        PROVE  QuietInv'
    BY <1>0, <1>2 DEF Update, QuietInv, TypeOK
  <1>3. ASSUME NEW c \in Clients, Save(c)
        PROVE  QuietInv'
    BY <1>0, <1>3 DEF Save, QuietInv, LockInv
  <1>4. ASSUME NEW c \in Clients, Reject(c)
        PROVE  QuietInv'
    <2>1. UNCHANGED <<applied, file, loaded, saved, edited>>
      BY <1>4 DEF Reject, history
    <2>2. \A d \in Clients : pc[d] # "save"
      BY <1>0, <1>4 DEF Reject, LockInv
    <2>. QED
      BY <2>1, <2>2 DEF QuietInv
  <1>5. ASSUME NEW c \in Clients, SaveFails(c)
        PROVE  QuietInv'
    BY <1>5 DEF SaveFails, QuietInv
  <1>6. CASE Crash
    BY <1>6 DEF Crash, QuietInv
  <1>7. CASE UNCHANGED vars
    BY <1>7 DEF vars, QuietInv
  <1>. QED
    BY <1>1, <1>2, <1>3, <1>4, <1>5, <1>6, <1>7, QuietSteps DEF Change

\* The saved file always matches the applied configuration, as api.go:71
\* says, except after a Save that reported its failure: unless SIGHUP or an
\* editor interferes.
THEOREM SavedFileMatches ==
    ASSUME Quiet
    PROVE  Spec => []FileMatchesApplied
  <1>1. Init => QuietInv
    BY DEF Init, QuietInv
  <1>2. ApiInv /\ QuietInv /\ [Next]_vars => QuietInv'
    BY QuietStep
  <1>3. ApiInv /\ QuietInv => FileMatchesApplied
    BY ApiAssumption DEF ApiInv, LockInv, QuietInv, FileMatchesApplied
  <1>. QED
    BY <1>1, <1>2, <1>3, ApiInvariance, PTL DEF Spec
=============================================================================
