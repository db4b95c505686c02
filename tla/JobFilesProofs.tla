--------------------------- MODULE JobFilesProofs ---------------------------
(***************************************************************************)
(* The safety theorems of JobFiles and the refinement of JobStore, for any *)
(* numbers of jobs, environments, failures and crashes, and any users.     *)
(***************************************************************************)
EXTENDS JobFiles, TLAPS

LEMMA Numbers ==
  /\ MaxJobs \in Nat /\ Turns \in Nat /\ RecentMax \in Nat /\ MaxFaults \in Nat /\ MaxCrashes \in Nat
  /\ Final \in Nat /\ Over = Final + 1 /\ None \notin Nat /\ Half \notin Nat /\ None # Half
  /\ Versions = 0..Final
BY FilesAssumption DEF Final, Over, Versions

-----------------------------------------------------------------------------
(* Save *)

Saving == {"create", "write", "close", "rename"}

SaverType ==
  /\ target \in [Ids -> Versions \cup {None}]
  /\ temp \in [Temps -> Contents]
  /\ current \in 0..MaxJobs /\ shared \subseteq Ids
  /\ version \in 0..Over
  /\ stage \in Saving \cup {"idle", "answer"}
  /\ tmp \in Temps
  /\ orphans \subseteq Temps

\* What is to be saved is newer than what is there, unless that is of another job
\* with this id; and what is about to be renamed is what is to be saved.
SaverInv ==
  /\ SaverType
  /\ stage \in Saving =>
       version \in Versions /\ current \in Ids
         /\ (target[current] # None => current \in shared \/ target[current] < version)
  /\ stage \notin Saving => version = Over
  /\ stage \in {"close", "rename"} => temp[tmp] = version
  /\ stage = "answer" => current \in Ids /\ target[current] = Final
  /\ \A i \in Ids : i > current => target[i] = None

LEMMA SaverInit == Init => SaverInv
<1> SUFFICES ASSUME Init PROVE SaverInv
  OBVIOUS
<1> QED
  BY Numbers DEF Init, SaverInv, SaverType, Saving, Contents, Ids

\* Save ends, one way or the other.
LEMMA Returned ==
  ASSUME SaverInv, stage \in Saving, NEW ok, Return(ok), UNCHANGED <<current, shared>>,
         target' \in [Ids -> Versions \cup {None}],
         target'[current] # None => current \in shared \/ target'[current] <= version,
         ok => target'[current] = version,
         \A i \in Ids : i > current => target'[i] = None,
         temp' \in [Temps -> Contents], tmp' \in Temps, orphans' \subseteq Temps
  PROVE  SaverInv'
<1>1. version \in 0..Final /\ Final \in Nat /\ version' = version + 1 /\ version' \in 0..Over
      /\ current \in Ids /\ current \in 0..MaxJobs
  BY Numbers DEF SaverInv, SaverType, Return
<1>2. CASE version < Final
  <2>1. stage' = "create" /\ version' \in Versions
    BY <1>1, <1>2, Numbers DEF Return
  <2>2. target'[current] # None => current \in shared \/ target'[current] < version'
    BY <1>1, Numbers DEF Ids
  <2> QED
    BY <1>1, <2>1, <2>2 DEF SaverInv, SaverType, Saving
<1>3. CASE version = Final
  <2>1. version' = Over /\ stage' = IF ok THEN "answer" ELSE "idle"
    BY <1>1, <1>3, Numbers DEF Return
  <2> QED
    BY <1>1, <1>3, <2>1 DEF SaverInv, SaverType, Saving
<1> QED
  BY <1>1, <1>2, <1>3

LEMMA AbandonedStep ==
  ASSUME SaverInv, stage \in Saving, Abandon, UNCHANGED <<target, current, shared, tmp>>
  PROVE  SaverInv'
<1>1. Return(FALSE) /\ temp' \in [Temps -> Contents] /\ orphans' \subseteq Temps
  BY DEF Abandon, SaverInv, SaverType, Contents
<1>2. /\ target' \in [Ids -> Versions \cup {None}] /\ UNCHANGED <<current, shared>> /\ tmp' \in Temps
      /\ target'[current] # None => current \in shared \/ target'[current] <= version
      /\ \A i \in Ids : i > current => target'[i] = None
  BY Numbers DEF SaverInv, SaverType
<1> QED
  BY <1>1, <1>2, Returned

\* Nothing but a step of RunJob or Save and a crash touches the files.
SaverSteps == NewJob \/ SaveSteps \/ (\E u \in Users : Answer(u)) \/ Crash

LEMMA PagesRead == [Next]_vars => SaverSteps \/ UNCHANGED saverVars
BY DEF Next, Pages, OpenList, Fails, LoadNext, ShowList, Follow, vars, SaverSteps

LEMMA SaverStep == SaverInv /\ [Next]_vars => SaverInv'
<1> SUFFICES ASSUME SaverInv, [Next]_vars PROVE SaverInv'
  OBVIOUS
<1>0. /\ target \in [Ids -> Versions \cup {None}] /\ temp \in [Temps -> Contents]
      /\ current \in 0..MaxJobs /\ shared \subseteq Ids /\ tmp \in Temps /\ orphans \subseteq Temps
  BY DEF SaverInv, SaverType
<1>1. CASE NewJob
  <2>1. current' \in Ids /\ current' \in {current, current + 1} /\ current' \in 0..MaxJobs
    BY <1>1, Numbers DEF NewJob, Ids
  <2>4. shared' \subseteq Ids /\ (current' = current => current' \in shared')
    BY <1>0, <1>1, <2>1 DEF NewJob
  <2>5. 0 \in Versions /\ 0 \in 0..Over
    BY Numbers
  <2>2. current' # current => target[current'] = None
    BY <1>0, <2>1, Numbers DEF SaverInv, Ids
  <2>3. \A i \in Ids : i > current' => i > current
    BY <1>0, <2>1, Numbers DEF Ids
  <2> QED
    BY <1>1, <2>1, <2>2, <2>3, <2>4, <2>5 DEF NewJob, SaverInv, SaverType, Saving
<1>2. CASE CreateTemp
  <2>1. CASE Return(FALSE) /\ UNCHANGED <<temp, tmp>>
    <3>1. /\ target' \in [Ids -> Versions \cup {None}] /\ UNCHANGED <<current, shared>> /\ tmp' \in Temps
          /\ temp' \in [Temps -> Contents] /\ orphans' \subseteq Temps /\ stage \in Saving
          /\ target'[current] # None => current \in shared \/ target'[current] <= version
          /\ \A i \in Ids : i > current => target'[i] = None
      BY <1>0, <1>2, <2>1, Numbers DEF CreateTemp, SaverInv, SaverType, Saving
    <3> QED
      BY <2>1, <3>1, Returned
  <2>2. CASE tmp' \in Temps /\ temp' = [temp EXCEPT ![tmp'] = Half] /\ stage' = "write" /\ UNCHANGED version
    <3>1. temp' \in [Temps -> Contents]
      BY <1>0, <2>2 DEF Contents
    <3> QED
      BY <1>2, <2>2, <3>1 DEF CreateTemp, SaverInv, SaverType, Saving
  <2> QED
    BY <1>2, <2>1, <2>2 DEF CreateTemp
<1>3. CASE Write
  <2>1. CASE Abandon
    BY <1>3, <2>1, AbandonedStep DEF Write, Saving
  <2>2. CASE temp' = [temp EXCEPT ![tmp] = version] /\ stage' = "close" /\ UNCHANGED <<version, orphans>>
    <3>1. version \in Contents
      BY <1>3 DEF Write, SaverInv, Saving, Contents
    <3>2. temp' \in [Temps -> Contents] /\ temp'[tmp] = version
      BY <1>0, <2>2, <3>1
    <3> QED
      BY <1>3, <2>2, <3>2 DEF Write, SaverInv, SaverType, Saving
  <2> QED
    BY <1>3, <2>1, <2>2 DEF Write
<1>4. CASE CloseTemp
  <2>1. CASE Abandon
    BY <1>4, <2>1, AbandonedStep DEF CloseTemp, Saving
  <2>2. CASE stage' = "rename" /\ UNCHANGED <<version, temp, orphans>>
    BY <1>4, <2>2 DEF CloseTemp, SaverInv, SaverType, Saving
  <2> QED
    BY <1>4, <2>1, <2>2 DEF CloseTemp
<1>5. CASE Rename
  <2>1. CASE Abandon /\ UNCHANGED target
    BY <1>5, <2>1, AbandonedStep DEF Rename, Saving
  <2>2. CASE /\ target' = [target EXCEPT ![current] = temp[tmp]] /\ temp' = [temp EXCEPT ![tmp] = None]
             /\ Return(TRUE) /\ UNCHANGED orphans
    <3>1. temp[tmp] = version /\ version \in Versions /\ current \in Ids /\ stage \in Saving
      BY <1>5 DEF Rename, SaverInv, Saving
    <3>2. /\ target' \in [Ids -> Versions \cup {None}] /\ target'[current] = version
          /\ \A i \in Ids : i # current => target'[i] = target[i]
      BY <1>0, <2>2, <3>1
    <3>3. temp' \in [Temps -> Contents] /\ tmp' \in Temps /\ orphans' \subseteq Temps
          /\ UNCHANGED <<current, shared>>
      BY <1>0, <1>5, <2>2 DEF Rename, Contents
    <3>4. \A i \in Ids : i > current => target'[i] = None
      BY <3>2, <1>0, Numbers DEF SaverInv, Ids
    <3>5. target'[current] <= version
      BY <3>1, <3>2, Numbers
    <3> QED
      BY <2>2, <3>1, <3>2, <3>3, <3>4, <3>5, Returned
  <2> QED
    BY <1>5, <2>1, <2>2 DEF Rename
<1>6. ASSUME NEW u \in Users, Answer(u) PROVE SaverInv'
  BY <1>6 DEF Answer, SaverInv, SaverType, Saving
<1>7. CASE Crash
  <2>1. version' = Over /\ stage' = "idle" /\ orphans' \subseteq Temps /\ UNCHANGED <<target, temp, current, shared, tmp>>
    BY <1>0, <1>7 DEF Crash, InUse
  <2>2. Over \in 0..Over
    BY Numbers
  <2> QED
    BY <2>1, <2>2 DEF SaverInv, SaverType, Saving
<1>8. CASE UNCHANGED saverVars
  BY <1>8 DEF saverVars, SaverInv, SaverType
<1> QED
  BY <1>1, <1>2, <1>3, <1>4, <1>5, <1>6, <1>7, <1>8, PagesRead DEF SaverSteps, SaveSteps

-----------------------------------------------------------------------------
(* What is left behind *)

Existing == {t \in Temps : temp[t] # None}

LEMMA LitterAbandoned ==
  ASSUME SaverInv, NoLitter, Abandon, InUse = {tmp}
  PROVE  NoLitter'
<1>1. temp \in [Temps -> Contents] /\ Existing \subseteq orphans \cup {tmp}
  BY DEF SaverInv, SaverType, NoLitter, Existing
<1>2. CASE temp' = [temp EXCEPT ![tmp] = None] /\ UNCHANGED orphans
  <2>1. Existing' \subseteq orphans
    BY <1>1, <1>2 DEF Existing
  <2> QED
    BY <1>2, <2>1 DEF NoLitter, Existing
<1>3. CASE orphans' = orphans \cup {tmp} /\ UNCHANGED temp
  BY <1>1, <1>3 DEF NoLitter, Existing
<1> QED
  BY <1>2, <1>3 DEF Abandon

LEMMA LitterStep == SaverInv /\ NoLitter /\ [Next]_vars => NoLitter'
<1> SUFFICES ASSUME SaverInv, NoLitter, [Next]_vars PROVE NoLitter'
  OBVIOUS
<1>0. temp \in [Temps -> Contents] /\ tmp \in Temps /\ None # Half
  BY Numbers DEF SaverInv, SaverType
<1>1. CASE NewJob
  BY <1>1 DEF NewJob, NoLitter, InUse
<1>2. CASE CreateTemp
  <2>1. CASE UNCHANGED <<temp, tmp>>
    <3>1. Existing \subseteq orphans /\ orphans' = orphans
      BY <1>2 DEF CreateTemp, NoLitter, InUse, Existing
    <3> QED
      BY <2>1, <3>1 DEF NoLitter, Existing
  <2>2. CASE tmp' \in Temps /\ temp' = [temp EXCEPT ![tmp'] = Half] /\ stage' = "write"
    <3>1. Existing \subseteq orphans /\ orphans' = orphans
      BY <1>2 DEF CreateTemp, NoLitter, InUse, Existing
    <3>2. Existing' \subseteq Existing \cup {tmp'}
      BY <1>0, <2>2 DEF Existing
    <3>3. InUse' = {tmp'}
      BY <2>2 DEF InUse
    <3> QED
      BY <3>1, <3>2, <3>3 DEF NoLitter, Existing
  <2> QED
    BY <1>2, <2>1, <2>2 DEF CreateTemp
<1>3. CASE Write
  <2>1. CASE Abandon
    BY <1>3, <2>1, LitterAbandoned DEF Write, InUse
  <2>2. CASE temp' = [temp EXCEPT ![tmp] = version] /\ stage' = "close" /\ UNCHANGED orphans
    <3>1. Existing \subseteq orphans \cup {tmp}
      BY <1>3 DEF Write, NoLitter, InUse, Existing
    <3>2. Existing' \subseteq Existing \cup {tmp}
      BY <1>0, <2>2 DEF Existing
    <3>3. InUse' = {tmp}
      BY <1>3, <2>2 DEF Write, InUse
    <3> QED
      BY <2>2, <3>1, <3>2, <3>3 DEF NoLitter, Existing
  <2> QED
    BY <1>3, <2>1, <2>2 DEF Write
<1>4. CASE CloseTemp
  <2>1. CASE Abandon
    BY <1>4, <2>1, LitterAbandoned DEF CloseTemp, InUse
  <2>2. CASE stage' = "rename" /\ UNCHANGED <<temp, orphans>>
    BY <1>4, <2>2 DEF CloseTemp, NoLitter, InUse
  <2> QED
    BY <1>4, <2>1, <2>2 DEF CloseTemp
<1>5. CASE Rename
  <2>1. CASE Abandon
    BY <1>5, <2>1, LitterAbandoned DEF Rename, InUse
  <2>2. CASE temp' = [temp EXCEPT ![tmp] = None] /\ UNCHANGED orphans
    <3>1. Existing \subseteq orphans \cup {tmp}
      BY <1>5 DEF Rename, NoLitter, InUse, Existing
    <3>2. Existing' \subseteq orphans
      BY <1>0, <2>2, <3>1 DEF Existing
    <3> QED
      BY <2>2, <3>2 DEF NoLitter, Existing
  <2> QED
    BY <1>5, <2>1, <2>2 DEF Rename
<1>6. ASSUME NEW u \in Users, Answer(u) PROVE NoLitter'
  BY <1>6 DEF Answer, NoLitter, InUse
<1>7. CASE Crash
  BY <1>7 DEF Crash, NoLitter, InUse
<1>8. CASE UNCHANGED saverVars
  BY <1>8 DEF saverVars, NoLitter, InUse
<1> QED
  BY <1>1, <1>2, <1>3, <1>4, <1>5, <1>6, <1>7, <1>8, PagesRead DEF SaverSteps, SaveSteps

\* Every way out of Save removes its temp file (job.go:75-87): one that is there is
\* being worked on, or was left by a crash or a Remove that failed.
THEOREM NothingIsLittered == Spec => []NoLitter
<1> DEFINE IInv == SaverInv /\ NoLitter
<1>1. Init => IInv
  <2>1. Init => NoLitter
    BY DEF Init, NoLitter
  <2> QED
    BY <2>1, SaverInit
<1>2. IInv /\ [Next]_vars => IInv'
  BY SaverStep, LitterStep
<1>3. IInv => NoLitter
  OBVIOUS
<1> QED
  BY <1>1, <1>2, <1>3, PTL DEF Spec

-----------------------------------------------------------------------------
(* Save is atomic *)

\* A Save that returns has stored its version or has left the file alone.
LEMMA ReturnSaves ==
  ASSUME SaverInv, stage \in Saving, NEW ok, Return(ok), UNCHANGED current,
         target' \in {target, [target EXCEPT ![current] = version]}
  PROVE  Store!Save
<1>1. version < Over
  BY Numbers DEF SaverInv
<1> QED
  BY <1>1 DEF Store!Save, Store!Over, Store!Final, Over, Final, Return

LEMMA StoreStep == SaverInv /\ [Next]_vars => [Store!Next]_<<target, current, version>>
<1> SUFFICES ASSUME SaverInv, [Next]_vars
             PROVE  Store!Next \/ UNCHANGED <<target, current, version>>
  OBVIOUS
<1>1. CASE NewJob
  <2>1. version = Store!Over
    BY <1>1 DEF NewJob, SaverInv, Saving, Store!Over, Store!Final, Over, Final
  <2> QED
    BY <1>1, <2>1 DEF NewJob, Store!NewJob, Store!Next, Store!Ids, Ids
<1>2. ASSUME stage \in Saving, Abandon, UNCHANGED <<target, current>> PROVE Store!Next
  BY <1>2, ReturnSaves DEF Abandon, Store!Next
<1>3. CASE CreateTemp
  <2>1. CASE Return(FALSE)
    BY <1>3, <2>1, ReturnSaves DEF CreateTemp, Saving, Store!Next
  <2> QED
    BY <1>3, <2>1 DEF CreateTemp
<1>4. CASE Write
  BY <1>2, <1>4 DEF Write, Saving
<1>5. CASE CloseTemp
  BY <1>2, <1>5 DEF CloseTemp, Saving
<1>6. CASE Rename
  <2>1. CASE Return(TRUE) /\ target' = [target EXCEPT ![current] = temp[tmp]]
    <3>1. temp[tmp] = version /\ stage \in Saving /\ current' = current
      BY <1>6 DEF Rename, SaverInv, Saving
    <3> QED
      BY <2>1, <3>1, ReturnSaves DEF Store!Next
  <2> QED
    BY <1>2, <1>6, <2>1 DEF Rename, Saving
<1>7. ASSUME NEW u \in Users, Answer(u) PROVE UNCHANGED <<target, current, version>>
  BY <1>7 DEF Answer
<1>8. CASE Crash
  BY <1>8 DEF Crash, Store!Crash, Store!Next, Store!Over, Store!Final, Over, Final
<1>9. CASE UNCHANGED saverVars
  BY <1>9 DEF saverVars
<1> QED
  BY <1>1, <1>3, <1>4, <1>5, <1>6, <1>7, <1>8, <1>9, PagesRead DEF SaverSteps, SaveSteps

\* Save is atomic, as its comment has it (job.go:56): its calls, any of which may
\* fail or be the last before a crash, come to one step of JobStore, and whoever
\* reads the files sees a version as a whole.
THEOREM SaveIsAtomic == Spec => KeepsTheStore
<1>1. Init => Store!Init
  BY DEF Init, Store!Init, Store!Ids, Store!Over, Store!Final, Ids, Over, Final
<1> QED
  BY <1>1, SaverInit, SaverStep, StoreStep, PTL DEF Spec, KeepsTheStore, Store!Spec

-----------------------------------------------------------------------------
(* Versions only grow *)

\* The file of job i holds a version, and none older than w unless a second job
\* has been given its id.
Keeps(i, w) == target[i] \in Versions /\ (i \in shared \/ w <= target[i])

LEMMA KeepsItself ==
  ASSUME NEW i \in Ids, target[i] \in Versions
  PROVE  Keeps(i, target[i])
BY Numbers DEF Keeps

\* An id that two jobs were given stays so.
LEMMA SharedGrows == [Next]_vars => shared \subseteq shared'
<1>1. SaverSteps => shared \subseteq shared'
  BY DEF SaverSteps, NewJob, SaveSteps, CreateTemp, Write, CloseTemp, Rename, Answer, Crash
<1> QED
  BY <1>1, PagesRead DEF saverVars

LEMMA FilesGrow ==
  ASSUME SaverInv, [Next]_vars, NEW i \in Ids, NEW w \in Versions, Keeps(i, w)
  PROVE  Keeps(i, w)'
<1>1. target \in [Ids -> Versions \cup {None}] /\ target[i] \in Versions /\ target[i] # None
  BY Numbers DEF SaverInv, SaverType, Keeps
<1>2. shared \subseteq shared'
  BY SharedGrows
<1>3. CASE UNCHANGED target
  BY <1>2, <1>3 DEF Keeps
<1>4. CASE stage = "rename" /\ target' = [target EXCEPT ![current] = temp[tmp]]
  <2>1. /\ temp[tmp] = version /\ version \in Versions
        /\ target[current] # None => current \in shared \/ target[current] < version
    BY <1>4 DEF SaverInv, Saving
  <2> QED
    BY <1>1, <1>2, <1>4, <2>1, Numbers DEF Keeps
<1>5. SaverSteps => UNCHANGED target \/ (stage = "rename" /\ target' = [target EXCEPT ![current] = temp[tmp]])
  BY DEF SaverSteps, NewJob, SaveSteps, CreateTemp, Write, CloseTemp, Rename, Answer, Crash
<1> QED
  BY <1>3, <1>4, <1>5, PagesRead DEF saverVars

-----------------------------------------------------------------------------
(* Sorting *)

Entry == [id : Ids, version : Versions]
Ascending(jobs) == \A k, l \in DOMAIN jobs : k < l => jobs[k].id < jobs[l].id

\* sort.Slice has an order to arrive at: the files were read in the opposite one.
LEMMA NewestFirstSorts ==
  ASSUME NEW jobs \in Seq(Entry), Ascending(jobs)
  PROVE  LET s == NewestFirst(jobs) IN
         s \in Seq(Entry) /\ Len(s) = Len(jobs) /\ Range(s) = Range(jobs) /\ Descending(s)
<1> DEFINE n == Len(jobs)
           back == [k \in 1..n |-> jobs[n + 1 - k]]
<1>0. n \in Nat /\ DOMAIN jobs = 1..n /\ \A k \in 1..n : jobs[k] \in Entry
  OBVIOUS
<1> HIDE DEF n
<1>1. n \in Nat /\ DOMAIN jobs = 1..n /\ \A k \in 1..n : jobs[k] \in Entry /\ jobs[k].id \in Nat
  BY <1>0, Numbers DEF Entry, Ids
<1>2. \A k \in 1..n : n + 1 - k \in 1..n /\ n + 1 - (n + 1 - k) = k
  BY <1>1
<1>3. back \in [DOMAIN jobs -> Range(jobs)] /\ Range(back) = Range(jobs)
  <2>1. \A k \in 1..n : back[k] \in Range(jobs)
    BY <1>1, <1>2 DEF Range
  <2>2. \A k \in 1..n : jobs[k] = back[n + 1 - k]
    BY <1>2
  <2>3. \A k \in 1..n : jobs[k] \in Range(back)
    BY <1>2, <2>2 DEF Range
  <2> QED
    BY <1>1, <2>1, <2>3 DEF Range
<1>4. Descending(back)
  <2> SUFFICES ASSUME NEW k \in 1..n, NEW l \in 1..n, k < l PROVE back[k].id > back[l].id
    BY <1>1 DEF Descending
  <2>1. n + 1 - l < n + 1 - k
    BY <1>1
  <2>2. jobs[n + 1 - l].id < jobs[n + 1 - k].id
    BY <1>1, <1>2, <2>1 DEF Ascending
  <2>3. jobs[n + 1 - l].id \in Nat /\ jobs[n + 1 - k].id \in Nat
    BY <1>1, <1>2
  <2> QED
    BY <2>2, <2>3
<1> DEFINE s == NewestFirst(jobs)
<1> HIDE DEF back
<1>5. s \in [DOMAIN jobs -> Range(jobs)] /\ Range(s) = Range(jobs) /\ Descending(s)
  BY <1>3, <1>4 DEF NewestFirst
<1> HIDE DEF s
<1>6. Range(jobs) \subseteq Entry
  BY <1>1 DEF Range
<1>7. s \in [1..n -> Entry]
  BY <1>1, <1>5, <1>6
<1>8. s \in Seq(Entry) /\ Len(s) = n
  BY <1>1, <1>7
<1> QED
  BY <1>5, <1>8 DEF s, n

\* What is shown is newest first, and what is left out is older than all of it.
LEMMA ShownLeavesOutOlder ==
  ASSUME NEW jobs \in Seq(Entry), Ascending(jobs), NEW dashboard \in BOOLEAN
  PROVE  LET s == Shown(jobs, dashboard) IN
         /\ s \in Seq(Entry) /\ Descending(s) /\ Range(s) \subseteq Range(jobs)
         /\ \A j \in Range(jobs) :
              \/ j \in Range(s)
              \/ dashboard /\ Len(s) = RecentMax /\ \A k \in DOMAIN s : s[k].id > j.id
<1> DEFINE all == NewestFirst(jobs)
           s == Shown(jobs, dashboard)
<1>1. all \in Seq(Entry) /\ Len(all) = Len(jobs) /\ Range(all) = Range(jobs) /\ Descending(all)
  BY NewestFirstSorts
<1>2. CASE ~(dashboard /\ Len(jobs) > RecentMax)
  <2>1. s = all
    BY <1>2 DEF Shown
  <2> QED
    BY <1>1, <2>1
<1>3. CASE dashboard /\ Len(jobs) > RecentMax
  <2> HIDE DEF all
  <2>1. s = SubSeq(all, 1, RecentMax)
    BY <1>3 DEF Shown, all
  <2> HIDE DEF s
  <2>2. RecentMax \in Nat /\ RecentMax < Len(all) /\ Len(all) \in Nat /\ DOMAIN all = 1..Len(all)
    BY <1>1, <1>3, Numbers
  <2>3. \A k \in 1..RecentMax : all[k] \in Entry
    BY <1>1, <2>2
  <2>4. s \in Seq(Entry) /\ Len(s) = RecentMax /\ \A k \in 1..RecentMax : s[k] = all[k]
    BY <2>1, <2>2, <2>3
  <2>5. DOMAIN s = 1..RecentMax
    BY <2>4
  <2>6. Descending(s)
    BY <1>1, <2>2, <2>4, <2>5 DEF Descending
  <2>7. Range(s) \subseteq Range(jobs)
    <3>1. \A k \in 1..RecentMax : k \in DOMAIN all
      BY <2>2
    <3>2. Range(s) \subseteq Range(all)
      BY <2>4, <2>5, <3>1 DEF Range
    <3> QED
      BY <1>1, <3>2
  <2>8. ASSUME NEW j \in Range(jobs), j \notin Range(s)
        PROVE  \A k \in DOMAIN s : s[k].id > j.id
    <3>1. PICK l \in 1..Len(all) : all[l] = j
      BY <1>1, <2>2 DEF Range
    <3>2. l > RecentMax
      BY <2>2, <2>4, <2>5, <2>8, <3>1 DEF Range
    <3> QED
      BY <1>1, <2>2, <2>4, <2>5, <3>1, <3>2 DEF Descending
  <2> QED
    BY <1>3, <2>4, <2>6, <2>7, <2>8 DEF s
<1> QED
  BY <1>2, <1>3

-----------------------------------------------------------------------------
(* Pages *)

PageType ==
  /\ page \in [Users -> List \cup Detail \cup {Blank}]
  /\ seen \in [Users -> [Ids -> Versions \cup {None}]]

\* What a user has been shown of a job is in its file, or has been replaced.
SeenInv(u) == \A i \in Ids : seen[u][i] # None => Keeps(i, seen[u][i])

\* Half-way through a list: what has been read is still so or has been replaced,
\* it comes before what has yet to be read, and only a failure has lost a job.
Has(p, i) == \E k \in DOMAIN p.jobs : p.jobs[k].id = i /\ (i \in shared \/ p.began[i] <= p.jobs[k].version)
ReadingInv(p) ==
  p.at = "reading" =>
    /\ p.began \in [Ids -> Versions \cup {None}]
    /\ \A i \in Ids : p.began[i] # None => Keeps(i, p.began[i])
    /\ \A k \in DOMAIN p.jobs : Keeps(p.jobs[k].id, p.jobs[k].version)
    /\ Ascending(p.jobs)
    /\ \A k \in DOMAIN p.jobs, i \in p.names : p.jobs[k].id < i
    /\ ~p.failed => \A i \in Ids : p.began[i] # None => i \in p.names \/ Has(p, i)

\* PageShowsTheNewest and LinksHold of one page.
ListedInv(p) ==
  p.at = "listed" /\ ~p.failed =>
    /\ \A k \in 2..Len(p.jobs) : p.jobs[k - 1].id > p.jobs[k].id
    /\ \A i \in {i \in Ids : p.began[i] # None} :
         \/ \E k \in {k \in DOMAIN p.jobs : p.jobs[k].id = i} :
              i \in shared \/ p.jobs[k].version >= p.began[i]
         \/ p.dashboard /\ Len(p.jobs) = RecentMax /\ \A k \in DOMAIN p.jobs : p.jobs[k].id > i
DetailInv(p) ==
  p.at = "detail" => p.version \in Versions /\ (p.id \in shared \/ p.version >= p.wanted)

PageInv(p) == ReadingInv(p) /\ ListedInv(p) /\ DetailInv(p)
PagesInv == PageType /\ \A u \in Users : SeenInv(u) /\ PageInv(page[u])

LEMMA BlankPage == PageInv(Blank)
BY DEF PageInv, ReadingInv, ListedInv, DetailInv, Blank

LEMMA ListPage ==
  ASSUME NEW p \in List \cup Detail \cup {Blank}, p.at \in {"reading", "listed"}
  PROVE  /\ p \in List /\ p.names \subseteq Ids /\ p.jobs \in Seq(Entry) /\ p.dashboard \in BOOLEAN
         /\ p.began \in [Ids -> Contents] /\ p.failed \in BOOLEAN
         /\ DOMAIN p.jobs = 1..Len(p.jobs) /\ \A k \in DOMAIN p.jobs : p.jobs[k] \in Entry
<1>1. p \in List
  BY DEF Detail, Blank
<1>2. p.names \subseteq Ids /\ p.jobs \in Seq(Entry) /\ p.dashboard \in BOOLEAN
      /\ p.began \in [Ids -> Contents] /\ p.failed \in BOOLEAN
  BY <1>1 DEF List, Entry
<1> QED
  BY <1>1, <1>2

LEMMA PagesInit == Init => PagesInv
<1> SUFFICES ASSUME Init PROVE PagesInv
  OBVIOUS
<1>1. page = [u \in Users |-> Blank] /\ seen = [u \in Users |-> [i \in Ids |-> None]]
  BY DEF Init
<1> QED
  BY <1>1, BlankPage DEF PagesInv, PageType, SeenInv

\* A step of the saver, seen from a page: files only grow under it.
LEMMA GrownPage ==
  ASSUME SaverInv, [Next]_vars, NEW p \in List \cup Detail \cup {Blank}, ReadingInv(p)
  PROVE  ReadingInv(p)'
<1> SUFFICES ASSUME p.at = "reading" PROVE ReadingInv(p)'
  BY DEF ReadingInv
<1>1. p \in List /\ p.began \in [Ids -> Versions \cup {None}]
  BY ListPage DEF ReadingInv
<1>2. ASSUME NEW i \in Ids, p.began[i] # None PROVE Keeps(i, p.began[i])'
  <2>1. p.began[i] \in Versions /\ Keeps(i, p.began[i])
    BY <1>1, <1>2 DEF ReadingInv
  <2> QED
    BY <2>1, FilesGrow
<1>3. ASSUME NEW k \in DOMAIN p.jobs PROVE Keeps(p.jobs[k].id, p.jobs[k].version)'
  <2>1. p.jobs[k].id \in Ids /\ p.jobs[k].version \in Versions
    BY ListPage DEF Entry
  <2>2. Keeps(p.jobs[k].id, p.jobs[k].version)
    BY DEF ReadingInv
  <2> QED
    BY <2>1, <2>2, FilesGrow
<1>4. \A i \in Ids : Has(p, i) => Has(p, i)'
  BY SharedGrows DEF Has
<1> QED
  BY <1>2, <1>3, <1>4 DEF ReadingInv

LEMMA PagesUnderSaver ==
  ASSUME SaverInv, PagesInv, [Next]_vars, NEW u \in Users, page'[u] \in {page[u], Blank},
         \A i \in Ids : seen'[u][i] = seen[u][i] \/ (seen'[u][i] \in Versions /\ Keeps(i, seen[u][i])')
  PROVE  SeenInv(u)' /\ PageInv(page[u])'
<1>1. PageInv(page[u])'
  <2>1. CASE page'[u] = Blank
    BY <2>1, BlankPage DEF PageInv, ReadingInv, ListedInv, DetailInv, Blank
  <2>2. CASE page'[u] = page[u]
    <3>1. ReadingInv(page[u]) /\ page[u] \in List \cup Detail \cup {Blank}
      BY DEF PagesInv, PageInv, PageType
    <3>2. ReadingInv(page[u])'
      BY <2>2, <3>1, GrownPage DEF ReadingInv
    <3>3. ListedInv(page[u])' /\ DetailInv(page[u])'
      BY <2>2, SharedGrows DEF PagesInv, PageInv, ListedInv, DetailInv
    <3> QED
      BY <3>2, <3>3 DEF PageInv
  <2> QED
    BY <2>1, <2>2
<1>2. ASSUME NEW i \in Ids, seen'[u][i] # None PROVE Keeps(i, seen[u][i])'
  <2>1. CASE seen'[u][i] = seen[u][i]
    <3>1. Keeps(i, seen[u][i]) /\ seen[u][i] \in Versions
      BY <1>2, <2>1 DEF PagesInv, SeenInv, PageType
    <3> DEFINE w == seen[u][i]
    <3>2. Keeps(i, w)'
      BY <3>1, FilesGrow
    <3> QED
      BY <2>1, <3>2 DEF Keeps
  <2> QED
    BY <2>1
<1> QED
  BY <1>1, <1>2 DEF SeenInv

\* ListJobs begins: nothing is lost yet.
LEMMA PageOpened ==
  ASSUME SaverInv, PagesInv, NEW u \in Users, NEW dashboard \in BOOLEAN, OpenList(u, dashboard)
  PROVE  page'[u] \in List /\ PageInv(page[u])'
<1> DEFINE p == [at |-> "reading", dashboard |-> dashboard, jobs |-> <<>>, began |-> target,
                 failed |-> FALSE, names |-> {i \in Ids : target[i] # None}]
<1>1. page'[u] = p /\ UNCHANGED <<target, shared>>
  BY DEF OpenList, PagesInv, PageType, saverVars
<1>2. target \in [Ids -> Versions \cup {None}]
  BY DEF SaverInv, SaverType
<1>3. target \in [Ids -> Contents]
  BY <1>2 DEF Contents
<1>4. p \in List
  <2>1. <<>> \in Seq([id : Ids, version : Versions])
    OBVIOUS
  <2> QED
    BY <1>3, <2>1 DEF List
<1>5. /\ p.at = "reading" /\ p.began = target /\ p.jobs = <<>> /\ ~p.failed
      /\ p.names = {i \in Ids : target[i] # None}
  OBVIOUS
<1> HIDE DEF p
<1>6. \A i \in Ids : target[i] # None => Keeps(i, target[i])
  BY <1>2, KeepsItself
<1>7. ReadingInv(page[u])'
  BY <1>1, <1>2, <1>5, <1>6 DEF ReadingInv, Ascending, Keeps
<1> QED
  BY <1>1, <1>4, <1>5, <1>7 DEF PageInv, ListedInv, DetailInv

\* The system keeps a file or the directory from a page.
LEMMA PageFailed ==
  ASSUME SaverInv, PagesInv, NEW u \in Users, Fails(u)
  PROVE  page'[u] \in List \cup {Blank} /\ PageInv(page[u])'
<1>1. CASE page' = [page EXCEPT ![u] = Blank]
  <2>1. page'[u] = Blank
    BY <1>1 DEF PagesInv, PageType
  <2> QED
    BY <2>1 DEF PageInv, ReadingInv, ListedInv, DetailInv, Blank
<1> DEFINE p == [at |-> "listed", dashboard |-> TRUE, names |-> {}, jobs |-> <<>>,
                 began |-> target, failed |-> TRUE]
<1>2. CASE page' = [page EXCEPT ![u] = p]
  <2>1. page'[u] = p
    BY <1>2 DEF PagesInv, PageType
  <2>2. target \in [Ids -> Contents]
    BY DEF SaverInv, SaverType, Contents
  <2>3. p \in List
    <3>1. <<>> \in Seq([id : Ids, version : Versions])
      OBVIOUS
    <3> QED
      BY <2>2, <3>1 DEF List
  <2>4. p.at = "listed" /\ p.failed
    OBVIOUS
  <2> HIDE DEF p
  <2> QED
    BY <2>1, <2>3, <2>4 DEF PageInv, ReadingInv, ListedInv, DetailInv
<1> QED
  BY <1>1, <1>2 DEF Fails

\* LoadJob of the least name that is left: its version is the one in the file.
LEMMA PageLoaded ==
  ASSUME SaverInv, PagesInv, NEW u \in Users, page[u].at = "reading", UNCHANGED <<target, shared>>,
         NEW i \in page[u].names, \A j \in page[u].names : i <= j, Load(u, i)
  PROVE  page'[u] \in List /\ PageInv(page[u])'
<1> DEFINE p == page[u]
           rest == [p EXCEPT !.names = p.names \ {i}]
           job == [id |-> i, version |-> target[i]]
           more == [rest EXCEPT !.jobs = Append(rest.jobs, job)]
           lost == [rest EXCEPT !.failed = TRUE]
<1>1. /\ p \in List /\ p.names \subseteq Ids /\ p.jobs \in Seq(Entry)
      /\ DOMAIN p.jobs = 1..Len(p.jobs) /\ \A k \in DOMAIN p.jobs : p.jobs[k] \in Entry
  BY ListPage DEF PagesInv, PageType
<1>2. page'[u] \in {lost, IF target[i] \notin Versions THEN rest ELSE more}
  BY DEF Load, PagesInv, PageType
<1>3. p.at = "reading" /\ ReadingInv(p) /\ i \in p.names /\ i \in Ids
  BY <1>1 DEF PagesInv, PageInv
<1>4. /\ rest \in List /\ rest.at = "reading" /\ rest.began = p.began /\ rest.jobs = p.jobs
      /\ rest.failed = p.failed /\ rest.names = p.names \ {i}
  BY <1>1, <1>3 DEF List
<1> HIDE DEF p
<1> HIDE DEF rest
<1>5. CASE page'[u] = lost
  <2>1. /\ lost \in List /\ lost.at = "reading" /\ lost.began = p.began /\ lost.jobs = p.jobs
        /\ lost.failed /\ lost.names = p.names \ {i}
    BY <1>4 DEF List
  <2> HIDE DEF lost
  <2>2. ReadingInv(page[u])'
    BY <1>3, <1>5, <2>1 DEF ReadingInv, Keeps
  <2> QED
    BY <1>5, <2>1, <2>2 DEF PageInv, ListedInv, DetailInv
<1>6. CASE page'[u] = rest /\ target[i] \notin Versions
  <2>1. p.began[i] = None
    BY <1>1, <1>3, <1>6 DEF ReadingInv, Keeps
  <2>2. ReadingInv(page[u])'
    BY <1>3, <1>4, <1>6, <2>1 DEF ReadingInv, Has, Keeps
  <2> QED
    BY <1>4, <1>6, <2>2 DEF PageInv, ListedInv, DetailInv
<1>7. CASE page'[u] = more /\ target[i] \in Versions
  <2>1. i \in Ids /\ job \in Entry /\ job.id = i /\ job.version = target[i]
    BY <1>3, <1>7 DEF Entry
  <2> HIDE DEF job
  <2> DEFINE jobs == Append(p.jobs, job)
  <2>2. /\ jobs \in Seq(Entry) /\ Len(jobs) = Len(p.jobs) + 1 /\ jobs[Len(p.jobs) + 1] = job
        /\ DOMAIN jobs = 1..(Len(p.jobs) + 1) /\ Len(p.jobs) \in Nat
        /\ \A k \in DOMAIN p.jobs : k \in DOMAIN jobs /\ jobs[k] = p.jobs[k]
        /\ \A k \in DOMAIN jobs : k \in DOMAIN p.jobs \/ k = Len(p.jobs) + 1
    BY <1>1, <2>1
  <2> HIDE DEF jobs
  <2>3. /\ more \in List /\ more.at = "reading" /\ more.began = p.began /\ more.jobs = jobs
        /\ more.failed = p.failed /\ more.names = p.names \ {i}
    BY <1>4, <2>2 DEF List, Entry, jobs
  <2> HIDE DEF more
  <2>4. Ascending(jobs)
    <3> SUFFICES ASSUME NEW k \in DOMAIN jobs, NEW l \in DOMAIN jobs, k < l PROVE jobs[k].id < jobs[l].id
      BY DEF Ascending
    <3>1. k \in DOMAIN p.jobs
      BY <1>1, <2>2
    <3>2. CASE l \in DOMAIN p.jobs
      BY <1>3, <2>2, <3>1, <3>2 DEF ReadingInv, Ascending
    <3>3. CASE l = Len(p.jobs) + 1
      <4>1. p.jobs[k].id < i
        BY <1>3, <3>1 DEF ReadingInv, p
      <4> QED
        BY <2>1, <2>2, <3>1, <3>3, <4>1
    <3> QED
      BY <2>2, <3>2, <3>3
  <2>5. ASSUME NEW k \in DOMAIN jobs, NEW j \in p.names \ {i} PROVE jobs[k].id < j
    <3>1. CASE k \in DOMAIN p.jobs
      BY <1>3, <2>2, <2>5, <3>1 DEF ReadingInv
    <3>2. CASE k = Len(p.jobs) + 1
      <4>1. i <= j /\ i # j /\ i \in Nat /\ j \in Nat
        BY <1>1, <2>1, <2>5, Numbers DEF p, Ids
      <4> QED
        BY <2>1, <2>2, <3>2, <4>1
    <3> QED
      BY <2>2, <3>1, <3>2
  <2>6. \A k \in DOMAIN jobs : Keeps(jobs[k].id, jobs[k].version)
    <3>1. Keeps(i, target[i])
      BY <1>7, <2>1, KeepsItself
    <3> QED
      BY <1>3, <2>1, <2>2, <3>1 DEF ReadingInv
  <2>7. ASSUME ~p.failed, NEW j \in Ids, p.began[j] # None
        PROVE  \/ j \in p.names \ {i}
               \/ \E k \in DOMAIN jobs : jobs[k].id = j /\ (j \in shared \/ p.began[j] <= jobs[k].version)
    <3>1. CASE j = i
      BY <1>3, <2>1, <2>2, <2>7, <3>1 DEF ReadingInv, Keeps
    <3>2. CASE j # i
      <4>1. j \in p.names \/ Has(p, j)
        BY <1>3, <2>7 DEF ReadingInv
      <4> QED
        BY <2>2, <3>2, <4>1 DEF Has
    <3> QED
      BY <3>1, <3>2
  <2>8. ReadingInv(page[u])'
    BY <1>3, <1>7, <2>3, <2>4, <2>5, <2>6, <2>7 DEF ReadingInv, Has, Keeps
  <2> QED
    BY <1>7, <2>3, <2>8 DEF PageInv, ListedInv, DetailInv
<1> QED
  BY <1>2, <1>5, <1>6, <1>7

\* The list is shown: it has every job it had to have, and what it says is known.
LEMMA PageShown ==
  ASSUME SaverInv, PagesInv, NEW u \in Users, ShowList(u)
  PROVE  /\ page'[u] \in List /\ PageInv(page[u])'
         /\ seen'[u] \in [Ids -> Versions \cup {None}]
         /\ \A i \in Ids : \/ seen'[u][i] = seen[u][i]
                           \/ Keeps(i, seen'[u][i]) /\ seen'[u][i] \in Versions
<1> DEFINE p == page[u]
           s == Shown(p.jobs, p.dashboard)
           q == [p EXCEPT !.at = "listed", !.jobs = s]
<1>1. /\ p \in List /\ p.jobs \in Seq(Entry) /\ p.dashboard \in BOOLEAN
      /\ DOMAIN p.jobs = 1..Len(p.jobs) /\ \A k \in DOMAIN p.jobs : p.jobs[k] \in Entry
  BY ListPage DEF ShowList, PagesInv, PageType
<1>2. /\ p.at = "reading" /\ p.names = {} /\ ReadingInv(p) /\ UNCHANGED <<target, shared>>
      /\ page'[u] = q
      /\ seen'[u] = [i \in Ids |-> IF \E k \in DOMAIN s : s[k].id = i
                                  THEN Newer(seen[u][i], (CHOOSE j \in Range(s) : j.id = i).version)
                                  ELSE seen[u][i]]
  BY DEF ShowList, PagesInv, PageType, PageInv, saverVars
<1>3. /\ s \in Seq(Entry) /\ Descending(s) /\ Range(s) \subseteq Range(p.jobs)
      /\ \A j \in Range(p.jobs) :
           \/ j \in Range(s)
           \/ p.dashboard /\ Len(s) = RecentMax /\ \A k \in DOMAIN s : s[k].id > j.id
  BY <1>1, <1>2, ShownLeavesOutOlder DEF ReadingInv
<1> HIDE DEF s
<1>4. DOMAIN s = 1..Len(s) /\ Len(s) \in Nat
  BY <1>3
<1>5. /\ q \in List /\ q.at = "listed" /\ q.jobs = s /\ q.began = p.began
      /\ q.failed = p.failed /\ q.dashboard = p.dashboard
  BY <1>1, <1>3 DEF List, Entry
<1> HIDE DEF p, q
<1>6. \A k \in 2..Len(s) : s[k - 1].id > s[k].id
  <2> SUFFICES ASSUME NEW k \in 2..Len(s) PROVE s[k - 1].id > s[k].id
    OBVIOUS
  <2>1. k - 1 \in DOMAIN s /\ k \in DOMAIN s /\ k - 1 < k
    BY <1>4
  <2> QED
    BY <1>3, <2>1 DEF Descending
<1>7. ASSUME ~p.failed, NEW i \in Ids, p.began[i] # None
      PROVE  \/ \E k \in {k \in DOMAIN s : s[k].id = i} : i \in shared \/ s[k].version >= p.began[i]
             \/ p.dashboard /\ Len(s) = RecentMax /\ \A k \in DOMAIN s : s[k].id > i
  <2>1. PICK k \in DOMAIN p.jobs :
          p.jobs[k].id = i /\ (i \in shared \/ p.began[i] <= p.jobs[k].version)
    BY <1>2, <1>7 DEF ReadingInv, Has
  <2>2. p.jobs[k] \in Range(p.jobs)
    BY DEF Range
  <2>3. CASE p.jobs[k] \in Range(s)
    <3>1. PICK l \in DOMAIN s : s[l] = p.jobs[k]
      BY <2>3 DEF Range
    <3>2. p.began[i] \in Nat /\ s[l].version \in Nat
      <4>1. p.began[i] \in Versions /\ s[l].version \in Versions
        BY <1>1, <1>2, <1>7, <3>1 DEF ReadingInv, Entry
      <4> QED
        BY <4>1, Numbers
    <3> QED
      BY <2>1, <3>1, <3>2
  <2>4. CASE p.jobs[k] \notin Range(s)
    BY <1>3, <2>1, <2>2, <2>4
  <2> QED
    BY <2>3, <2>4
<1>8. PageInv(page[u])'
  BY <1>2, <1>5, <1>6, <1>7 DEF PageInv, ReadingInv, ListedInv, DetailInv
<1>9. ASSUME NEW i \in Ids, seen'[u][i] # seen[u][i]
      PROVE  Keeps(i, seen'[u][i]) /\ seen'[u][i] \in Versions
  <2> DEFINE job == CHOOSE j \in Range(s) : j.id = i
  <2>1. PICK k \in DOMAIN s : s[k].id = i
    BY <1>2, <1>9
  <2>2. \E j \in Range(s) : j.id = i
    BY <2>1 DEF Range
  <2>3. job \in Range(s) /\ job.id = i
    BY <2>2
  <2>4. seen'[u][i] = Newer(seen[u][i], job.version)
    BY <1>2, <2>1
  <2> HIDE DEF job
  <2>5. seen'[u][i] = job.version
    BY <1>9, <2>4 DEF Newer
  <2>6. PICK l \in DOMAIN p.jobs : p.jobs[l] = job
    BY <1>3, <2>3 DEF Range
  <2> QED
    BY <1>1, <1>2, <2>3, <2>5, <2>6 DEF ReadingInv, Entry
<1>10. seen'[u] \in [Ids -> Versions \cup {None}]
  <2>1. DOMAIN seen'[u] = Ids /\ seen'[u] = [i \in Ids |-> seen'[u][i]]
    BY <1>2
  <2>2. \A i \in Ids : seen'[u][i] \in Versions \cup {None}
    BY <1>9 DEF PagesInv, PageType
  <2> QED
    BY <2>1, <2>2
<1> QED
  BY <1>2, <1>5, <1>8, <1>9, <1>10

\* A link is followed: the file has at least what the user has seen.
LEMMA PageFollowed ==
  ASSUME SaverInv, PagesInv, NEW u \in Users, NEW i \in Ids, Follow(u, i)
  PROVE  /\ page'[u] \in Detail /\ PageInv(page[u])'
         /\ \A j \in Ids : \/ seen'[u][j] = seen[u][j]
                           \/ Keeps(j, seen'[u][j]) /\ seen'[u][j] \in Versions
<1> DEFINE p == [at |-> "detail", id |-> i, version |-> target[i], wanted |-> seen[u][i]]
<1>1. /\ seen[u][i] # None /\ seen[u] \in [Ids -> Versions \cup {None}] /\ UNCHANGED <<target, shared>>
      /\ page'[u] = p /\ seen'[u] = [seen[u] EXCEPT ![i] = Newer(seen[u][i], target[i])]
  BY DEF Follow, PagesInv, PageType, saverVars
<1>2. Keeps(i, seen[u][i]) /\ seen[u][i] \in Versions /\ target[i] \in Versions
  BY <1>1 DEF PagesInv, SeenInv, Keeps
<1>3. /\ p \in Detail /\ p.at = "detail" /\ p.id = i
      /\ p.version = target[i] /\ p.wanted = seen[u][i]
  BY <1>2 DEF Detail, Contents
<1> HIDE DEF p
<1>4. i \in shared \/ target[i] >= seen[u][i]
  BY <1>2, Numbers DEF Keeps
<1>5. PageInv(page[u])'
  BY <1>1, <1>2, <1>3, <1>4 DEF PageInv, ReadingInv, ListedInv, DetailInv
<1>6. Keeps(i, seen'[u][i]) /\ seen'[u][i] \in Versions
  BY <1>1, <1>2, Numbers DEF Keeps, Newer
<1> QED
  BY <1>1, <1>3, <1>5, <1>6

\* A step of one user: the files and everybody else's pages stay as they are.
LEMMA OnePage ==
  ASSUME PagesInv, UNCHANGED <<target, shared>>, NEW u \in Users, PageType', PageInv(page[u])',
         \A i \in Ids : seen'[u][i] = seen[u][i] \/ Keeps(i, seen'[u][i]),
         \A w \in Users \ {u} : page'[w] = page[w] /\ seen'[w] = seen[w]
  PROVE  PagesInv'
<1>1. SeenInv(u)'
  BY DEF PagesInv, SeenInv, Keeps
<1>2. ASSUME NEW w \in Users, w # u PROVE SeenInv(w)' /\ PageInv(page[w])'
  <2>1. page'[w] = page[w] /\ seen'[w] = seen[w] /\ UNCHANGED <<target, shared>>
    BY <1>2
  <2>2. SeenInv(w) /\ PageInv(page[w])
    BY DEF PagesInv
  <2>3. SeenInv(w)'
    BY <2>1, <2>2 DEF SeenInv, Keeps
  <2>4. PageInv(page[w])'
    BY <2>1, <2>2 DEF PageInv, ReadingInv, ListedInv, DetailInv, Keeps, Has
  <2> QED
    BY <2>3, <2>4
<1> QED
  BY <1>1, <1>2 DEF PagesInv

LEMMA PagesStep == SaverInv /\ PagesInv /\ [Next]_vars => PagesInv'
<1> SUFFICES ASSUME SaverInv, PagesInv, [Next]_vars PROVE PagesInv'
  OBVIOUS
<1>0. page \in [Users -> List \cup Detail \cup {Blank}] /\ seen \in [Users -> [Ids -> Versions \cup {None}]]
  BY DEF PagesInv, PageType
<1>1. ASSUME NEW u \in Users, NEW dashboard \in BOOLEAN, OpenList(u, dashboard) PROVE PagesInv'
  <2>1. page'[u] \in List /\ PageInv(page[u])'
    BY <1>1, PageOpened
  <2>2. seen' = seen /\ UNCHANGED <<target, shared>> /\ \E p : page' = [page EXCEPT ![u] = p]
    BY <1>1 DEF OpenList, saverVars
  <2>3. PageType'
    BY <1>0, <2>1, <2>2 DEF PageType
  <2> QED
    BY <1>0, <2>1, <2>2, <2>3, OnePage
<1>2. ASSUME NEW u \in Users, Fails(u) PROVE PagesInv'
  <2>1. page'[u] \in List \cup {Blank} /\ PageInv(page[u])'
    BY <1>2, PageFailed
  <2>2. seen' = seen /\ UNCHANGED <<target, shared>> /\ \E p : page' = [page EXCEPT ![u] = p]
    BY <1>2 DEF Fails, saverVars
  <2>3. PageType'
    BY <1>0, <2>1, <2>2 DEF PageType
  <2> QED
    BY <1>0, <2>1, <2>2, <2>3, OnePage
<1>3. ASSUME NEW u \in Users, LoadNext(u) PROVE PagesInv'
  <2>1. PICK i \in page[u].names : (\A j \in page[u].names : i <= j) /\ Load(u, i)
    BY <1>3 DEF LoadNext
  <2>2. page[u].at = "reading" /\ seen' = seen /\ UNCHANGED <<target, shared>>
    BY <1>3 DEF LoadNext, saverVars
  <2>3. page'[u] \in List /\ PageInv(page[u])'
    BY <2>1, <2>2, PageLoaded
  <2>4. \E p : page' = [page EXCEPT ![u] = p]
    BY <2>1 DEF Load
  <2>5. PageType'
    BY <1>0, <2>2, <2>3, <2>4 DEF PageType
  <2> QED
    BY <1>0, <2>2, <2>3, <2>4, <2>5, OnePage
<1>4. ASSUME NEW u \in Users, ShowList(u) PROVE PagesInv'
  <2>1. /\ page'[u] \in List /\ PageInv(page[u])'
        /\ seen'[u] \in [Ids -> Versions \cup {None}]
        /\ \A i \in Ids : \/ seen'[u][i] = seen[u][i]
                          \/ Keeps(i, seen'[u][i]) /\ seen'[u][i] \in Versions
    BY <1>4, PageShown
  <2>2. UNCHANGED <<target, shared>> /\ \E p : page' = [page EXCEPT ![u] = p]
    BY <1>4 DEF ShowList, saverVars
  <2>3. \E known : seen' = [seen EXCEPT ![u] = known]
    BY <1>4 DEF ShowList
  <2>4. PageType'
    BY <1>0, <2>1, <2>2, <2>3 DEF PageType
  <2> QED
    BY <1>0, <2>1, <2>2, <2>3, <2>4, OnePage
<1>5. ASSUME NEW u \in Users, NEW i \in Ids, Follow(u, i) PROVE PagesInv'
  <2>1. /\ page'[u] \in Detail /\ PageInv(page[u])'
        /\ \A j \in Ids : \/ seen'[u][j] = seen[u][j]
                          \/ Keeps(j, seen'[u][j]) /\ seen'[u][j] \in Versions
    BY <1>5, PageFollowed
  <2>2. UNCHANGED <<target, shared>> /\ \E p : page' = [page EXCEPT ![u] = p]
    BY <1>5 DEF Follow, saverVars
  <2>3. \E v : seen' = [seen EXCEPT ![u][i] = v]
    BY <1>5 DEF Follow
  <2>4. PageType'
    BY <1>0, <2>1, <2>2, <2>3 DEF PageType
  <2> QED
    BY <1>0, <2>1, <2>2, <2>3, <2>4, OnePage
\* Steps of RunJob and Save, and a crash.
<1>6. ASSUME page' \in {page, [u \in Users |-> Blank]}, seen' = seen PROVE PagesInv'
  <2>1. PageType'
    BY <1>0, <1>6 DEF PageType
  <2>2. ASSUME NEW u \in Users PROVE SeenInv(u)' /\ PageInv(page[u])'
    <3>1. page'[u] \in {page[u], Blank}
      BY <1>6
    <3> QED
      BY <1>6, <3>1, PagesUnderSaver
  <2> QED
    BY <2>1, <2>2 DEF PagesInv
<1>7. ASSUME NEW w \in Users, Answer(w) PROVE PagesInv'
  <2>1. /\ current \in Ids /\ target[current] = Final /\ UNCHANGED <<target, shared>> /\ page' = page
        /\ seen' = [seen EXCEPT ![w][current] = Final]
    BY <1>7 DEF Answer, SaverInv
  <2>2. Final \in Versions /\ Keeps(current, Final)
    BY <2>1, Numbers DEF Keeps
  <2>3. PageType'
    BY <1>0, <2>1, <2>2 DEF PageType
  <2>4. ASSUME NEW u \in Users PROVE SeenInv(u)' /\ PageInv(page[u])'
    <3>1. \A i \in Ids : seen'[u][i] = seen[u][i] \/ (seen'[u][i] \in Versions /\ Keeps(i, seen[u][i])')
      BY <1>0, <2>1, <2>2 DEF Keeps
    <3> QED
      BY <2>1, <3>1, PagesUnderSaver
  <2> QED
    BY <2>3, <2>4 DEF PagesInv
<1>8. NewJob \/ SaveSteps \/ Crash \/ UNCHANGED vars => page' \in {page, [u \in Users |-> Blank]} /\ seen' = seen
  BY DEF NewJob, SaveSteps, CreateTemp, Write, CloseTemp, Rename, Crash, vars
<1> QED
  BY <1>1, <1>2, <1>3, <1>4, <1>5, <1>6, <1>7, <1>8 DEF Next, Pages

-----------------------------------------------------------------------------

\* A list shows every job that had a file when it was asked for, newest first and
\* no older than it then was unless two jobs share its id, although the files are
\* read one by one while RunJob replaces them; what the dashboard leaves out is
\* older than what it shows.
THEOREM ListsAreComplete == Spec => []PageShowsTheNewest
<1> DEFINE IInv == SaverInv /\ PagesInv
<1>1. Init => IInv
  BY SaverInit, PagesInit
<1>2. IInv /\ [Next]_vars => IInv'
  BY SaverStep, PagesStep
<1>3. IInv => PageShowsTheNewest
  BY DEF PagesInv, PageInv, ListedInv, PageShowsTheNewest
<1> QED
  BY <1>1, <1>2, <1>3, PTL DEF Spec

\* A link a user has seen, on whatever page, never leads to a missing or
\* half-written file, across failed saves and crashes, and the job there has
\* every run it had then, up to the step that gives its id to a second job
\* (job.go:49): only that can replace what was there by something older.
THEOREM LinksAreKept == Spec => []LinksHold
<1> DEFINE IInv == SaverInv /\ PagesInv
<1>1. Init => IInv
  BY SaverInit, PagesInit
<1>2. IInv /\ [Next]_vars => IInv'
  BY SaverStep, PagesStep
<1>3. IInv => LinksHold
  BY DEF PagesInv, PageInv, DetailInv, LinksHold
<1> QED
  BY <1>1, <1>2, <1>3, PTL DEF Spec

\* Bounds of the model, which no step exceeds.
LEMMA CounterStep ==
  faults \in 0..MaxFaults /\ crashes \in 0..MaxCrashes /\ [Next]_vars
  => faults' \in 0..MaxFaults /\ crashes' \in 0..MaxCrashes
<1> SUFFICES ASSUME faults \in 0..MaxFaults, crashes \in 0..MaxCrashes, [Next]_vars
             PROVE  faults' \in 0..MaxFaults /\ crashes' \in 0..MaxCrashes
  OBVIOUS
<1>1. (faults' = faults \/ Fault) /\ (crashes' = crashes \/ (crashes < MaxCrashes /\ crashes' = crashes + 1))
  BY DEF Next, NewJob, SaveSteps, CreateTemp, Write, CloseTemp, Rename, Abandon, Answer, Crash,
    Pages, OpenList, Fails, LoadNext, Load, ShowList, Follow, vars, saverVars
<1> QED
  BY <1>1, Numbers DEF Fault

\* Every variable keeps its type; above all no job file is ever half-written
\* (job.go:75-87), though Write may fail and the process crash anywhere in Save.
THEOREM TypeCorrect == Spec => []TypeOK
<1> DEFINE IInv == /\ SaverInv /\ PagesInv
                   /\ faults \in 0..MaxFaults /\ crashes \in 0..MaxCrashes
<1>1. Init => IInv
  <2>1. Init => faults \in 0..MaxFaults /\ crashes \in 0..MaxCrashes
    BY Numbers DEF Init
  <2> QED
    BY <2>1, SaverInit, PagesInit
<1>2. IInv /\ [Next]_vars => IInv'
  BY SaverStep, PagesStep, CounterStep
<1>3. IInv => TypeOK
  BY DEF SaverInv, SaverType, Saving, PagesInv, PageType, TypeOK
<1> QED
  BY <1>1, <1>2, <1>3, PTL DEF Spec
=============================================================================
