-------------------------- MODULE UpstreamSyncProofs --------------------------
(***************************************************************************)
(* Proofs about the lock files on main, for any number of clones, watched  *)
(* files, attempts and upstream commits.                                   *)
(***************************************************************************)
EXTENDS UpstreamSync, TLAPS

USE SyncAssumption

Whole(lock) == \A p \in Path : lock.files[p] = lock.commit

\* A lock of commit c may replace this one.
Newer(c, lock) == c > lock.commit \/ (c = lock.commit /\ lock.version = "v1")

\* A request that waits may be sent once more.
WaitInv == \A r \in Run : \A url \in waiting[r] : attempts[r][url] < MaxAttempts

\* No lock on main is broken or ahead of upstream, and each is newer than the
\* one before.
MainInv ==
    /\ \A i \in 1 .. Len(main) :
          /\ main[i].commit <= head /\ main[i].version # "broken"
          /\ main[i].version = "none" => main[i].commit = 0
          /\ main[i].version = "v2" => Whole(main[i])
    /\ \A i \in 2 .. Len(main) :
          main[i].version = "v2" /\ Newer(main[i].commit, main[i - 1])

\* The lock in a working copy is the one of its clone, broken, or one that was
\* written since, and then not older.
WorkInv(r) ==
    /\ base[r] \in 1 .. Len(main)
    /\ work[r].version \in {"none", "v1"} => work[r] = main[base[r]]
    /\ work[r].version = "v2" =>
          Whole(work[r]) /\ main[base[r]].commit <= work[r].commit /\ work[r].commit <= head

\* What each phase says about the commit and the files of a run.
PhaseInv(r) ==
    /\ phase[r] = "resolving" => work[r].version # "broken"
    /\ phase[r] \in {"fetching", "writing", "changed"} =>
          commit[r] <= head /\ Newer(commit[r], main[base[r]])
    /\ phase[r] \in {"idle", "resolving"} => \A p \in Path : files[r][p] = 0
    /\ phase[r] = "fetching" => \A p \in Path : files[r][p] \in {0, commit[r]}
    /\ phase[r] = "writing" => \A p \in Path : files[r][p] = commit[r]
    /\ phase[r] = "changed" => work[r].version = "v2" /\ work[r].commit = commit[r]

RunInv(r) == WorkInv(r) /\ PhaseInv(r)

IInv == TypeOK /\ WaitInv /\ MainInv /\ \A r \in Run : RunInv(r)

LEMMA FirstValuesHaveType ==
    FirstAttempts \in [Path \cup {Branch} -> 1 .. MaxAttempts] /\ NoFiles \in [Path -> Nat]
BY DEF FirstAttempts, NoFiles

LEMMA LocksHaveType ==
    /\ NoLock \in Locks /\ BrokenLock \in Locks
    /\ \A c \in Nat, content \in [Path -> Nat], v \in {"none", "broken", "v1", "v2"} :
          LockFile(v, c, content) \in Locks
BY DEF NoLock, BrokenLock, LockFile, Locks, NoFiles

LEMMA InitIInv == Init => IInv
<1> SUFFICES ASSUME Init PROVE IInv
  OBVIOUS
<1>1. PICK lock \in {NoLock, LockFile("v1", 1, [p \in Path |-> 1]),
                     LockFile("v2", 1, [p \in Path |-> 1])} :
         main = <<lock>> /\ work = [r \in Run |-> lock]
  BY DEF Init
<1>2. /\ lock \in Locks
      /\ lock.commit <= 1 /\ lock.version # "broken"
      /\ lock.version = "none" => lock.commit = 0
      /\ lock.version = "v2" => Whole(lock)
  <2>1. [p \in Path |-> 1] \in [Path -> Nat] /\ 1 \in Nat
    OBVIOUS
  <2>2. lock \in Locks
    BY <2>1, LocksHaveType
  <2> QED BY <2>2 DEF NoLock, LockFile, Whole
<1>3. TypeOK
  BY <1>1, <1>2, FirstValuesHaveType DEF Init, TypeOK
<1>4. WaitInv
  BY DEF Init, WaitInv
<1>5. main \in Seq(Locks) /\ Len(main) = 1 /\ main[1] = lock
  BY <1>1, <1>2
<1>6. MainInv
  BY <1>2, <1>5 DEF Init, MainInv
<1>7. ASSUME NEW r \in Run PROVE RunInv(r)
  <2>1. base[r] = 1 /\ work[r] = lock /\ phase[r] = "idle" /\ lock.commit \in Nat
    BY <1>1, <1>2 DEF Init, Locks
  <2> QED BY <1>2, <1>5, <2>1 DEF Init, RunInv, WorkInv, PhaseInv, NoFiles
<1> QED BY <1>3, <1>4, <1>6, <1>7 DEF IInv

\* What is known of a run stays known while only others act: main grows at its
\* end, and upstream advances.
LEMMA OthersKeepRunInv ==
    ASSUME IInv, NEW r \in Run,
           head' \in Nat, head <= head',
           main' = main \/ \E lock \in Locks : main' = Append(main, lock),
           work'[r] = work[r], base'[r] = base[r], phase'[r] = phase[r],
           commit'[r] = commit[r], files'[r] = files[r]
    PROVE  RunInv(r)'
<1>1. base[r] \in 1 .. Len(main) /\ main \in Seq(Locks)
  BY DEF IInv, TypeOK, RunInv, WorkInv
<1>2. base[r] \in 1 .. Len(main)' /\ main'[base[r]] = main[base[r]]
  BY <1>1
<1>3. main[base[r]] \in Locks /\ work[r] \in Locks /\ commit[r] \in Nat /\ head \in Nat
  BY <1>1 DEF IInv, TypeOK
<1>4. RunInv(r)
  BY DEF IInv
<1>5. WorkInv(r)'
  BY <1>2, <1>3, <1>4 DEF RunInv, WorkInv, Whole, Locks
<1>6. PhaseInv(r)'
  BY <1>2, <1>3, <1>4 DEF RunInv, PhaseInv, Newer, Locks
<1> QED BY <1>5, <1>6 DEF RunInv

\* A process that ends leaves only its working copy.
LEMMA EndKeepsRunInv ==
    ASSUME IInv, NEW r \in Run, End(r), UNCHANGED <<head, main, work, base>>
    PROVE  TypeOK' /\ WaitInv' /\ MainInv' /\ RunInv(r)'
<1> USE DEF IInv, End, GoTo
<1>1. TypeOK'
  BY FirstValuesHaveType DEF TypeOK
<1>2. WaitInv'
  BY DEF WaitInv, TypeOK
<1>3. MainInv'
  BY DEF MainInv
<1>4. phase'[r] = "idle" /\ \A p \in Path : files'[r][p] = 0
  BY DEF TypeOK, NoFiles
<1>5. RunInv(r)'
  BY <1>4 DEF RunInv, WorkInv, PhaseInv
<1> QED BY <1>1, <1>2, <1>3, <1>5

\* An answer is to a request that does not wait, and ends its attempts.
LEMMA AnsweredKeepsAttempts ==
    ASSUME TypeOK, WaitInv, NEW r \in Run, NEW url, Answered(r, url), UNCHANGED waiting
    PROVE  /\ url \in Path \cup {Branch} /\ url \notin waiting[r]
           /\ attempts' \in [Run -> [Path \cup {Branch} -> 1 .. MaxAttempts]]
           /\ WaitInv'
<1>1. url \in (Path \cup {Branch}) \ waiting[r]
  BY DEF Answered, Pending
<1>2. 1 \in 1 .. MaxAttempts
  OBVIOUS
<1>3. attempts' \in [Run -> [Path \cup {Branch} -> 1 .. MaxAttempts]]
  BY <1>1, <1>2 DEF Answered, TypeOK
<1>4. WaitInv'
  BY <1>1 DEF Answered, TypeOK, WaitInv
<1> QED BY <1>1, <1>3, <1>4

LEMMA ResolveKeepsRunInv ==
    ASSUME IInv, NEW r \in Run, Resolve(r)
    PROVE  TypeOK' /\ WaitInv' /\ MainInv' /\ RunInv(r)'
<1>1. CASE Current(r) /\ End(r)
  BY <1>1, EndKeepsRunInv DEF Resolve
<1>2. CASE ~Current(r)
  <2> USE DEF IInv
  <2>1. /\ phase[r] = "resolving" /\ Answered(r, Branch) /\ GoTo(r, "fetching")
        /\ commit' = [commit EXCEPT ![r] = head]
        /\ UNCHANGED <<head, main, work, base, waiting, files>>
    BY <1>2 DEF Resolve, Pending
  <2>2. TypeOK' /\ WaitInv'
    BY <2>1, AnsweredKeepsAttempts DEF TypeOK, GoTo
  <2>3. MainInv'
    BY <2>1 DEF MainInv
  <2>4. /\ main[base[r]] \in Locks /\ work[r] \in Locks
        /\ main[base[r]].commit <= head /\ main[base[r]].version # "broken"
        /\ main[base[r]].version = "none" => main[base[r]].commit = 0
    BY DEF TypeOK, RunInv, WorkInv, MainInv
  <2>5. Newer(head, main[base[r]])
    <3>1. main[base[r]].version = "v2" => work[r].version = "v2" \/ head # main[base[r]].commit
      BY <2>1, <2>4 DEF RunInv, WorkInv, PhaseInv, Locks
    <3>2. work[r].version = "v2" => work[r].commit < head /\ main[base[r]].commit <= work[r].commit
      BY <1>2, <2>4 DEF RunInv, WorkInv, Current, Locks, TypeOK
    <3> QED BY <2>4, <3>1, <3>2 DEF Newer, Locks, TypeOK
  <2>6. WorkInv(r)'
    BY <2>1 DEF RunInv, WorkInv
  <2>7. PhaseInv(r)'
    <3>1. phase'[r] = "fetching" /\ commit'[r] = head /\ head <= head
      BY <2>1 DEF GoTo, TypeOK
    <3>2. \A p \in Path : files[r][p] = 0
      BY <2>1 DEF RunInv, PhaseInv
    <3> QED BY <2>1, <2>5, <3>1, <3>2 DEF PhaseInv
  <2> QED BY <2>2, <2>3, <2>6, <2>7 DEF RunInv
<1> QED BY <1>1, <1>2 DEF Resolve

LEMMA ReceiveKeepsRunInv ==
    ASSUME IInv, NEW r \in Run, NEW p \in Path, ReceiveFile(r, p)
    PROVE  TypeOK' /\ WaitInv' /\ MainInv' /\ RunInv(r)'
<1> USE DEF IInv
<1>1. /\ phase[r] = "fetching" /\ Answered(r, p)
      /\ files' = [files EXCEPT ![r][p] = commit[r]]
      /\ UNCHANGED <<head, main, work, base, phase, commit, waiting>>
  BY DEF ReceiveFile, Content, Answered, Pending
<1>2. TypeOK' /\ WaitInv'
  BY <1>1, AnsweredKeepsAttempts DEF TypeOK
<1>3. MainInv'
  BY <1>1 DEF MainInv
<1>4. WorkInv(r)'
  BY <1>1 DEF RunInv, WorkInv
<1>5. PhaseInv(r)'
  BY <1>1 DEF RunInv, PhaseInv, TypeOK
<1> QED BY <1>2, <1>3, <1>4, <1>5 DEF RunInv

LEMMA RetryKeepsRunInv ==
    ASSUME IInv, NEW r \in Run, NEW url \in Path \cup {Branch}, Wait(r, url) \/ SendAgain(r, url)
    PROVE  TypeOK' /\ WaitInv' /\ MainInv' /\ RunInv(r)'
<1> USE DEF IInv
<1>1. UNCHANGED <<head, main, work, base, phase, commit, files>>
  BY DEF Wait, SendAgain
<1>2. CASE Wait(r, url)
  <2>1. TypeOK' /\ WaitInv'
    BY <1>1, <1>2 DEF TypeOK, WaitInv, Wait, MayTryAgain
  <2> QED BY <1>1, <2>1 DEF MainInv, RunInv, WorkInv, PhaseInv
<1>3. CASE SendAgain(r, url)
  <2>1. attempts[r][url] \in 1 .. MaxAttempts /\ attempts[r][url] < MaxAttempts
    BY <1>3 DEF TypeOK, WaitInv, SendAgain
  <2>2. attempts[r][url] + 1 \in 1 .. MaxAttempts
    BY <2>1
  <2>3. TypeOK'
    BY <1>1, <1>3, <2>2 DEF TypeOK, SendAgain, NextAttempt
  <2>4. WaitInv'
    BY <1>3 DEF TypeOK, WaitInv, SendAgain
  <2> QED BY <1>1, <2>3, <2>4 DEF MainInv, RunInv, WorkInv, PhaseInv
<1> QED BY <1>2, <1>3

LEMMA LockStepsKeepRunInv ==
    ASSUME IInv, NEW r \in Run, TruncateLock(r) \/ WriteLock(r)
    PROVE  TypeOK' /\ WaitInv' /\ MainInv' /\ RunInv(r)'
<1> USE DEF IInv
<1>1. UNCHANGED <<head, main, base, commit, attempts, waiting, files>>
  BY DEF TruncateLock, WriteLock
<1>2. WaitInv' /\ MainInv'
  BY <1>1 DEF WaitInv, MainInv
<1>3. CASE TruncateLock(r)
  <2>1. TypeOK'
    BY <1>1, <1>3, LocksHaveType DEF TypeOK, TruncateLock, GoTo
  <2>2. work'[r].version = "broken" /\ phase'[r] = "writing"
    BY <1>3 DEF TypeOK, TruncateLock, GoTo, BrokenLock, LockFile
  <2>3. \A p \in Path : files[r][p] = commit[r]
    BY <1>3 DEF TruncateLock, RunInv, PhaseInv
  <2>4. phase[r] = "fetching"
    BY <1>3 DEF TruncateLock
  <2> QED BY <1>1, <1>2, <2>1, <2>2, <2>3, <2>4 DEF RunInv, WorkInv, PhaseInv
<1>4. CASE WriteLock(r)
  <2>1. files[r] \in [Path -> Nat] /\ commit[r] \in Nat
    BY DEF TypeOK
  <2>2. TypeOK'
    BY <1>1, <1>4, <2>1, LocksHaveType DEF TypeOK, WriteLock, GoTo
  <2>3. /\ phase[r] = "writing" /\ phase'[r] = "changed"
        /\ work'[r].version = "v2" /\ work'[r].commit = commit[r] /\ work'[r].files = files[r]
    BY <1>4 DEF TypeOK, WriteLock, GoTo, LockFile
  <2>4. main[base[r]].commit <= commit[r] /\ commit[r] <= head
    <3>1. main[base[r]] \in Locks
      BY DEF RunInv, WorkInv, TypeOK
    <3>2. commit[r] <= head /\ Newer(commit[r], main[base[r]])
      BY <2>3 DEF RunInv, PhaseInv
    <3> QED BY <2>1, <3>1, <3>2 DEF Newer, Locks
  <2>5. Whole(work[r])'
    BY <2>3 DEF Whole, RunInv, PhaseInv
  <2> QED BY <1>1, <1>2, <2>2, <2>3, <2>4, <2>5 DEF RunInv, WorkInv, PhaseInv
<1> QED BY <1>3, <1>4

LEMMA PushKeepsRunInv ==
    ASSUME IInv, NEW r \in Run, Push(r)
    PROVE  TypeOK' /\ WaitInv' /\ MainInv' /\ RunInv(r)'
<1>1. CASE ~FastForward(r)
  BY <1>1, EndKeepsRunInv DEF Push
<1>2. CASE FastForward(r)
  <2> USE DEF IInv
  <2>1. /\ main' = Append(main, work[r]) /\ base' = [base EXCEPT ![r] = Len(main')]
        /\ phase[r] = "changed" /\ base[r] = Len(main)
        /\ End(r) /\ UNCHANGED <<head, work>>
    BY <1>2 DEF Push, FastForward
  <2>2. main \in Seq(Locks) /\ work[r] \in Locks /\ commit[r] \in Nat /\ head \in Nat
    BY DEF TypeOK
  <2>3. /\ main' \in Seq(Locks) /\ Len(main') = Len(main) + 1
        /\ main'[Len(main) + 1] = work[r]
        /\ \A i \in 1 .. Len(main) : main'[i] = main[i]
    BY <2>1, <2>2
  <2>4. TypeOK'
    <3>1. main' # <<>> /\ Len(main') \in Nat
      BY <2>2, <2>3
    <3> QED BY <2>1, <2>3, <3>1, FirstValuesHaveType DEF TypeOK, End, GoTo
  <2>5. WaitInv'
    BY <2>1 DEF WaitInv, TypeOK, End
  <2>6. /\ work[r].version = "v2" /\ Whole(work[r]) /\ work[r].commit <= head
        /\ Newer(work[r].commit, main[Len(main)])
    BY <2>1 DEF RunInv, WorkInv, PhaseInv
  <2>7. MainInv'
    <3>1. ASSUME NEW i \in 1 .. Len(main')
          PROVE  /\ main'[i].commit <= head /\ main'[i].version # "broken"
                 /\ main'[i].version = "none" => main'[i].commit = 0
                 /\ main'[i].version = "v2" => Whole(main'[i])
      <4>1. CASE i \in 1 .. Len(main)
        BY <2>3, <4>1 DEF MainInv
      <4>2. CASE i = Len(main) + 1
        BY <2>3, <2>6, <4>2
      <4> QED BY <2>2, <2>3, <4>1, <4>2
    <3>2. ASSUME NEW i \in 2 .. Len(main')
          PROVE  main'[i].version = "v2" /\ Newer(main'[i].commit, main'[i - 1])
      <4>1. CASE i \in 2 .. Len(main)
        BY <2>2, <2>3, <4>1 DEF MainInv
      <4>2. CASE i = Len(main) + 1
        BY <2>2, <2>3, <2>6, <4>2
      <4> QED BY <2>2, <2>3, <4>1, <4>2
    <3> QED BY <2>1, <3>1, <3>2 DEF MainInv, Whole, Newer
  <2>8. base'[r] = Len(main) + 1 /\ phase'[r] = "idle" /\ \A p \in Path : files'[r][p] = 0
    BY <2>1, <2>3 DEF TypeOK, End, GoTo, NoFiles
  <2>9. RunInv(r)'
    <3>1. Len(main) + 1 \in 1 .. Len(main') /\ work[r].commit \in Nat
      BY <2>2, <2>3 DEF Locks
    <3> QED BY <2>1, <2>2, <2>3, <2>6, <2>8, <3>1 DEF RunInv, WorkInv, PhaseInv, Whole
  <2> QED BY <2>4, <2>5, <2>7, <2>9
<1> QED BY <1>1, <1>2

\* Starting a run, or restoring the working copy of a clone.
LEMMA StartKeepsRunInv ==
    ASSUME IInv, NEW r \in Run,
           (r = Workflow /\ StartWorkflow) \/ StartManual(r) \/ Pull(r)
    PROVE  TypeOK' /\ WaitInv' /\ MainInv' /\ RunInv(r)'
<1> USE DEF IInv
<1>1. UNCHANGED <<head, main, commit, attempts, waiting, files>> /\ phase[r] = "idle"
  BY DEF StartWorkflow, StartManual, Pull, runVars
<1>2. WaitInv' /\ MainInv'
  BY <1>1 DEF WaitInv, MainInv
<1>3. \A p \in Path : files[r][p] = 0
  BY <1>1 DEF RunInv, PhaseInv
<1>4. CASE StartManual(r)
  <2>1. UNCHANGED <<work, base>> /\ phase' = [phase EXCEPT ![r] = "resolving"]
        /\ work[r].version # "broken"
    BY <1>4 DEF StartManual, GoTo
  <2>2. TypeOK'
    BY <1>1, <2>1 DEF TypeOK
  <2>3. phase'[r] = "resolving"
    BY <2>1 DEF TypeOK
  <2> QED BY <1>1, <1>2, <1>3, <2>1, <2>2, <2>3 DEF RunInv, WorkInv, PhaseInv
<1>5. CASE (r = Workflow /\ StartWorkflow) \/ Pull(r)
  <2>1. main \in Seq(Locks) /\ Len(main) \in 1 .. Len(main)
    BY DEF TypeOK
  <2>2. PICK n \in 1 .. Len(main) : Checkout(r, n)
    BY <1>5, <2>1 DEF StartWorkflow, Pull
  <2>3. main[n] \in Locks /\ work'[r] = main[n] /\ base'[r] = n
    BY <2>1, <2>2 DEF Checkout, TypeOK
  <2>4. PICK next \in {"idle", "resolving"} : phase' = [phase EXCEPT ![r] = next]
    BY <1>1, <1>5 DEF StartWorkflow, Pull, GoTo, runVars, TypeOK
  <2>5. TypeOK' /\ phase'[r] = next
    <3>1. n \in Nat /\ next \in {"idle", "resolving", "fetching", "writing", "changed"}
      BY <2>1, <2>2, <2>4
    <3>2. work' \in [Run -> Locks] /\ base' \in [Run -> Nat]
      BY <2>2, <2>3, <3>1 DEF TypeOK, Checkout
    <3> QED BY <1>1, <2>4, <3>1, <3>2 DEF TypeOK
  <2>6. /\ main[n].commit <= head /\ main[n].version # "broken"
        /\ main[n].version = "v2" => Whole(main[n])
    BY DEF MainInv
  <2>7. main[n].commit <= main[n].commit
    BY <2>3 DEF Locks
  <2> QED BY <1>1, <1>2, <1>3, <2>3, <2>5, <2>6, <2>7 DEF RunInv, WorkInv, PhaseInv, Whole
<1> QED BY <1>4, <1>5

\* A run changes nothing of another one, and of main only its end.
LEMMA StepsAreLocal ==
    ASSUME IInv, NEW r \in Run,
           (r = Workflow /\ StartWorkflow) \/ StartManual(r) \/ Pull(r) \/ Step(r) \/ Killed(r)
    PROVE  /\ head' = head
           /\ main' = main \/ main' = Append(main, work[r])
           /\ \A q \in Run \ {r} :
                 /\ work'[q] = work[q] /\ base'[q] = base[q] /\ phase'[q] = phase[q]
                 /\ commit'[q] = commit[q] /\ files'[q] = files[q]
<1> USE DEF IInv, TypeOK
<1>1. CASE (r = Workflow /\ StartWorkflow) \/ StartManual(r) \/ Pull(r)
  BY <1>1 DEF StartWorkflow, StartManual, Pull, Checkout, GoTo, runVars
<1>2. CASE Killed(r) \/ RequestThrows(r)
  BY <1>2 DEF Killed, RequestThrows, End, GoTo
<1>3. CASE Resolve(r)
  BY <1>3 DEF Resolve, End, GoTo
<1>4. CASE \E url \in Path \cup {Branch} : ReceiveFile(r, url) \/ Wait(r, url) \/ SendAgain(r, url)
  BY <1>4 DEF ReceiveFile, Wait, SendAgain
<1>5. CASE TruncateLock(r) \/ WriteLock(r)
  BY <1>5 DEF TruncateLock, WriteLock, GoTo
<1>6. CASE Push(r)
  BY <1>6 DEF Push, End, GoTo
<1> QED BY <1>1, <1>2, <1>3, <1>4, <1>5, <1>6 DEF Step, Script

LEMMA RunKeepsIInv ==
    ASSUME IInv, NEW r \in Run,
           (r = Workflow /\ StartWorkflow) \/ StartManual(r) \/ Pull(r) \/ Step(r) \/ Killed(r)
    PROVE  IInv'
<1>1. TypeOK' /\ WaitInv' /\ MainInv' /\ RunInv(r)'
  <2>1. CASE Killed(r) \/ RequestThrows(r)
    BY <2>1, EndKeepsRunInv DEF Killed, RequestThrows
  <2>2. CASE \E url \in Path \cup {Branch} : ReceiveFile(r, url) \/ Wait(r, url) \/ SendAgain(r, url)
    BY <2>2, ReceiveKeepsRunInv, RetryKeepsRunInv DEF ReceiveFile
  <2> QED
    BY <2>1, <2>2, StartKeepsRunInv, ResolveKeepsRunInv, LockStepsKeepRunInv,
       PushKeepsRunInv DEF Step, Script
<1>2. ASSUME NEW q \in Run \ {r} PROVE RunInv(q)'
  <2>1. work[r] \in Locks /\ head \in Nat /\ head <= head
    BY DEF IInv, TypeOK
  <2> QED BY <2>1, StepsAreLocal, OthersKeepRunInv
<1> QED BY <1>1, <1>2 DEF IInv

LEMMA IInvInductive == IInv /\ [Next]_vars => IInv'
<1> SUFFICES ASSUME IInv, [Next]_vars PROVE IInv'
  OBVIOUS
<1>1. CASE UpstreamAdvances
  <2> USE <1>1 DEF UpstreamAdvances
  <2>1. /\ head \in Nat \ {0} /\ head' = head + 1 /\ main \in Seq(Locks)
        /\ UNCHANGED <<main, work, base, phase, commit, attempts, waiting, files>>
    BY DEF IInv, TypeOK, runVars
  <2>2. head' \in Nat \ {0} /\ head <= head'
    BY <2>1
  <2>3. TypeOK' /\ WaitInv'
    BY <2>1, <2>2 DEF IInv, TypeOK, WaitInv
  <2>4. MainInv'
    <3>1. ASSUME NEW i \in 1 .. Len(main) PROVE main[i].commit <= head'
      <4>1. main[i] \in Locks
        BY <2>1
      <4> QED BY <2>1, <4>1 DEF IInv, MainInv, Locks
    <3> QED BY <2>1, <3>1 DEF IInv, MainInv
  <2>5. ASSUME NEW q \in Run PROVE RunInv(q)'
    BY <2>1, <2>2, OthersKeepRunInv
  <2> QED BY <2>3, <2>4, <2>5 DEF IInv
<1>2. CASE UNCHANGED vars
  <2> USE <1>2 DEF vars, runVars
  <2>1. TypeOK' /\ WaitInv' /\ MainInv'
    BY DEF IInv, TypeOK, WaitInv, MainInv
  <2>2. ASSUME NEW q \in Run PROVE RunInv(q)'
    BY DEF IInv, RunInv, WorkInv, PhaseInv
  <2> QED BY <2>1, <2>2 DEF IInv
<1>3. CASE StartWorkflow
  BY <1>3, RunKeepsIInv DEF Run
<1>4. CASE \E r \in Run : Pull(r) \/ StartManual(r) \/ Step(r) \/ Killed(r)
  BY <1>4, RunKeepsIInv
<1> QED BY <1>1, <1>2, <1>3, <1>4 DEF Next

LEMMA IInvHolds == SafetySpec => []IInv
BY InitIInv, IInvInductive, PTL DEF SafetySpec

\* Every variable keeps its type; in particular no request is sent more than
\* MaxAttempts times (fetchText).
THEOREM SyncTypeCorrect == SafetySpec => []TypeOK
<1>1. IInv => TypeOK
  BY DEF IInv
<1> QED BY <1>1, IInvHolds, PTL

\* No lock that reaches main is broken or mixes the files of two commits.
THEOREM LocksOnMainAreWhole == SafetySpec => []LocksAreWhole
<1>1. IInv => LocksAreWhole
  <2> SUFFICES ASSUME IInv, NEW i \in 2 .. Len(main)
               PROVE  main[i].version = "v2" /\ Whole(main[i])
    BY DEF LocksAreWhole, Whole
  <2>1. i \in 1 .. Len(main)
    BY DEF IInv, TypeOK
  <2> QED BY <2>1 DEF IInv, MainInv
<1> QED BY <1>1, IInvHolds, PTL

\* The lock on main follows upstream forward, and is replaced only when upstream
\* or the schema has changed.
THEOREM LocksOnMainAdvance == SafetySpec => []LocksAdvance
<1>1. IInv => LocksAdvance
  BY DEF IInv, MainInv, Newer, LocksAdvance
<1> QED BY <1>1, IInvHolds, PTL

===============================================================================
