---------------------------- MODULE UpstreamSync ----------------------------
(***************************************************************************)
(* sync-upstream.mjs, run by the workflow "Upstream Sync" and by           *)
(* maintainers in clones of their own.  A run resolves the newest commit   *)
(* of the upstream branch, downloads the watched files of that commit at   *)
(* the same time, each with up to three attempts, and writes the lock      *)
(* file, which is then committed and pushed to main.  Meanwhile upstream   *)
(* advances, other runs push, and a run may fail or be killed anywhere.    *)
(*                                                                         *)
(* Commits are numbered in the order of the branch; the content of a file  *)
(* is the number of the commit it was taken from.                          *)
(***************************************************************************)
EXTENDS Naturals, Sequences, FiniteSets

CONSTANTS
    Path,       \* WATCHED_FILES
    Workflow,   \* the run of the workflow: its concurrency group admits one
    Manual,     \* the clones of maintainers
    MaxAttempts,    \* of fetchText: 3 in the code
    MaxCommit   \* bound: how far upstream advances

\* Requests: for the newest commit, and for each file.
Branch == "branch"

ASSUME SyncAssumption ==
    /\ Workflow \notin Manual
    /\ MaxAttempts \in Nat \ {0} /\ MaxCommit \in Nat \ {0}
    /\ IsFiniteSet(Path) /\ Branch \notin Path

Run == Manual \cup {Workflow}

VARIABLES
    head,       \* the newest commit of the upstream branch
    main,       \* the lock files in the history of main
    work,       \* per run: the lock file in its working copy
    base,       \* per run: how much of main its clone has
    phase,      \* per run: where it is, between two awaits
    commit,     \* per run: the commit it has resolved
    attempts,   \* per run and request: the attempt of fetchText under way
    waiting,    \* per run: the requests that wait before the next attempt
    files       \* per run: the content of the files it has, or 0

runVars == <<phase, commit, attempts, waiting, files>>
vars == <<head, main, work, base, runVars>>

NoFiles == [p \in Path |-> 0]
LockFile(version, c, content) == [version |-> version, commit |-> c, files |-> content]
NoLock == LockFile("none", 0, NoFiles)
BrokenLock == LockFile("broken", 0, NoFiles)

FirstAttempts == [url \in Path \cup {Branch} |-> 1]

Init ==
    /\ head = 1
    /\ \E version \in {"none", "v1", "v2"} :
          LET lock == IF version = "none" THEN NoLock
                                          ELSE LockFile(version, 1, [p \in Path |-> 1])
          IN  main = <<lock>> /\ work = [r \in Run |-> lock]
    /\ base = [r \in Run |-> 1]
    /\ phase = [r \in Run |-> "idle"]
    /\ commit = [r \in Run |-> 0]
    /\ attempts = [r \in Run |-> FirstAttempts]
    /\ waiting = [r \in Run |-> {}]
    /\ files = [r \in Run |-> NoFiles]

UpstreamAdvances ==
    /\ head < MaxCommit
    /\ head' = head + 1
    /\ UNCHANGED <<main, work, base, runVars>>

-----------------------------------------------------------------------------
GoTo(r, next) == phase' = [phase EXCEPT ![r] = next]

\* The process ends, with or without an error.
End(r) ==
    /\ GoTo(r, "idle")
    /\ commit' = [commit EXCEPT ![r] = 0]
    /\ attempts' = [attempts EXCEPT ![r] = FirstAttempts]
    /\ waiting' = [waiting EXCEPT ![r] = {}]
    /\ files' = [files EXCEPT ![r] = NoFiles]

\* The clone of the run is main as it was after n pushes.
Checkout(r, n) ==
    /\ work' = [work EXCEPT ![r] = main[n]]
    /\ base' = [base EXCEPT ![r] = n]

\* The workflow checks out the commit it was triggered for, which need not be
\* the newest any more when it had to queue.
StartWorkflow ==
    /\ phase[Workflow] = "idle"
    /\ \E n \in DOMAIN main : Checkout(Workflow, n)
    /\ GoTo(Workflow, "resolving")
    /\ UNCHANGED <<head, main, commit, attempts, waiting, files>>

\* A maintainer restores the file and pulls.
Pull(r) ==
    /\ r \in Manual /\ phase[r] = "idle"
    /\ Checkout(r, Len(main))
    /\ UNCHANGED <<head, main, runVars>>

\* JSON.parse of a lock that is cut short throws, and the run ends at once.
StartManual(r) ==
    /\ r \in Manual /\ phase[r] = "idle"
    /\ work[r].version # "broken"
    /\ GoTo(r, "resolving")
    /\ UNCHANGED <<head, main, work, base, commit, attempts, waiting, files>>

Current(r) == work[r].version = "v2" /\ work[r].commit = head

\* The answers a run awaits: for the branch, then for every missing file.
Pending(r) ==
    IF phase[r] = "resolving" THEN {Branch} \ waiting[r]
    ELSE IF phase[r] = "fetching" THEN {p \in Path : files[r][p] = 0} \ waiting[r]
    ELSE {}

Answered(r, url) ==
    /\ url \in Pending(r)
    /\ attempts' = [attempts EXCEPT ![r][url] = 1]

\* resolveLatestCommit is answered; without a new commit the run ends.
Resolve(r) ==
    /\ Branch \in Pending(r)
    /\ \/ Current(r) /\ End(r)
       \/ /\ ~Current(r) /\ Answered(r, Branch)
          /\ commit' = [commit EXCEPT ![r] = head]
          /\ GoTo(r, "fetching")
          /\ UNCHANGED <<waiting, files>>
    /\ UNCHANGED <<head, main, work, base>>

\* Seeded fault: the URL names the branch.
BranchContent(r) == head

\* The URL names the commit.
Content(r) == commit[r]

ReceiveFile(r, p) ==
    /\ p \in Path /\ Answered(r, p)
    /\ files' = [files EXCEPT ![r][p] = Content(r)]
    /\ UNCHANGED <<head, main, work, base, phase, commit, waiting>>

\* Seeded fault: one attempt too many.
OneAttemptTooMany(r, url) == attempts[r][url] <= MaxAttempts

MayTryAgain(r, url) == attempts[r][url] < MaxAttempts

\* A network error, 429 or 5xx: wait for setTimeout.
Wait(r, url) ==
    /\ url \in Pending(r) /\ MayTryAgain(r, url)
    /\ waiting' = [waiting EXCEPT ![r] = @ \cup {url}]
    /\ UNCHANGED <<head, main, work, base, phase, commit, attempts, files>>

\* Seeded fault: the loop does not count.
SameAttempt(n) == n

NextAttempt(n) == n + 1

SendAgain(r, url) ==
    /\ url \in waiting[r]
    /\ attempts' = [attempts EXCEPT ![r][url] = NextAttempt(@)]
    /\ waiting' = [waiting EXCEPT ![r] = @ \ {url}]
    /\ UNCHANGED <<head, main, work, base, phase, commit, files>>

\* The last attempt fails too, or another status, a body that cannot be read or
\* a SHA that is none: Promise.all rejects, and so does the script.
RequestThrows(r) ==
    /\ Pending(r) # {}
    /\ End(r)
    /\ UNCHANGED <<head, main, work, base>>

\* writeFile truncates the lock before it writes it.
TruncateLock(r) ==
    /\ phase[r] = "fetching" /\ \A p \in Path : files[r][p] # 0
    /\ work' = [work EXCEPT ![r] = BrokenLock]
    /\ GoTo(r, "writing")
    /\ UNCHANGED <<head, main, base, commit, attempts, waiting, files>>

WriteLock(r) ==
    /\ phase[r] = "writing"
    /\ work' = [work EXCEPT ![r] = LockFile("v2", commit[r], files[r])]
    /\ GoTo(r, "changed")
    /\ UNCHANGED <<head, main, base, commit, attempts, waiting, files>>

\* Seeded fault: git push --force.
Forced(r) == TRUE

\* A push is refused when main has moved on.
FastForward(r) == base[r] = Len(main)

\* appendOutput, and the steps of the workflow that its answer admits.
Push(r) ==
    /\ phase[r] = "changed"
    /\ \/ FastForward(r) /\ main' = Append(main, work[r]) /\ base' = [base EXCEPT ![r] = Len(main')]
       \/ ~FastForward(r) /\ UNCHANGED <<main, base>>
    /\ End(r)
    /\ UNCHANGED <<head, work>>

\* The disk is full, the job is cancelled or runs into its time-out.
Killed(r) ==
    /\ phase[r] # "idle"
    /\ End(r)
    /\ UNCHANGED <<head, main, work, base>>

Script(r) ==
    \/ Resolve(r) \/ RequestThrows(r)
    \/ \E url \in Path \cup {Branch} : ReceiveFile(r, url) \/ Wait(r, url) \/ SendAgain(r, url)
    \/ TruncateLock(r) \/ WriteLock(r)

Step(r) == Script(r) \/ Push(r)

Next ==
    \/ UpstreamAdvances \/ StartWorkflow
    \/ \E r \in Run : Pull(r) \/ StartManual(r) \/ Step(r) \/ Killed(r)

\* A request is answered or fails, and a process that can run is run.  The job goes
\* on to commit and push; a maintainer need not.
Fairness == (\A r \in Run : WF_vars(Script(r))) /\ WF_vars(Push(Workflow))

SafetySpec == Init /\ [][Next]_vars

Spec == SafetySpec /\ Fairness

-----------------------------------------------------------------------------
(* Properties *)

Locks == [version : {"none", "broken", "v1", "v2"}, commit : Nat, files : [Path -> Nat]]

\* Every variable has its type.
TypeOK ==
    /\ head \in Nat \ {0}
    /\ main \in Seq(Locks) /\ main # <<>>
    /\ work \in [Run -> Locks] /\ base \in [Run -> Nat]
    /\ phase \in [Run -> {"idle", "resolving", "fetching", "writing", "changed"}]
    /\ commit \in [Run -> Nat] /\ files \in [Run -> [Path -> Nat]]
    /\ attempts \in [Run -> [Path \cup {Branch} -> 1 .. MaxAttempts]]
    /\ waiting \in [Run -> SUBSET (Path \cup {Branch})]

\* A lock that a run has pushed to main is complete, and all of its files are of
\* the commit it names, although upstream moved during the downloads, requests
\* were repeated, and runs were killed while they wrote.
LocksAreWhole ==
    \A i \in 2 .. Len(main) :
        /\ main[i].version = "v2"
        /\ \A p \in Path : main[i].files[p] = main[i].commit

\* docs/UPSTREAM_SYNC.md: there is a commit only when upstream has changed (or
\* the lock had an older schema).  The lock never goes back to an older commit,
\* in whatever order runs resolve, download and push.
LocksAdvance ==
    \A i \in 2 .. Len(main) :
        \/ main[i].commit > main[i - 1].commit
        \/ main[i].commit = main[i - 1].commit /\ main[i - 1].version = "v1"

\* A run ends, however often its requests fail: the job altogether, the script of a
\* maintainer at the latest with a lock that is still to be committed.
RunsEnd ==
    \A r \in Run :
        phase[r] # "idle" ~> phase[r] = "idle" \/ (r \in Manual /\ phase[r] = "changed")

=============================================================================
