# Verification of agent-trust-kit

TLA+ models of the controller side of agent-trust-kit (`src/hermes_integration`
and the two packages it uses, `agent_packet` and `agent_receipt`), checked with
TLC on small instances, with theorems about them proved with TLAPS for every
value of the constants.

## 1. The system

An operator registers a Git project; a model asks for a *handoff*: a packet of
explicitly selected files at one clean commit. The operator reviews and approves
it, a worker somewhere else works on it, and its result comes back into a fixed
quarantine directory with an output manifest and a receipt. The controller
copies the return into a private directory, checks the copy and retains it as a
read-only snapshot.

Everything is files below `agent-trust/`. The actors are short-lived processes
(CLI commands and tool handlers), the worker's side, which may write to the
quarantine at any time, and whoever edits the project.

| component | source | state it keeps | operations | interacts with |
|---|---|---|---|---|
| handoff lifecycle | `core.py` `TrustRuntime` | `state.json`, `verified-snapshot/`, `.verification.*.tmp`, `.lock` | review, approve, reject, status, list, return_path, verified_path, verify_return, doctor | the quarantine, the packet, receipts and manifests |
| project policy | `core.py` | `policy.json` | add_project, list_projects, `_project` | Git; read by prepare and doctor |
| preparation | `core.py` `prepare` | `handoffs/<id>`, `handoffs/.<id>.*.tmp` | prepare | policy, Git, the packet builder |
| packet builder | `agent_packet/builder.py`, `secrets.py` | the output directory | build_packet, inspect, materialize | the project's files |
| Git commands | `core.py` `_git_command` | a child process, a reader thread | run one command with limits | preparation, policy |
| receipts | `agent_receipt/core.py` | none (a JSON document) | build, sign, verify, recheck, evidence_* | the verification workspace |
| command evidence | `agent_receipt/core.py` | a child process, two reader threads | evidence_command | receipts |
| output manifest | `agent_receipt/output_manifest.py` | none (a JSON document) | create, save, verify | the return directory |
| hook | `core.py` `pre_tool_call` | none | inspect one tool call | the host |
| front ends | `__init__.py`, `cli.py`, `schemas.py`, `bootstrap.py`, the packages' `cli.py` | none | parse, call, print | all of the above |

What is hard here: every process is short and may die anywhere; two of the three
stores are written by "read all, change, replace the file"; only the handoff has
a lock; the inputs of every check (quarantine, project, packet) can change
between the check and the use; and several operations have two effects that
must appear together (snapshot and status, directory and answer).

What makes each component correct:

* handoff: one call at a time; the status only moves forward; "verified" means a
  complete, checked, private copy of a return for exactly this packet and commit;
  that copy never changes or goes away; no failure leaves half of an effect;
  every call ends.
* policy: always readable; a successful registration is kept.
* preparation: a packet holds exactly the selected, allowed, safe files with the
  bytes of the recorded commit; a refused call leaves nothing; what is announced
  for review can be reviewed.
* receipts, manifests: an answer `ok` means the stated facts hold of the files
  looked at, and honest inputs are accepted.
* processes with limits: every path ends, and each outcome is reported as what
  it was.

## 2. Modules

| module | models |
|---|---|
| `ReturnBundle` | the data of a return and the controller's predicates on it |
| `HandoffLifecycle` | abstract: what one handoff promises its operator |
| `Handoff` | one handoff directory and the processes operating on it |
| `HandoffProofs` | the inductive invariant of `Handoff`, the safety theorems, and that `Handoff` implements `HandoffLifecycle` |
| `Policy` | `policy.json` and the processes that read and change it |
| `PolicyProofs` | the inductive invariant of `Policy` |
| `HandoffStore` | abstract: what `handoffs/` shows its readers |
| `Prepare` | calls of `prepare` against a project that is being edited |
| `PrepareProofs` | what a packet holds, for every project and every edit; the handoff limit and what failures leave, by counting; what an undisturbed call does; that `Prepare` implements `HandoffStore` |
| `ChildProcess` | a started command, its descendants and pipes (the operating system) |
| `CommandEvidence` | `evidence_command`: main thread, readers, limits, cleanup |
| `CommandEvidenceProofs` | what an answer of `evidence_command` says is so |
| `GitCommand` | `_git_command`: main thread, reader, limits, terminate |
| `GitCommandProofs` | what an answer of `_git_command` says is so |
| `ChildProcessProofs` | what the steps of a child leave as it was |
| `Workspace` | the directory tree a worker writes to (external) |
| `OutputScan` | the two walks of `_scan_workspace` against that worker |
| `ReceiptVerify` | the receipt: `build_receipt`, `sign_receipt`, `verify_receipt` |
| `AgentReceipt` | composes the two: the `agent-receipt` commands on one workspace |
| `AgentReceiptProofs` | what a manifest lists, what an accepted receipt says, and that what is left alone is accepted |
| `PacketReader` | abstract: what a caller of `inspect` and `materialize` is promised |
| `Materialize` | `inspect` and `materialize` of the packet builder, several calls on one archive |
| `MaterializeProofs` | an answer is about one archive, whatever happens to the source; an undisturbed call succeeds; `Materialize` implements `PacketReader` |
| `MC...` | instances for TLC |

In the component modules an operator `Name_Variant` directly before `Name` is a
wrong version of it, the kind of slip a change to the code could make; nothing
uses it. It is there so that each property can be shown to notice a fault:
replacing `Name` by that variant makes TLC find the property violated.

### Handoff

| model | code |
|---|---|
| `state` | `state.json`: `status`, `approval` (which of the two timestamps it has), `verification` |
| `snapshot`, `tmp` | `verified-snapshot/`, `.verification.*.tmp` |
| `quarantine` | `return/`: payload, `OUTPUT_MANIFEST.json`, `receipt.json` |
| `packet` | the files of `packet/`: as built, or altered afterwards |
| `lock` | the holder of the `flock` on `.lock` |
| `pc`, `op` | one control point and operation per process |
| `manifest`, `todo`, `pending`, `reply` | locals of the call that holds the lock; nobody else has any |

`Call` and `Acquire` are a process entering `_handoff_lock`; `Review`,
`ReadStatus`, `ReturnPath`, `VerifiedPath`, `Approve` and `Reject` are the
bodies of the operations, and `VerifyBegin`, `LoadManifest`, `Scan`, `CopyFile`,
`CopyManifest`, `CopyReceipt`, `CheckCopy`, `Publish`, `WriteState`, `Rollback`,
`Cleanup` are `_verify_return_locked` step by step, each one observation of the
quarantine or one effect on the private files. `WriteState` is `_write_json`,
with its two failures: before `os.replace` (nothing happened) and after it, at
`path.chmod` (the file is already new). `Rollback` and `Cleanup` are
`_remove_private_tree`. Of the published snapshot it takes away one file after the
other (`OneLess`), and may fail or be cut short by a death at each, so that a part
of a snapshot stays under the final name; the temporary copy has a name nobody
looks at, so its removal is one step, which may fail and leave something.
`mishaps` remembers which of these has happened: a death (`died`), a removal of
a snapshot cut short (`cut`), a temporary copy that stayed (`kept`); the
properties say what holds without each. `Unlock` is the end of the context
manager together with the answer. `Crash` may happen at any of these points; the
kernel drops the lock and the private files stay. `Deliver` and the other
`Outside` actions are the worker and the operator's file copies.

A digest is modelled by the value it is computed from, so SHA-256 is taken to be
injective. A scan of the quarantine is one step: the controller does not rely on
it, because it scans its own copy again, and that is what is modelled. A receipt
abstracts its claims to the files they name, the contents observed, whether
commands occur and whether the stored digest is the body's.

### Policy

`seen` is a call's copy of the policy, `torn` the readers whose open file was
unlinked or touched by another process (which changes the ctime `_read_json`
compares). `Open`/`Close` are the two `fstat`s, `Decide` is the limit check and
the local update, `Replace` and `Chmod` the two effects of `_write_json`.
`registered`, `kept` and `alone` are bookkeeping for the properties.

### Prepare

`trees`, `head` and `work` are the project's commits, `HEAD` and working tree.
A call looks at `HEAD` (`ReadHead`), at `git status` (`ReadStatus`), at the
number of entries (`CheckLimit`), makes its private directory, looks at every
selected path (`Look`), reads every selected file (`ReadFile`), compares with
the commit (`Bind`), looks at `HEAD` and status again, renames the directory
(`Publish`) and hardens it again (`Harden`). Editing a file, committing and
moving `HEAD` may happen between any two of these. Git is silent about
`Unreported` files (ignored, filtered, assumed unchanged). The order in which
paths are looked at is left open, so it covers every order of `os.walk`. A
directory that cannot be listed is passed over without a finding (`os.walk` has no
`onerror`): in `Look` any file below it may be skipped, and the call is not `calm` any
more. `MakeDirectory` is outside the `try` of `prepare`: its `chmod` may fail after
its `mkdir`, and the directory stays, as it does when the removal of a refused
call's directory fails (`Cleanup`) or an exception comes that no handler catches
(`Crash`); `Leaves` counts these. The builder collects denied findings and `prepare` refuses afterwards; in the model
the first one sends the call to its cleanup, which nobody can tell apart.

`HandoffStore` is what remains for somebody who reads `handoffs/` only: commits that
are added and never change, handoffs that appear whole, each with a packet of
requested and allowed files of its commit, and answers "prepared", never more
than handoffs. `Prepare` implements it with `trees` for `commits` and `handoffs`
for `store`: `Publish` is the abstract `Publish`, `Harden` with an answer is
`Announce`, and everything else that a call does or that fails is a stutter.

### Child processes

`ChildProcess` is not this repository's code: it is what a command may do
(`Fork`, `Write`, `CloseStream`, `LeaveGroup`, `Exit`) and what its parent can do
to it (`Spawn`, `Kill`, `Poll`, `Read`). Output is counted in bytes; `pipe` is what
was written and not read, `holds` who could still write.

| model | code |
|---|---|
| `pc` | where the main thread is |
| `buffers`, `drained` | `buffers`, and the reader threads that have ended |
| `output_limit_hit`, `cleanup_confirmed`, `cleanup_unconfirmed` | the three events |
| `timed_out`, `expired` | inside `except TimeoutExpired`; the deadline has passed |
| `raw`, `raw_holder`, `output_exceeded`, `reader` | the reader of `_git_command` |
| `polled` | the threads between `process.poll()` and `killpg` |
| `answer` | the `Evidence`, or the result or error of `_git_command` |

In `CommandEvidence`, `Drain(s)` is one `read1` of a reader, and the main thread
goes through `CheckLimits`, `Wait`, `Exited` or `Overrunning`, `Reap`, `Join`,
`Sweep`, `JoinAgain`, `Settle` and `Return`. The handler of `TimeoutExpired`
repeats the cleanup of the normal path with the same calls; both are modelled by
the same actions, and `timed_out` tells them apart where they differ (`Settle`,
`Verdict`). `Terminate` has the outcomes of `_terminate_process`: the members of
the group killed that the caller may signal (`Reach`); none of them there, or none
that may be signalled, or `killpg` refused (macOS answers so for a group of dead
processes); `taskkill` failing with or without having killed some of the tree.
`host.exempt` are the processes the caller may not signal: `killpg` answers
success when it reached one member of several.

In `GitCommand` poll and killpg are two steps because the main thread and the
reader may both be in `terminate`. `CloseAndReturn` waits for the reader:
`BufferedReader.close` takes the lock that a blocked `read` holds.

### Manifests and receipts

`Workspace` is the worker: `Change` gives a file another content, creates it or
removes it. `tree` says what every file holds now.

| model | code |
|---|---|
| `open`, `todo` | the recursion of `walk`: the directories that are open, the entries of each still to come |
| `reading`, `fresh` | the file `_hash_regular_file` is reading; what still has the signature (inode, mode, links, size, times) the walk has seen |
| `unchecked` | `stable_files`: files whose signature is compared again when the directory's entries are done |
| `found`, `first` | `files` of this walk and of the first |
| `item`, `looking`, `obs`, `good`, `rerun` | the loop over the claims of `build` and `verify_receipt`: next item, the looks of `evidence_path_exists`, what was observed, which are ok, `rechecked_evidence` |
| `receipt` | the receipt file: body, `content_digest`, which bodies are signed |
| `mode` | the arguments of `verify_receipt` |
| `stored`, `printed` | `OUTPUT_MANIFEST.json`; the digest `manifest create` printed, kept elsewhere by the operator |

`Look`, `Hash`, `Descend`, `EndListing`, `CheckFile`, `LeaveDirectory` and `EndWalk`
are one look each, and the worker may write between any two. A signature is
modelled by whether the file was written since: that any write changes it
(ctime, with the resolution of the file system) is the code's own assumption.
The reading of one file is one step between two comparisons of its signature.
`Save` has its failures before and after `os.replace`, and its death, which
leaves a temporary file (`Stray`) that the next scan finds like any other.

In `ReceiptVerify` an item is evaluated by `Evaluate` (one look; three for
`path_exists`, which is why `build_receipt` refuses an item whose looks
disagree). `Recheck` and `Believe` are the two ways `verify_receipt` comes to an
item's ok, `Want` is what a recheck compares with, `Accepted` is `result["ok"]`.
`Alter` is an edit of the receipt file between two commands, with or without a
new digest. How a command of an item runs is `CommandEvidence`; here it exits
with zero, does not, or fails. `stdout_contains` is left out.

`AgentReceipt` runs the commands in any order on one workspace while the worker
writes. The digest of a manifest is the manifest. It is there for one
question: what may an operator conclude who follows the README of
agent-receipt, keeps the printed digest, and sees `manifest verify` and then
`verify` accept (`AcceptedReturn`).

### Materialize

`current` and `content` are the archive's path and the files that have been
there; `fd`, `same`, `copy` and `names` are the locals of a call: the open file,
whether it still has its first signature, the private copy so far and the
members unpacked. `Open`, `Stat`, `Read`, `Copied` are `_snapshot_archive`
with the digest comparison and the decompression, `Unpack` and `Unpacked`
`_read_verified_tar_details` member by member, `Recheck`, `Rename` and `Return` the
end of `materialize_packet`. Between the last two the private directory is removed,
which may fail; a call that fails or dies there leaves its packet at the destination
and no answer (`Fault`). The private directory is not in the state: nobody else
knows its name. `rename(2)` takes the place of an empty directory; that happens
only when one is made after the last `_fresh_destination`, and is modelled.

`PacketReader` is the same for a caller: a call takes the archive in one atomic
step, puts the whole packet at a free destination in another (`Place`) and answers,
for what it took and while that packet is there (`Answer`); it may fail or die between
any two. In the refinement the control points of a running call are two, before and
after the rename (`Stage`), the abstract `archive` is what the path's file holds now, the
abstract `Take` is the step `Stat`, in which the opened file is found at the
path, and the answer is the record of the private copy (`Answered`). So the many
reads of `_snapshot_archive`, which may fall before and after writes of
others, act as one look at the moment of `Stat` or end in a refusal.

## 3. What the runs check

| run | question | instance | result |
|---|---|---|---|
| `handoff` | every operation, interleaved, with deaths, failing writes and failing removals: is the handoff consistent, does it implement the lifecycle? | 2 processes, 2 paths, 2 contents, 2 outside changes | holds |
| `handoff_live` | does every path give the lock back, is an honest return at the file limit accepted? | 1 process, deaths, writes that fail late, removals that fail | holds |
| `handoff_orphan` | is a refusal that names doctor one that doctor reports? | 1 process, deaths | violated |
| `handoff_chmod` | does "verified" imply a snapshot when `_write_json` fails late? | 1 process | violated |
| `policy` | racing, failing, dying registrations and readers | 3 processes, 3 projects, limit 2 | holds |
| `policy_lost` | is every successful registration kept? | 2 processes, nothing fails | violated |
| `prepare` | edits between any two steps, any step failing or the last: what does a packet hold, what is left behind, does an undisturbed call end in a reviewable handoff, does `Prepare` implement `HandoffStore`? | 1 call at a time, 3 files, 3 changes, limit 1 | holds |
| `prepare_review` | can everything that is announced for review pass it? | 1 call, no change, nothing fails | violated |
| `command` | command, readers, both limits and failing kills race: is the evidence true, does it always come, is a well-behaved command not blamed? | POSIX and Windows, 1 descendant, 2 streams, limit 1 of 2 | holds |
| `git` | is a result of git its whole output, is a well-behaved git believed, does the call return if no descendant keeps the output? | 2 descendants, limit 1 of 3 | holds |
| `receipt` | the agent-receipt commands beside a worker: is what a manifest lists what was there, is what is accepted so, is what was left alone accepted? | 2 directories, 4 files of which one is a control file and one a stray, 4 items, one of each kind, 2 changes | holds |
| `materialize` | the archive is overwritten or replaced and the destination taken while two calls work, fail or die, after the rename too: what does an answer speak of, does `Materialize` implement `PacketReader`? | 2 calls, archives of 2 pieces, 3 members at most, 2 changes, 1 fault | holds |

The four violated runs are disagreements between the code and what it or its
documents say; `PROJECT.json` quotes the lines.

* `handoff_orphan`: a death between renaming the snapshot and writing
  `state.json` leaves an approved handoff that every verification refuses with
  "run doctor before retrying", while doctor reports no problem and nothing
  removes the snapshot.
* `handoff_chmod`: `path.chmod` after `os.replace` fails, the rollback removes the
  snapshot, and `state.json` says verified.
* `policy_lost`: two registrations overlap and one of them is written away.
* `prepare_review`: `"src/"` (or a directory without files) is accepted, the
  handoff is announced for review, and each review refuses it because the
  manifest says `"src"`.

One thing seen in `GitCommand` has no run because no document says otherwise:
when git has ended and a process it started still holds the pipe, `terminate`
returns at once because `poll` finds the leader ended, and
`process.stdout.close()` waits for that process. `CallReturns` therefore has the
premise that only git holds the output.

### Bounds

* `MaxEdits` counts changes from outside. A change that matters must fall
  between two observations of one call, and the longest chain of observations of
  the same file is scan, copy, final check; with two changes a return can be
  delivered and changed during the copy, or a file change twice. (The worker that
  rewrites payload, manifest and receipt consistently during one copy needs
  four; that case is covered by the proof, which has no bound.) In `Prepare`, three
  changes allow edit-commit-move, and edit and restore around a read.
* Two paths are the least with a partially copied tree and a receipt over part
  of the files; two contents the least with a difference. `Binding` has the
  handoff's own pair and one other.
* Two processes suffice for a lock with one critical section; the policy needs
  three (two writers and a reader that is torn by either). `Prepare` is checked
  with one call at a time, whose dead predecessors' directories count towards the
  limit. That racing calls exceed the limit by one each and no more (`LimitHolds`)
  says nothing of one call and is not in a run: an instance with two is too large for
  TLC, and the theorem `LimitHoldsAlways` is for every number of them.
* Limits (`MaxReturnFiles`, `MaxProjects`, `MaxHandoffs`) are 1 or 2, so that
  "exactly at", "one below" and "one above" all occur.
* `MaxWritten` caps the output of one stream: limit + 1 is the least that
  exceeds it. One descendant may stay in the group, leave it, keep a pipe or
  close it, and outlive the command or not, and in `command` either the descendant or
  the command itself may be one the caller may not signal; `git` has two, of which one can leave
  and one stay.
* The receipt instance has a file in the root and one in a subdirectory, the least
  with two walks that may mix directories, and a limit of two files, so that
  the worker's files are exactly at the limit and a stray file above it. Two
  changes let a file change and change back between the walks
  (`recurred`), or two files change in the wrong order. Its receipt has one
  item of each kind. `Again = FALSE` keeps the instance small: a receipt is altered
  once, and no manifest is created over one (the theorems have neither bound).
  `Modes` has full recheck with and without keys, one without
  the command and one without the files.
* In `materialize` an archive has two pieces, so that a mixture of two archives
  exists; one mixture can be unpacked and one cannot, one archive lacks a file
  its manifest lists, and the longest is exactly at the limit of members. One
  digest may be asked for, that of a sound archive.
* `Clocks` of `CommandEvidence`: with a "slow" clock every time limit may expire
  at any moment, with a "prompt" one only while a thread has to wait for the
  command. The safety properties hold for both, `CallReturns` is asked of the
  first and `HonestIsReported` of the second. In `GitCommand` the clock is always
  slow and `HonestIsAnswered` allows for the time limit.
* Symmetry is declared over processes, paths, contents, projects and settings,
  never in a run with a liveness property.

### Fairness

`Handoff` assumes weak fairness of `Work(p)`, the steps of a call that holds the
lock, and `Prepare` of `Step(p)`: they are straight-line code on local files, and
a process that neither dies nor is stopped continues. Nothing is assumed of
`Acquire`: `flock` promises no order, so a waiting call may starve and no
property says otherwise. `CommandEvidence` assumes that the main thread runs and
that time passes; that the readers are scheduled is a premise of
`HonestIsReported` only. `GitCommand` assumes all three, because `close` waits for
the reader; `CallReturns` there has the premise that only git itself goes on
holding the output. Nothing is assumed of the command, of its descendants, of
the worker, the editor or the operator.

## 4. What is proved

Each theorem holds for every set of processes, paths, contents, projects, limits
and numbers of changes, under the named assumptions on the constants
(`BundleAssumption`, `HandoffAssumption`, `PolicyAssumption`, ...), which TLC
evaluates in the runs.

* `HandoffProofs`. `LockInv` says that a process is inside the critical section
  exactly when it holds the lock; it is inductive by itself and gives
  `MutualExclusionHolds`. The safety properties need more: what the private copy
  contains while it is being made, that a write that is pending is the outcome of
  a check that passed, and that between publication and the write the snapshot
  is the checked copy. `IInv` is the conjunction of `TypeOK`, `LockInv`, the
  consistency of the stored files, and one clause for each phase of the lock
  holder, among them that what a rollback leaves is either whole or marked as cut.
  There is one lemma for each action. From it follow `TypeCorrect`,
  `PublishedIsCompleteHolds`, `StateReadableHolds` and `VerifiedBindingHolds`.
* The last one, and the rest of that module, assume `"chmod" \notin Faults`: the run
  `handoff_chmod` shows that they fail otherwise. The rest are the action
  property (`VerifiedIsFinalHolds`), that every reported status stays in the
  handoff's past (`ReportsHoldAlways`) and that every step of `Handoff` is a
  step of `HandoffLifecycle` or leaves its variables alone
  (`HandoffImplementsLifecycle`). `FailureLeavesNothingHolds`, with the same
  assumption, adds to `IInv` where a temporary copy may exist, and that snapshot
  and status disagree only between the two effects of a verification or after a
  removal that failed (`TidyInv`, as long as no process has died); it needs `None \notin Bundle`, that what stands
  for "nothing there" is no return.
* `ApprovalIsFreshHolds` is an action property. Its invariant, `FreshInv`, says
  that an approval about to be written was reviewed by a call that has held the
  lock since, and that a packet that is as built now was so when the lock was taken.
* `PolicyProofs` proves `PolicyReadable` and `KeptWhenAlone`. The invariant
  behind the second says that a call that has read the policy and is still alone
  holds a copy that agrees with `kept`, and so does every later reader.
* `PrepareProofs` proves `PacketAtCommit` and `PacketIsSafe` for any project, any
  edits and any number of calls: commits never change once made, so the
  comparison stays true after it was made, whatever happens to the project.
  `LimitHoldsAlways` and `FailureLeavesNothingHolds` count: a call that passed the
  check with n entries present has, with the directories that appeared since,
  a place among the calls that are past it, and every directory is a running
  call's, published, or one that a death, a failed `chmod` or a failed removal left,
  counted as it happened.
* `CompleteWhenCalmHolds` and `HonestPassesHolds` are about calls of `prepare` that
  nothing disturbs. What such a call sees at its first look still is so at its
  last: `QuietInv` says for each control point what the call has of the working
  tree, that the tree is clean, and that a call that goes to its cleanup did not have
  plain includes of safe committed files. As the tree is
  clean, the files of the commit are those the walk saw, so nothing selected is missing. The
  `Directory` assumption (an include that names no directory covers that one file)
  is what `_iter_files` does with a file. `HonestPasses` is the safety part of
  `HonestPrepares`: the call is not refused, and it publishes what a review will
  pass. The run checks `HonestPrepares`, which says that and that the call ends.
* `PrepareImplementsStore` puts these together: every step of `Prepare` is a step of
  `HandoffStore` or changes none of its variables. For `Publish` the packet is
  shown to be, as a function, the commit's restriction to the files that were
  packed; that they may be packed is `IInv`, that none is missing when the call
  was undisturbed is `CompleteWhenCalm`. For an answer one needs a handoff not yet
  announced: a call that is hardening counts in the sum behind
  `FailureLeavesNothingHolds`, and no more directories were left behind than there
  were mishaps (`OrphanInv`).
* `AgentReceiptProofs` has one invariant for the scan, one for the receipt and
  one for the commands. The scan's says which directories are open, listed and
  closed (a path from the root, no directory twice, nothing below a closed one
  left out), that what still has its signature is as it was hashed, and, for
  the second walk, that what is there and was not at the moment between the walks
  differs from what the first walk saw unless the file recurred. From it follow
  `DirectoryIsSnapshotHolds` and `ManifestWasTreeHolds`, for every tree of
  directories (the assumption on `Parent` says that every directory is below the
  root, in the form an induction over the tree needs). The receipt's says that an
  item counted as rechecked and ok was observed in this call and is as the
  receipt says, and that a sealed `overall_ok` is true of the sealed items: hence
  `AcceptedIsRerunHolds` and `AcceptedWasGoodHolds`. The commands' says that an
  undisturbed `manifest verify` has seen the tree as it is, and that its answer and
  every hash computed since stand until something is written: hence
  `AcceptedReturnHolds`.
* `HonestIsAcceptedHolds` is the converse: what was left alone is accepted.
  `ManifestCalm` says that as long as nothing was written since a create began,
  every file and directory keeps its signature, what was listed and hashed is the
  tree, and hence that neither walk fails unless the files exceed the limit (a file
  still to be hashed is one more than was found: the one place where `Path` is
  assumed finite). `ReceiptCalm` says of a build that what was observed is
  there to be observed again, of its receipt that the observations hold of the tree and
  the digest and overall verdict are the body's, and of a verify that every item it
  has passed was run again and is ok. Saving a manifest writes a file, but never
  removes one that was there nor changes what it holds (`PlaceInv`), so it
  disturbs no receipt.
* `MaterializeProofs` proves `AnswerIsOneArchive` for any number of calls, pieces
  and members: as long as the file has its first signature, the copy is a part of
  what it held then; after the second `fstat` only the copy is used, and what is
  at the destination was put there whole. `HonestSucceedsHolds` says that an
  undisturbed call on a sound archive, with its digest or none and a free
  destination, is never refused: `HonestInv` says that it has met the archive it
  began with, that what it has unpacked are that archive's first members, and so
  that the next one is neither a duplicate nor beyond the limit.
  `MaterializeImplementsReader` is the refinement. Besides `IInv` it needs only
  `TakenInv`, that a call before `Stat` has taken nothing yet; `Read`, `Unpack` and
  the second look are stutters. `Rename` is the abstract `Place` and each answering
  step (`Unpacked` of an inspection, `Return`) the abstract `Answer`, because the copy
  is `whole`, its names are those the manifest declares, and what a call has
  put at the destination stays (`Owner`, a part of `CallOk`).
* `CommandEvidenceProofs` and `GitCommandProofs` prove for any number of processes
  and any sizes that a result without error is the whole output of an ended
  command, that a limit is blamed only when it was exceeded, and (evidence) that
  a confirmed cleanup left nobody, if the caller may signal every process that was
  started. The arguments are alike: what has been read
  and what is in the pipe add up to what was written; once nobody holds a pipe
  nobody can; once no member of a group is alive the group stays empty, since
  only a member's fork joins it (lemmas of `ChildProcessProofs`). The invariant
  then says at each control point which of these facts the main thread relies
  on.

The type invariants of `Prepare` and `Materialize` are proved and not in a run: the
runs check the refinements instead, and the proofs of their other invariants rest
on them. Only model-checked: liveness (`LockIsReleased`, `HonestReturnIsVerified`,
`HonestPrepares`, `CallReturns`, `HonestIsReported`, `HonestIsAnswered`), which is
beyond the prover. Every safety property that a run checks and finds true is
also stated by a theorem; only proved, and in no run, is `LimitHolds`.

## 5. Limits of what is shown, and what is not modelled

Three properties have a premise because the code does not do more; each is a
place where a reader may expect otherwise.

* A selected directory that cannot be listed (no permission, no descriptors) is left
  out of the packet without a finding (`builder.py:284`), and if anything else was
  packed the handoff is prepared. `CompleteWhenCalm`, and the clause of
  `HandoffStore` about calls that nothing disturbed, hold only if no listing fails.
* Evidence that says plain `TimeoutExpired` or `OutputLimitExceeded` may leave a process
  of the command's group that the caller may not signal, one with other credentials:
  `os.killpg` succeeds when it reached some member, and a refusal counts as success
  once the command has ended (`agent_receipt/core.py:454-462`). `ConfirmedIsGone`
  speaks of commands whose processes may all be signalled.
* A removal that fails itself leaves what it was to remove: a part of a snapshot
  (`hermes_integration/core.py:1542`), a temporary copy (1554), the directory of
  a refused call (882, 886), a new directory whose `chmod` failed (817); and a packet
  stays at its destination, whole, when the removal after the rename fails
  (`builder.py:1020`). `PublishedIsComplete` and the two properties called
  `FailureLeavesNothing` name these cases and exclude nothing else but deaths and,
  in `Handoff`, the late failure of `_write_json` that `handoff_chmod` is about.

Not modelled:

* File names: the files of `Prepare` have names that the review accepts too
  (`_safe_include`, and no backslash).

* Text: secret patterns, deny rules, JSON syntax and schema, formatting, the
  literals `stdout_contains` looks for. What they decide is a constant or a choice.
* The parsing of tar and gzip, the refusal of links and special files: pure
  functions of the bytes; what an archive decompresses to is given by constants.
* Torn reads of a single file inside `_file_bytes` and `_hash_regular_file`: the
  code compares the signature afterwards and so does the model, at the
  granularity of the file. That every write changes the signature is assumed.
* `MAX_ENTRIES`, `MAX_DEPTH` and the byte limits of the scan (the file limit is
  modelled and stands for them), and directories that come or go during a scan.
* Ed25519 and the reading of keys; SHA-256 is taken to be injective.
* The size of `state.json` and of `policy.json`.
* The hook (`pre_tool_call`): a pure walk over the arguments of one call with
  limits on strings, bytes and depth, without state or interleaving; what it
  looks for is text, and anything it cannot inspect blocks the call.
* Argument parsing, output and exit codes of the command lines, import path set-up
  (`bootstrap.py`), file modes, and what a power failure loses (the code syncs
  files and one directory, and reads what the kernel shows it).
