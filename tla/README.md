# Verification of APICerberus in TLA+

APICerberus is an API gateway: it routes requests to upstream services through
a pipeline of plugins (authentication, rate limiting, caching, circuit
breaking), charges credits for them, writes an audit log, and can run as a
cluster whose configuration is replicated with its own implementation of Raft.
This directory holds TLA+ models of the parts of it in which the order of
events matters, TLC configurations that check them on small instances, and
TLAPS proofs of what is most important for instances of any size.

Three parts are modelled: the Raft node (`internal/raft`), on whose promises the
other nodes of a cluster rely; the gateway process (`internal/gateway` with the
circuit breaker, billing and the audit log), where requests meet a reload and a
shutdown; and the storage below both, SQLite's pager, write-ahead log and file
locks (`internal/store/sqlite3.c`), whose guarantees the transactions of billing,
audit log and `raft_log` take for granted.

The store opens its database with the driver `modernc.org/sqlite` (`go.mod`), a
translation of SQLite's C code to Go; `sqlite3.c` in `internal/store` is the
amalgamation of the same library, and the one the models are translated from.

## The system and its parts

| Part | State | Operations | Talks to | Hard to get right |
|---|---|---|---|---|
| Raft node (`raft/node.go`) | role, term, vote, log slice, commit and applied index, next and match index, timers | election timeout, RequestVote, AppendEntries, InstallSnapshot, their responses, heartbeats, proposals, compaction, start, stop, peers | transport, storage, state machine | stale and reordered calls, restarts, uint64 offsets, one-shot timers, a deferred flag |
| Storage (`raft/storage.go`) | tables `raft_state`, `raft_log`, `raft_snapshot` | Save and Load of each | Raft node | errors that are only logged, rows never deleted, a second JSON encoding |
| Transport (`raft/transport.go`) | calls under way | one call per RPC over HTTP | Raft nodes | loss, delay, what JSON does to `any` |
| State machine (`raft/fsm.go`) | routes, services, upstreams, counters, credits, certificates | Apply, Snapshot, Restore | Raft node, cluster manager | a panic half-way, keys missing in snapshots |
| Cluster manager (`raft/cluster.go`, `certificate_sync.go`) | members, health of peers | Propose, Join, Leave, certificate update, renewal lock | Raft node, admin API | waiting for an index instead of an entry |
| Billing (`billing/engine.go`, `gateway/serve_billing.go`) | credit balance, transactions | PreCheck, Deduct, top-up, adjust | store, request path | check and charge far apart, transactions left open |
| Circuit breaker (`plugin/circuit_breaker.go`) | state, events, half-open counters | Allow, Report, State | request path | results of an earlier state |
| Rate limiters (`ratelimit/*.go`) | windows and buckets per key | Allow, PurgeStale | plugins, Redis | time read before a lock, purging, the fallback |
| Health checker, balancers (`gateway/health.go`, `balancer*.go`) | health per target, connection counts | probe result, ReportError, ReportSuccess, Next, Done, UpdateTargets | proxy | two sources of one flag, counts that drift |
| Gateway (`gateway/server.go`) | config, router, pools, store, audit goroutine | Start, Reload, Shutdown, ServeHTTP | everything | resources closed under requests, overlapping reloads |
| Audit log (`audit/logger.go`) | queue, batch, counters | Log, flush, drain | store, Kafka | the last entries |
| Write-ahead log (`store/sqlite3.c`, wal.c) | wal-index header, read marks, `nBackfill`, locks, log file, database file | begin and end of a read, write, commit, spill, rollback, checkpoint, recovery, open, close | pager, shared memory | lock-free reads of shared memory, a log that restarts under readers, crashes |
| Rollback journal (`store/sqlite3.c`, pager.c) | page cache, journal file, database file, pager state | shared lock, hot-journal check, write, spill, both phases of a commit, rollback, playback | file locks | the order of syncs, stale journals, a cache kept across transactions |
| File locks (`store/sqlite3.c`, os_unix.c) | level per handle, counts per inode, the kernel's locks per process | unixLock, posixUnlock, unixClose | pager, kernel | POSIX locks belong to the process and vanish with any close |
| Shutdown manager (`shutdown/manager.go`) | hooks, started, stop channel | Register, Start, Stop, Shutdown, WaitForSignal | command line | hooks run twice or never |

Routing, transformation and authentication plugins, the proxy, the parsers
(GraphQL, gRPC transcoding, YAML, JSON), the admin API, portal and dashboard,
analytics, metrics and tracing are not modelled: they are functions of one
request, CRUD over the store, or observation. `PROJECT.json` lists each with its
reason, and the hazards of the code with the properties that cover them.

## Modules

| Module | What it holds |
|---|---|
| `RaftLog` | The log of a node as pure operators on a record (the slice, commit and applied index, snapshot, tables, state machine): the consistency check and append loop of `HandleAppendEntries`, `applyCommitted`, `compactLog`, `HandleInstallSnapshot`, the request of `replicateTo`, `advanceCommitIndex`, `SaveLog` and `LoadLog`. |
| `Raft` | The state machine: `RaftLog` composed with roles, terms, votes, timers, goroutines, processes and the network. |
| `RaftSafety` | The type invariant and the safety properties. |
| `RaftLiveness` | Fairness and the liveness properties. |
| `RaftTypeProofs` | The proof of `TypeCorrect`. |
| `RaftVoteProofs` | Quorums, and what a vote, a win and a step down do to the election invariant. |
| `RaftElectionProofs` | One lemma per action, and the proof of `ElectionSafe`. |
| `Wal` | The write-ahead log: one action per access to shared memory, a lock or a file, for any number of connections, with deaths and power losses. |
| `WalSafety` | Its properties, and the mapping to `SnapshotStore`. |
| `Journal` | The rollback journal and the pager's part in it, on top of `FileLock`. |
| `JournalSafety` | Its properties, and the mapping to `SnapshotStore`. |
| `SnapshotStore` | The abstract specification of both: a sequence of committed states, transactions that each read one of them, and what a crash may take back. |
| `UnixLocks` | The file lock of the unix VFS over the kernel's advisory locks, with its invariants. |
| `FileLock` | The abstract file lock: what `Journal` uses and `UnixLocks` implements. |
| `UnixLocksProofs`, `UnixLocksTheorems` | The proofs about `UnixLocks`: one lemma per action; the theorems and the refinement. |
| `CircuitBreaker`, `AuditLogger` | The breaker and the logger as operators on records. |
| `Gateway` | Requests, audit goroutines, Reload and Shutdown, composed with the two above, with billing and with the database they share. |
| `GatewaySafety` | The properties of the gateway and the inductive invariants behind them. |
| `GatewayProofs` | Lemmas on breaker, logger and database, and what the steps of a request and of an audit goroutine preserve. |
| `GatewayTheorems` | Reload and Shutdown; types, credits, breaker, hand-over, stranded entries. |
| `GatewayAudit` | Every audit entry is in one place. |
| `MCRaft`, `MCRaftLive`, `MCRaftFair`, `MCWal`, `MCJournal`, `MCUnixLocks`, `MCGateway` | Instances for TLC. |

Definitions whose name has the form `X_y` are faulty variants of `X` that
nothing refers to. Put in the place of `X`, each makes TLC report a property; they
document what the properties can see.

### How the Raft model corresponds to the code

*Steps.* Every handler of `node.go` holds `n.mu` from its first statement to its
last, so each is one action, including the persistence, applying and compaction
it ends with. The lock is given up, and other steps come in between, at the three
points of an RPC: building the request, the peer's handler, handling the
response. A goroutine in an RPC is a member of `voteCalls` or `replCalls` whose
`stage` says where it is. `replicateTo` is spawned with the term and commit index of
the tick but reads the log when it runs, which is why "spawned" is a stage.

*Network.* Calls are taken up in any order, at any time, and may be lost at any
point (`LoseReplCall`; a vote call that takes no further step is a lost one). A
timeout of the caller is a lost response. The code never sends a request twice,
so the network does not duplicate. Requests of a process that has ended are
still delivered (`waiting` is then false and nobody takes the response).

*Processes.* `Stop` covers an orderly stop and a crash: memory is gone, the tables
stay. `Start` restores what `Node.Start` restores. An uncaught panic in the
goroutine of `replicateTo` ends the process; one in an HTTP handler is recovered by
`net/http` and ends only the handler, with its effects up to there.

*Storage.* With `SaveMayFail` every save may fail; the code logs the error and goes
on. A handler that saves its state twice may leave either row.

*Data.* A command is a model value with a `form`: bytes where it was proposed, a
string where JSON brought it, a row where it was read back. The state of the
state machine is the sequence of entries that made it. A snapshot keeps the
whole sequence; that `GatewayFSM.Snapshot` leaves out private keys is not
visible at this level. Offsets that the code computes in `uint64` wrap around
(`Sub64`). Peers are the other members of `Node`; they do not change.

*Timers.* `electionTimer` says whether a node has a timeout to come: armed, or
fired and waiting in the channel. Its length is abstracted: a timeout may be
handled at any time. Randomised timeouts only make split votes rare, which
matters to speed, not to safety.

*History.* `voters`, `votes` and `elected` record who voted for whom and who won; no
guard reads them except the bound on elections.

### How the SQLite models correspond to the code

*Steps.* SQLite's connections share memory and files without a common lock, so an
action is one access that another connection can see: a load or store of the
wal-index, a lock, a read or write of a file. `Recover`, `Recover2` and `Recover3`, for
example, are the stores of `walIndexRecover` in their order; a connection may read
between any two of them. What a connection does in its own memory goes with the
access before it.

*Wal.* `live` are the two copies of the header, `aReadMark` and `nBackfill` the
checkpoint information, `excl` and `shared` the lock bytes. A frame holds page,
content, commit mark, salt and checksum; the checksum is the sequence it was
computed over, so that two differ exactly if their inputs do. The content of
a page is the number of the `walFrames` call that wrote it. The hash tables are the page numbers of
the frames. `rd`, `wr` and `ck` hold the local variables of a read, a write and a
checkpoint; `pc` says where a connection is.

*Journal.* The journal file is a sequence of slots, each a header or a page record;
the checksum of a record is the nonce of its header. Page 1 is the change counter.
`pager` is the `Pager` of a connection: cache, pages journalled, offsets, the number
of records. All connections have the same journal mode and synchronous setting,
one of `Configurations`.

*Crashes.* `Kill` ends a process: its locks go, its files stay as written. `PowerLoss`
ends all; of every frame, page or slot written since the last sync the disk has
the new content, an older one or a torn one (`disk` keeps the possibilities), and a journal
deleted or truncated without a sync of the directory may be back.

*SnapshotStore.* `view` is what an open transaction would read of every page, computed
by the reading code of the module (`walFindFrame`, the page cache); `history` the
states whose commit was published; `pending` the state a restart would find if it is not
yet published; `floor` how many commits are known to be on disk. That the mapping
satisfies `SnapshotStore` at every step is snapshot isolation, serial writers,
atomic commits and recovery in one.

*UnixLocks.* One action is one `fcntl` or `close`, or the code between two. A handle is
a pair of process and number; the inode record is per process. `Holds` is the lock
the pager may rely on: a call that lowers the lock gives it up when it begins. `unixClose`
is two actions, since it leaves `pLockMutex` before it closes the descriptor: `CloseFile`
decides, `CloseDescriptor` closes and makes the kernel forget the locks of the process. The
history variable `raced` has the processes that began to lock in between and have not
unlocked since; `Level`, what a handle has of the abstract lock, is nothing for them.

*Coarser than the code.* `PickMark` looks at all the read marks, and takes and sets a free
one, in one step; `LockMark` locks the slot and loads `nBackfill`; `Recover3` stores
`nBackfill` and all the marks; `CkptEnd` gives up both locks and, for the last connection, deletes
the log. In `Journal` an I/O error strikes the syncs and writes of a commit and of a playback, and the
deletion, truncation or zeroing of the journal, but not the records appended
before and not the sync after the end. After the deletion of a hot journal the model syncs the
directory under EXTRA, which the code leaves to a later sync.

### How the gateway model corresponds to the code

A generation is what one configuration brings: store, pipelines with their
breaker, billing engine, audit logger. `ServeHTTP` reads them once under `g.mu`, so a
request keeps its generation. The steps of a request are the calls that touch
shared state: `Allow`, the balance in `PreCheck`, each attempt with its `Report`, the
UPDATE and the commit of `Deduct` (which may also fail to insert its row, and then leaves the
transaction open until the request ends), `Log`. The audit goroutine receives, flushes a full
batch, and when its context has ended drains the channel; seeing it empty (`Drained`) and the last
flush (`FinalFlush`) are two steps, for requests may log between them. The run context ends
(`ContextEnds`) some time before `Shutdown` reads the fields of the gateway (`ShutdownBegin`), and
requests and a Reload may still come. The generations share one database file, hence
one write lock and one balance. Timeouts (10 s for the audit goroutine, the shutdown
context) may expire at any moment; `hurried` notes that one did. Time in the breaker is whether the sleep window is
over (`slept`) and how many events have left the window (`expired`).

## Runs

Each bound is a constant of the model. In Raft `MaxElections` counts campaigns,
`MaxLogIndex` bounds proposals, `MaxRestarts` stops, `MaxCalls` the `replicateTo`
goroutines under way at once, and `SnapshotThreshold` is the code's (0: no snapshots); in Wal `MaxCalls` counts `walFrames` calls, `MaxSalts`
logs begun by a TRUNCATE checkpoint, `MaxKills` and `MaxLosses` deaths and power
losses; in Journal `MaxTxns` counts write transactions, `MaxFails` deaths and I/O
errors together.

| Run | Instance | Shows |
|---|---|---|
| `deployed` | 3 nodes over HTTP, 2 campaigns, 1 entry, a snapshot after each, 1 stop | one leader per term across restarts and rival candidates; the leader's process dies in `Apply` and starts again on its tables, followers' handlers die half-way, snapshots are installed: still every entry of a slice has its row |
| `replication` | 3 nodes, 2 campaigns, 2 entries, 1 call | log matching, leader completeness, agreement of committed entries and of state machines, committed entries stay |
| `pipelining` | 2 nodes, 2 campaigns, 3 entries, 2 calls | types and the election invariant; overlapping calls answered in any order: what is counted is there, what is committed stays |
| `stale_request` | 2 nodes, 1 campaign, 3 entries, 2 calls, a snapshot after each entry | ends in a violation, see below |
| `liveness` | 3 nodes, a contested start, log of 3 | logs are repaired and proposals applied everywhere under a leader that stays |
| `wal` | 2 connections, 2 pages, 2 `walFrames` calls, PASSIVE checkpoints | `Wal` implements `SnapshotStore`; `nBackfill` never exceeds the log |
| `wal_kill` | 2 connections, 1 call, TRUNCATE, 1 death | `StoreSpec` when a process dies at any step outside `walRestartHdr` and the other recovers |
| `wal_power` | 1 connection, synchronous=FULL, 3 calls, 1 power loss | the same across a power loss, and no reported commit is lost |
| `journal` | 2 connections, 2 transactions, 1 failure, 1 power loss; DELETE with EXTRA, TRUNCATE with NORMAL and with FULL, PERSIST with FULL | `Journal` implements `SnapshotStore`; at every step the journal leads back to the last commit; durability where the end of the journal is synced |
| `locks` | 2 processes with 2 handles | types, the lock invariant, mutual exclusion, `UnixLocks` implements `FileLock`, all of it with threads that lock while another closes |
| `gateway` | 2 requests, 2 attempts, credits for one, a queue of one, 1 Reload, Shutdown | types, credits add up, each audit entry is in one place, a closed breaker is below its threshold, orderly hand-over, what is left in the queue came late |
| `reload` | 1 request, 1 Reload | ends in a violation, see below |

Why these bounds. *Raft*: two campaigns are enough for two leaders with different
logs, for a leader that is deposed and comes back, and for a vote in each of two
terms by the same node; two log entries for a conflict behind a common prefix. The
five-server scenario of a committed entry of an earlier term needs three campaigns
and is out of reach; `LeaderCompleteness` is sensitive to its two-campaign form. *Wal*: two
`walFrames` calls are two commits, or a spill and the commit after it, and let one
connection commit, checkpoint and restart the log while the other is between any two of its accesses;
three read slots (the code has five) are one fixed and two that
compete, and `wal` has the fixed one and one more, which both connections share or move. In `wal_power` a third call lets the log be restarted
after a spill. *Journal*: two transactions are a long journal and a shorter one over
it, and a cache that another connection makes stale; the bound on failures lets one
happen anywhere before the power loss, and after the power loss connections play back,
read and close but begin no write (the guard `losses = 0` of `sqlite3PagerBegin`). *Locks*: two handles in each of two processes
show both ways of sharing, and the proofs cover all sizes. *Gateway*: two requests
compete for one credit, one slot of the queue and one half-open trial; second attempts are
followed only before the Reload and the Shutdown (`RetriesBeforeReload`), which meet a request
at every step of its first attempt. What a retry adds, a further report to the breaker of the
request's generation, a Reload does not touch, and the proofs have no such bound.

Connections, processes, handles, requests, nodes and commands are interchangeable,
hence the symmetry sets. The views of `MCRaft` and `MCGateway` hide what no later step and no
property of the run reads (see the comments there); with symmetry TLC normalises the
whole state first, so the number of distinct states varies slightly between runs.
Deadlock is not checked in the Raft and gateway runs, which stop at their bounds or
with the process; it is in those of SQLite, where a connection can always go on reading or close.

### Where the code does less than it says

Two runs show what is listed under `findings` in `PROJECT.json`:

* `reload`: `Reload` waits at most 10 s for the old audit goroutine, then replaces
  `g.auditDone`; the old goroutine closes whatever channel the field holds when it ends, the
  new goroutine closes it again, and the process panics.
* `stale_request`: a delayed AppendEntries with `PrevLogIndex` 0 reaches a node that has compacted
  its log. The check for a stale request (`raft/node.go:891` "We already have a snapshot past this
  point; this is stale") is only made for a positive `PrevLogIndex`; the offset of the
  entry from the compacted base wraps as a `uint64`, so an entry that was applied and compacted is
  appended again. The leader's next entry finds its place taken by an entry of the same term and is not
  stored, and the follower applies the old command once more instead of the new one.

The others can be seen with the configurations kept beside the runs
(`tlc -config <name>.cfg <module>`), each of which ends in a violation:

| Configuration | Module | What the code does | What it says |
|---|---|---|---|
| `leftover_rows` | `MCRaft` | installing a snapshot, compaction and truncation delete no rows of `raft_log`; after a restart a left-over row is read back and counts as committed | `raft/node.go:48` "Persistent state (must be persisted to stable storage)" |
| `older_snapshot` | `MCRaft` | an older snapshot is restored before it is found to be old | `raft/node.go:996` "we already have a newer snapshot; ignore" |
| `http_apply` | `MCRaft` | over HTTP `Apply` panics on every replicated entry, after `LastApplied` moved | `docs/ACME_RAFT_SYNC.md:115` "Apply (On All Nodes)" |
| `no_entries` | `MCRaftFair` | the command line's configuration leaves `MaxEntriesPerAppend` at 0: no entry is ever sent | `raft/node.go:495` "MaxEntriesPerAppend is a small positive config value." |
| `spent_timer` | `MCRaft` | a leader deposed by a vote request it refuses has no election timer | `ARCHITECTURE.md:266` "New leader elected on leader failure" |
| `single_node` | `MCRaft` | a single node never becomes leader | `ARCHITECTURE.md:262` "First node starts as leader" |
| `close_race` | `MCUnixLocks` | `unixClose` leaves `pLockMutex` before it closes the descriptor; a lock another thread takes in between is dropped by the kernel | `sqlite3.c:41558` "do not actually close the file just yet because that would clear those locks" |
| `pending` | `MCUnixLocks` | a process that has a reader lets another handle share without asking the kernel, past a PENDING lock of another process | `unixLock`: PENDING "ensures that no new SHARED locks can be obtained" |

Others appear when a constant of a run is changed:

* `SaveMayFail = TRUE` in `deployed.cfg` violates `ElectionSafety`: `persistState` only logs the
  error, so a vote that was not saved is given again after a restart.
* `MaxRestarts = 1` and the invariant `AppliedIsCurrent` in `pipelining.cfg` end in a violation: `SaveLog` marshals the
  command a second time, so an entry reloaded by `LoadLog` cannot be decoded, and
  `applyCommitted` passes over it.
* `FullSync = {}` in `wal_power.cfg` violates `CommitsAreDurable`: with synchronous=NORMAL, the
  store's default, commits since the last checkpoint can be lost in a power failure
  (`StoreSpec` still holds). `store.go:410` says "same durability as FULL for committed
  transactions".
* `KillInRestart = TRUE` in `wal_kill.cfg` violates `BackfillBounded`, if it is added there (`sqlite3.c:67098`
  "never greater than WalIndexHdr.mxFrame"): a process dies in `walRestartHdr` between the
  header and `nBackfill`. With the one `walFrames` call of that run `StoreSpec` holds; with
  `MaxCalls = 2` it is violated as well: the commit after the death makes `mxFrame` equal to
  the `nBackfill` that was left, so the next reader takes the log for copied, reads the
  database file alone and misses that commit.
* `KillBeforeEndSync = TRUE` in `journal.cfg` violates `StoreSpec` with PERSIST: a process dies
  after `zeroJournalHdr` wrote the zeroes and before it synced them; the next writer
  overwrites records while the disk may still have the old header, and after a power
  loss the old journal is played back up to the first new record.
* `<<"PERSIST", "NORMAL">>` in `MCConfigurations` violates `StoreSpec`: without the sync between
  the records and `nRec`, a power loss may keep the new magic and lose the zeroes
  `syncJournal` wrote over the next stale header, which is then played back too.

And some are visible in the models without a property of their own:

* A leader may have `heartbeat = "exiting"`: elected again before the deferred
  `heartbeatRunning.Store(false)`, it starts no heartbeats.
* A request that passed `Allow` and is turned away later (`Blocked`, `NoTarget`) never
  reports, so in the half-open state its slot is taken for good. A late result counts as
  a trial's, each retry reports, and a retryable status reports a success.
* An update that matches no row leaves its transaction, and the write lock, open until
  the request ends; meanwhile other requests go uncharged and batches fail.
* After a Reload a request of the old generation finds its store closed: it is served
  and not charged, and its audit entry stays in a channel nobody reads (`late`), not
  counted as dropped. So do entries logged while Shutdown drains the servers, after the
  audit goroutine has ended.

The passing runs keep clear of these, or say what still holds: `replication`, `pipelining` and
`liveness` use the in-memory transport and neither restart nor compact the log; `deployed` does all
of it, and states only what survives the panics and the left-over rows; `wal_kill`
has no death inside `walRestartHdr`, and `journal` none before the last sync and no PERSIST with
NORMAL; `locks` has the gap in `unixClose`, and claims no exclusion between processes for a lock
that was taken in it (`raced`); `OrderlyHandover` claims nothing once a wait has timed out.

## Fairness

`RaftLiveness` follows one leader, `Last`, since all nodes are alike. It assumes that
the ticker of `sendHeartbeats` keeps firing and reaches each peer, that a runnable
goroutine runs (Go's scheduler), and that the network, which may lose any call,
does not lose all of them for ever: strong fairness of delivering requests, and
responses, to each peer. Nothing is assumed of elections; the
properties say what happens if a leader stays. That one is elected at all depends on
timing and is not stated. `ContestedInit` is a state that `Init` leads to (TLC
reaches it with two campaigns and two entries); starting there keeps the graph
small enough for TLC's liveness check.

The other modules state no fairness and no liveness. A writer on SQLite can
starve (see `pending` above), a busy handler that gives up is part of the models,
and what the gateway eventually does depends on timeouts that the model lets
expire at any time. `StrandedAreLate` says as a safety property what a drained
audit queue amounts to.

## Proofs

Proved of Raft for every set of nodes, every value of the bounds and either transport:

* `TypeCorrect` (`RaftTypeProofs`): `Spec => []TypeOK`, also with a storage that fails.
* `ElectionSafe` (`RaftElectionProofs`): `Spec => []ElectionSafety` if the storage does
  not fail. (With one that does it is false, see above.)
* `ElectionInvariance` (`RaftElectionProofs`): `Spec => []ElectionInv`, under the same condition.

`ElectionSafety` alone is not inductive, and neither is the textbook argument that a
node votes once per term: in this code `HandleAppendEntries` clears `VotedFor` of a
candidate that hears of the winner of its own term, so a node can vote twice in
a term. The inductive invariant `ElectionInv` says why this does no harm:

* `QuorumInv`: behind every winner is a majority that voted for it and for nobody
  else in that term, and while such a node is in this term it holds on to its
  vote and does not campaign;
* `VotesInv`: while a term is undecided, a vote that was cast is still held, and
  is the only one of its node;
* `CandidateInv`: a candidate's counter is the number of different nodes that
  voted for it in its term, and a leader has won its term;
* `StableInv`: `raft_state` holds the term and vote in memory, so that a restart
  forgets nothing;
* `CallsInv`: a granted response stands for a vote not yet counted, calls are
  told apart by sender, receiver and term, and only winners send `AppendEntries`
  and `InstallSnapshot`, so a node steps down in its own term only once it is decided.

TLC checks `ElectionInv` in the run `pipelining`. The proof has a lemma per action;
the steps that do not touch elections share `ElectionKept`, those that step down
`CoreStepDown`, and the two that matter are `CoreGrant` (a vote) and `CoreWin` (the vote
that completes a majority, where two quorums meet).
The assumptions are those of the modules: `Node` is finite, `Nil` is not a node or
a command, the bounds are natural numbers.

Proved of the file locks, for every set of processes and every finite set of handles, with
threads that lock while another of their process is inside `unixClose`:

* `LockInvariance` (`UnixLocksTheorems`): `Spec => [](TypeOK /\ LockInv)`.
* `MutualExclusionHolds` (`UnixLocksTheorems`): `Spec => []MutualExclusion`.
* `LockCountsHold` (`UnixLocksTheorems`): `Spec => []TypeOK`, in particular no count goes below zero.
* `LocksImplementFileLock` (`UnixLocksTheorems`): `Spec => ImplementsFileLock`.

Mutual exclusion is not inductive: two handles are kept apart by the inode record in
one process and by the kernel in two, and neither shows in the handles' levels alone.
`LockInv` ties them together:

* `CountInv`: `nShared` and `nLock` are the number of handles of the process that have a
  lock, and with none the inode's level is 0;
* `CallInv`: a call under way holds the mutex, and where it is limits its handle's level;
* `CloseInv`: a descriptor about to be closed finds no lock of its process, unless one was begun
  since `unixClose` left `pLockMutex`;
* `LevelInv`: the level of the inode is that of its one writer;
* `KernelInv`: the kernel's write-locks exclude those of other processes;
* `ByteInv`: each level is backed by the byte ranges `unixLock` takes for it, and an
  EXCLUSIVE handle is the only one counted in its process.

What rests on the kernel (`CloseInv`, `ByteInv`) excepts the processes in `raced`, whose byte ranges a
`close` may have dropped; what rests on the inode record (`CountInv`, `LevelInv`) does not, so that
within one process exclusion is proved without exception. Between processes it cannot be:
`close_race` is the counterexample.

`UnixLocksProofs` and `UnixLocksTheorems` have one lemma per action; the counting rests on
`HoldersCount` and `HoldersStep`, which use the library's theorems on cardinality. The refinement
uses the invariant before the step and mutual exclusion after it: the guard of the
abstract step is that no other handle stands in the way, and `MoveStep` reads it off the
state that is reached.

Proved of the gateway for every finite set of requests and of Reload calls, every buffer
and batch size, breaker setting, cost and balance (`GatewayAssumption`,
`BreakerAssumption`, `LoggerAssumption`):

* `GatewayTyped` (`GatewayTheorems`): `Spec => []TypeOK`, with the bounds on half-open trials,
  channels and batches.
* `CreditsStay` (`GatewayTheorems`): `Spec => []CreditsConserved`.
* `BreakersTrip` (`GatewayTheorems`): `Spec => []ClosedBelowThreshold`.
* `HandoverIsOrderly` (`GatewayTheorems`): `Spec => []OrderlyHandover`.
* `StrandedEntriesAreLate` (`GatewayTheorems`): `Spec => []StrandedAreLate`.
* `EntriesAuditedOnce` (`GatewayAudit`): `Spec => []AuditedOnce`.

The invariants are in the last part of `GatewaySafety`, and TLC has checked each on the
instance of `gateway` before it was proved:

* `SafeInv` (`GatewayProofs`) is `TypeOK`, `LifeInv`, `ClosedBelowThreshold` and `CreditInv`. `LifeInv` says that the
  number of generations is the number of Reloads that got as far as the swap, so that the
  next generation is a fresh one. `CreditInv` says that who is about to commit
  holds the write lock of the database and has seen, under it, a balance that
  covers the cost: this is what makes `PreCheck`, long before and without a lock,
  irrelevant to the sum.
* `HandoverInv`: while nothing was hurried at most one audit goroutine has not ended, it is
  the one `auditDone` was made for, and its store is that of the current generation or, while
  a Reload waits, of the one before.
* `StartedInv`: `StrandedAreLate`, with the facts that a logger is started by one goroutine and that an
  unstarted one is empty. An entry logged between the look at the empty channel and the end of the
  last flush is late, and the theorem covers it.
* `AuditInv`: an entry has at most one place of each kind, places of one kind only, and
  one from the moment its request has called `Log`. `PlacesCounted` turns this
  into the sum of `AuditedOnce`.

Each invariant has a lemma per action. Steps that do not touch the variables of
an invariant share one lemma (`IdleMoves`, `RoutineSafe`, `QuietStays`, `StartedKept`). That the
balance is the sum of the rows rests on the library's theorems on cardinality
(`CreditsCommit`), and that a batch plus its channel keeps its entries when the goroutine receives
one on `CatReceive`.

Only model-checked:

* of Raft, the properties of the log, of the state machines, of snapshots and of the
  tables: their inductive invariant relates the logs of all nodes and of all requests
  under way, and was not attempted;
* both liveness properties (fairness and ENABLED are out of TLAPS's reach here);
* of `Wal` and `Journal`, the types, `BackfillBounded`, `Recoverable`, `CommitsAreDurable` and the refinement of
  `SnapshotStore`: recovery is a recursive function of the log, and what it
  computes for every input needs an induction over data that the provers cannot do.

## Not modelled

*SQLite.* `PROJECT.json` maps the code that the models translate, a small part of the
amalgamation: its B-tree, virtual machine, SQL compiler, functions, full-text search and
JSON, over nine tenths of its lines, run within one connection, sequentially and on top of
the pager. Of the pager, log and locks the models leave out: page sizes, growth and
truncation of the database (`nPage`), the layout of the hash tables, checksums beyond
equality, padding to sectors (a header and a record take one slot each, and records do not end exactly
at a sector's end), `journal_size_limit`, super-journals, savepoints and the
sub-journal, exclusive locking mode and in-memory journals, a mix of journal modes,
`SQLITE_ENABLE_SNAPSHOT`, blocking locks, read-only shared memory, structured exceptions, the other
locking styles, and errors of `fcntl`. The deletion of the log by the last connection counts as durable.
In `journal` nothing fails after the power loss.

*Raft.* Changes of membership (`AddPeer` and `RemovePeer` change one node at a time, so two
majorities need not meet), `Propose` (which waits until the commit index reaches its index, not
for its entry), the certificate renewal lock (granted once its entry is appended) and the
effect of the commands on `GatewayFSM`. `Restore` does not fail and a snapshot is never empty: its
data is what `Snapshot` of another node marshalled.

*Gateway.* Routing, plugins other than the breaker, the federation path, TLS, gRPC, the
admin API and portal (`mutateConfig` copies, changes and reloads without a lock, so one of two overlapping
changes is lost), Kafka, retention, analytics and metrics (`serve_audit.go` adds the total of dropped entries
to a counter at every request).

*Rate limiters, health checker, balancers, shutdown manager, caches.* Their hazards, for a later
module: the fixed window reads the clock before its lock, so that a late caller resets the
window, `PurgeStale` drops a state that a caller has loaded, and the token bucket may credit
time twice; the Redis limiter sets `available` before it clears `reconnecting`, and an error in
between starts no reconnection; probes and reports flip one health flag with separate
counters; `Adaptive.Done` lowers counts that another strategy raised; a signal and a call of
`Shutdown` each run all hooks, and `WaitForSignal` waits for a channel a signal does not close.
These are real, and left out for the size of what is here rather than for lack of
something to check.

*The rest*: functions of one request, CRUD over the store, or observation. `PROJECT.json` lists
each part with its reason, and the hazards of the modelled code with the properties that cover
them.
