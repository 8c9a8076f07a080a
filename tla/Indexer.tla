------------------------------ MODULE Indexer ------------------------------
(***************************************************************************)
(* The indexer's worker and its store (services/indexer/src/worker/run.ts, *)
(* worker/source.ts, db/store.ts) against a chain that grows and reorgs.   *)
(*                                                                         *)
(* A cycle reads the head, compares its newest stored blocks with the      *)
(* chain's, rolls back to a common ancestor if they differ, and ingests    *)
(* the next batch; each store call is one database transaction, but the    *)
(* chain goes on between the RPC calls and during them.  A block's hash is *)
(* the chain up to it, so equal hashes mean equal histories.  The contract *)
(* was deployed in block 1.  A transaction stands for the logs it emits;   *)
(* all of them decode and project.  The block numbers and lag in the       *)
(* health row, and the rows of the derived tables, are left out.           *)
(***************************************************************************)
EXTENDS Integers, SequencesExt

CONSTANTS
  Forks, Txs, NoTx,    \* branches of the chain; a transaction, or none, in each block
  FINALITY_WINDOW, BATCH_SIZE,
  MaxHeight, MaxReorgs \* bounds of the chain

ASSUME NoTxIsNone == NoTx \notin Txs
ASSUME SizesArePositive == {FINALITY_WINDOW, BATCH_SIZE} \subseteq Nat \ {0}
ASSUME BoundsAreNaturals == {MaxHeight, MaxReorgs} \subseteq Nat

VARIABLES
  chain,       \* external: the canonical chain
  reorgs,      \* external: how often it has reorganised
  blocks,      \* table chain_blocks: hash by number
  logs,        \* table chain_logs
  projected,   \* the logs the derived tables were built from
  cursor,      \* table chain_cursor: last_processed_block, 0 without a row, and its hash
  health,      \* table indexer_health: status and detail_code
  pc,          \* where the worker's cycle is
  head,        \* the head its cycle has read
  seen,        \* chains that were canonical since its pending RPC calls began
  disturbed    \* history: the chain reorganised during a cycle

chainVars == <<chain, reorgs>>
storeVars == <<blocks, logs, projected, cursor>>
idxVars == <<chainVars, storeVars, health, pc, head, seen, disturbed>>

Block == [fork : Forks, tx : Txs \cup {NoTx}]
HashAt(c, n) == SubSeq(c, 1, n)
LogsOf(c, numbers) ==
  {[tx |-> c[n].tx, number |-> n] : n \in {m \in numbers \cap DOMAIN c : c[m].tx # NoTx}}
Once(c) == \A m, n \in DOMAIN c : c[m].tx = c[n].tx /\ c[m].tx # NoTx => m = n

\* The row a store call leaves: the last block it stands on, with its hash.
CursorAtHead(observed, n) == [number |-> head, hash |-> observed[n]]   \* mutant
CursorAt(observed, n) == [number |-> n, hash |-> observed[n]]
NoCursor == [number |-> 0, hash |-> <<>>]
NoHealth == [status |-> "none", detailCode |-> "none"]
Healthy == [status |-> "healthy", detailCode |-> "none"]
Degraded(detailCode) == [status |-> "degraded", detailCode |-> detailCode]

IdxTypeOK ==
  /\ chain \in Seq(Block) /\ Len(chain) <= MaxHeight /\ Once(chain)
  /\ reorgs \in 0..MaxReorgs
  /\ DOMAIN blocks \subseteq 1..MaxHeight
  /\ \A n \in DOMAIN blocks : blocks[n] \in Seq(Block) /\ Len(blocks[n]) = n
  /\ {logs, projected} \subseteq SUBSET [tx : Txs, number : 1..MaxHeight]
  /\ cursor.number \in 0..MaxHeight /\ Len(cursor.hash) = cursor.number
  /\ health.status \in {"none", "healthy", "degraded"}
  /\ pc \in {"idle", "reconciling", "choosing", "fetching"}
  /\ head \in 0..MaxHeight
  /\ seen \subseteq Seq(Block)
  /\ disturbed \in BOOLEAN

IdxInit ==
  /\ chain = <<>>
  /\ reorgs = 0
  /\ blocks = <<>>
  /\ logs = {}
  /\ projected = {}
  /\ cursor = NoCursor
  /\ health = NoHealth
  /\ pc = "idle"
  /\ head = 0
  /\ seen = {}
  /\ disturbed = FALSE

-----------------------------------------------------------------------------
(* The chain *)

Extend(block) ==
  /\ Len(chain) < MaxHeight
  /\ chain # <<>> => block.fork = Last(chain).fork
  /\ Once(Append(chain, block))
  /\ chain' = Append(chain, block)
  /\ UNCHANGED <<reorgs, storeVars, health, pc, head, seen, disturbed>>

\* Another branch from height k on takes over, as long as the old one; it may be one
\* that has been canonical before.
Reorg(k, fork, txs) ==
  LET branch == [i \in DOMAIN txs |-> [fork |-> fork, tx |-> txs[i]]]
  IN  /\ reorgs < MaxReorgs
      /\ fork # chain[k + 1].fork
      /\ Once(HashAt(chain, k) \o branch)
      /\ chain' = HashAt(chain, k) \o branch
      /\ reorgs' = reorgs + 1
      /\ seen' = IF seen = {} THEN {} ELSE seen \cup {chain'}
      /\ disturbed' = (disturbed \/ pc # "idle")
      /\ UNCHANGED <<storeVars, health, pc, head>>

-----------------------------------------------------------------------------
(* The worker's cycle *)

EndCycle == pc' = "idle" /\ head' = 0 /\ seen' = {}

GetHead ==
  /\ pc = "idle"
  /\ head' = Len(chain)
  /\ pc' = IF cursor = NoCursor THEN "choosing" ELSE "reconciling"
  /\ seen' = IF cursor = NoCursor THEN {} ELSE {chain}
  /\ UNCHANGED <<chainVars, storeVars, health, disturbed>>

\* Any RPC call may fail: the cycle ends with rpcFailure.
RpcFails ==
  /\ pc \in {"idle", "reconciling", "fetching"}
  /\ health' = Degraded("RPC_UNAVAILABLE")
  /\ EndCycle
  /\ UNCHANGED <<chainVars, storeVars, disturbed>>

\* What the calls for single blocks return, each from a chain of its own.
Observed(numbers) ==
  {[n \in numbers |-> HashAt(pick[n], n)] : pick \in [numbers -> seen]}

WindowStart == IF cursor.number - FINALITY_WINDOW + 1 > 1
               THEN cursor.number - FINALITY_WINDOW + 1 ELSE 1
Window == WindowStart..cursor.number

\* A comparison of the oldest block alone.
DiffersAtStart(window) == window[WindowStart] # blocks[WindowStart]   \* mutant
Differs(window) == \E n \in DOMAIN window \cap DOMAIN blocks : window[n] # blocks[n]

\* The newest block both agree on; 0 when there is none.
Matching(window) == {n \in DOMAIN window \cap DOMAIN blocks : window[n] = blocks[n]}
OldestAncestor(window) ==   \* mutant
  IF Matching(window) = {} THEN 0 ELSE Min(Matching(window))
GuessedAncestor(window) ==   \* mutant
  IF Matching(window) = {} THEN WindowStart ELSE Max(Matching(window))
Ancestor(window) == Max(Matching(window) \cup {0})

\* reconcileWindow finds nothing to do.
Reconciled ==
  /\ pc = "reconciling"
  /\ \E window \in Observed(Window) : ~Differs(window)
  /\ pc' = "choosing"
  /\ seen' = {}
  /\ UNCHANGED <<chainVars, storeVars, health, head, disturbed>>

\* Deleting a block deletes its logs; the derived tables are rebuilt.
RollbackKeepingCursor ==   \* mutant
  /\ pc = "reconciling"
  /\ \E window \in Observed(Window) :
       /\ Differs(window)
       /\ Ancestor(window) # 0
       /\ blocks' = [n \in {m \in DOMAIN blocks : m <= Ancestor(window)} |-> blocks[n]]
       /\ logs' = {log \in logs : log.number <= Ancestor(window)}
       /\ cursor' = cursor
  /\ projected' = logs'
  /\ health' = Degraded("INDEXER_LAGGING")
  /\ pc' = "choosing"
  /\ seen' = {}
  /\ UNCHANGED <<chainVars, head, disturbed>>
Rollback ==
  /\ pc = "reconciling"
  /\ \E window \in Observed(Window) :
       /\ Differs(window)
       /\ Ancestor(window) # 0
       /\ blocks' = [n \in {m \in DOMAIN blocks : m <= Ancestor(window)} |-> blocks[n]]
       /\ logs' = {log \in logs : log.number <= Ancestor(window)}
       /\ cursor' = CursorAt(window, Ancestor(window))
  /\ projected' = logs'
  /\ health' = Degraded("INDEXER_LAGGING")
  /\ pc' = "choosing"
  /\ seen' = {}
  /\ UNCHANGED <<chainVars, head, disturbed>>

ReplayRequired ==
  /\ pc = "reconciling"
  /\ \E window \in Observed(Window) : Differs(window) /\ Ancestor(window) = 0
  /\ health' = Degraded("REORG_REPLAY_REQUIRED")
  /\ EndCycle
  /\ UNCHANGED <<chainVars, storeVars, disturbed>>

CaughtUpEarly ==   \* mutant
  /\ pc = "choosing"
  /\ cursor.number + 1 >= head
  /\ health' = Healthy
  /\ EndCycle
  /\ UNCHANGED <<chainVars, storeVars, disturbed>>
CaughtUp ==
  /\ pc = "choosing"
  /\ cursor.number + 1 > head
  /\ health' = Healthy
  /\ EndCycle
  /\ UNCHANGED <<chainVars, storeVars, disturbed>>

StartBatch ==
  /\ pc = "choosing"
  /\ cursor.number + 1 <= head
  /\ pc' = "fetching"
  /\ seen' = {chain}
  /\ UNCHANGED <<chainVars, storeVars, health, head, disturbed>>

Batch == (cursor.number + 1)..Min({cursor.number + BATCH_SIZE, head})

\* What ingestBatch accepts: blocks of one branch, no stored block or log changed.
Acceptable(batch, batchLogs) ==
  /\ \A n \in DOMAIN batch : n - 1 \in DOMAIN batch => batch[n - 1] = HashAt(batch[n], n - 1)
  /\ \A n \in DOMAIN batch \cap DOMAIN blocks : batch[n] = blocks[n]
  /\ \A log \in batchLogs, old \in logs : log.tx = old.tx => log = old

\* The logs of the range come from one call, which may see another chain than the blocks'.
CommitBatch ==
  /\ pc = "fetching"
  /\ \E batch \in Observed(Batch), c \in seen :
       /\ Acceptable(batch, LogsOf(c, Batch))
       /\ blocks' = [n \in DOMAIN blocks \cup Batch |-> IF n \in Batch THEN batch[n] ELSE blocks[n]]
       /\ logs' = logs \cup LogsOf(c, Batch)
       /\ cursor' = CursorAt(batch, Max(Batch))
  /\ projected' = logs'
  /\ health' = Healthy
  /\ EndCycle
  /\ UNCHANGED <<chainVars, disturbed>>

\* INDEXER_BATCH_REJECTED: everything is rolled back, the health row is not touched.
RejectBatch ==
  /\ pc = "fetching"
  /\ \E batch \in Observed(Batch), c \in seen : ~Acceptable(batch, LogsOf(c, Batch))
  /\ EndCycle
  /\ UNCHANGED <<chainVars, storeVars, health, disturbed>>

\* The worker stops anywhere, or a database call fails; the next cycle starts from what
\* the database holds.
Restart ==
  /\ pc # "idle"
  /\ EndCycle
  /\ UNCHANGED <<chainVars, storeVars, health, disturbed>>

IdxNext ==
  \/ \E block \in Block : Extend(block)
  \/ \E k \in 0..(Len(chain) - 1), fork \in Forks :
       \E txs \in [1..(Len(chain) - k) -> Txs \cup {NoTx}] : Reorg(k, fork, txs)
  \/ GetHead \/ RpcFails
  \/ Reconciled \/ Rollback \/ ReplayRequired
  \/ CaughtUp \/ StartBatch \/ CommitBatch \/ RejectBatch
  \/ Restart

IdxSpec == IdxInit /\ [][IdxNext]_idxVars

\* The loop of main.ts always begins another cycle; RPC calls fail and restarts happen,
\* but not every time.
IdxFairSpec ==
  /\ IdxSpec
  /\ WF_idxVars(GetHead)
  /\ SF_idxVars(Reconciled \/ Rollback \/ ReplayRequired)
  /\ SF_idxVars(CaughtUp \/ StartBatch)
  /\ SF_idxVars(CommitBatch \/ RejectBatch)

-----------------------------------------------------------------------------

\* The store resumes where it stopped, without gaps: it holds exactly the blocks up to
\* the cursor, the logs of none but those, and derived tables built from all of them
\* (reconcileWindow and ingestBatch, whatever is interrupted between them).
CursorIsTopOfStore ==
  /\ DOMAIN blocks = 1..cursor.number
  /\ cursor # NoCursor => cursor.hash = blocks[cursor.number]
  /\ \A log \in logs : log.number <= cursor.number
  /\ projected = logs

StoreIsCanonical ==
  /\ \A n \in DOMAIN blocks : n <= Len(chain) /\ blocks[n] = HashAt(chain, n)
  /\ logs = LogsOf(chain, 1..cursor.number)

\* As long as the chain reorganises only between cycles, health is reported healthy only
\* of a store that holds the canonical blocks and logs (markHealth, ingestBatch).
HealthyMeansCanonical ==
  [][~disturbed /\ (CaughtUp \/ CommitBatch) => StoreIsCanonical']_idxVars

\* As long as the chain reorganises only between cycles, a rollback deletes no block that
\* is still canonical (reconcileWindow's choice of the ancestor).
OnlyOrphansAreDropped ==
  [][~disturbed =>
       \A n \in DOMAIN blocks \ DOMAIN blocks' : blocks[n] # HashAt(chain, n)]_idxVars

\* No stored block of the reconciliation window is canonical any more.
TooDeep == cursor # NoCursor /\ \A n \in Window : blocks[n] # HashAt(chain, n)

\* While no common ancestor is in the window the store is left as it is, and neither
\* guessed at nor added to (REORG_REPLAY_REQUIRED in reconcileWindow).
DeepReorgsFailClosed ==
  [][~disturbed /\ TooDeep => UNCHANGED storeVars]_idxVars

\* Once the chain stands still, and if it never reorganised during a cycle, the store
\* reaches its head and stays there, or has to be replayed (main.ts, runWorkerCycle).
CatchesUp ==
  [](~disturbed) => <>[](TooDeep \/ (cursor.number = Len(chain) /\ StoreIsCanonical))

-----------------------------------------------------------------------------

\* "canonical block number, hash, and parent-hash continuity are verified before
\* committing progress": each stored block's parent is the one stored below it.
StoredBlocksAreAChain ==
  \A n \in DOMAIN blocks : n - 1 \in DOMAIN blocks => blocks[n - 1] = HashAt(blocks[n], n - 1)
=============================================================================
