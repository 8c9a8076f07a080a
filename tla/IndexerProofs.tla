--------------------------- MODULE IndexerProofs ---------------------------
(***************************************************************************)
(* The consistency of the indexer's store for chains, windows and batches  *)
(* of any size, and its agreement with the chain while the chain           *)
(* reorganises only between cycles.                                        *)
(***************************************************************************)
EXTENDS Indexer, SequenceTheorems, FiniteSetTheorems, TLAPS

-----------------------------------------------------------------------------
(* Maxima and hashes *)

\* A bounded set of naturals has a greatest element.
LEMMA MaxIsGreatest ==
  ASSUME NEW S, NEW b \in Nat, S \subseteq 0..b, S # {}
  PROVE  /\ Max(S) \in S
         /\ \A y \in S : y <= Max(S)
<1> DEFINE T == {x..b : x \in S}
           R == StrictSubsetOrdering(0..b)
<1>1. T \subseteq SUBSET (0..b) /\ T # {}
  <2>1. \A x \in S : x..b \subseteq 0..b
    OBVIOUS
  <2>2. QED
    BY <2>1
<1>2. IsWellFoundedOn(R, SUBSET (0..b))
  <2>1. IsFiniteSet(0..b)
    BY FS_Interval
  <2>2. FiniteSubsetsOf(0..b) = SUBSET (0..b)
    BY <2>1, FS_FiniteSubsetsOfFinite, Zenon
  <2>3. QED
    BY <2>2, FS_StrictSubsetOrderingWellFounded, Zenon
<1>3. PICK t \in T : \A u \in T : <<u, t>> \notin R
  <2> HIDE DEF T, R
  <2>1. QED
    BY <1>1, <1>2, WFMin
<1>4. PICK x \in S : t = x..b
  BY <1>3
<1>5. \A y \in S : y <= x
  <2> SUFFICES ASSUME NEW y \in S, y > x PROVE FALSE
    OBVIOUS
  <2>1. y..b \in T /\ y..b \subseteq x..b /\ x \in x..b /\ x \notin y..b
    OBVIOUS
  <2>2. <<y..b, t>> \in R
    BY <1>1, <1>4, <2>1 DEF StrictSubsetOrdering
  <2>3. QED
    BY <1>3, <2>1, <2>2
<1>6. QED
  BY <1>5 DEF Max

\* A hash determines the hashes below it.
LEMMA HashOfHash ==
  ASSUME NEW c \in Seq(Block), NEW n \in 0..Len(c), NEW m \in 0..n
  PROVE  /\ HashAt(c, n) \in Seq(Block) /\ Len(HashAt(c, n)) = n
         /\ \A i \in 1..n : HashAt(c, n)[i] = c[i]
         /\ HashAt(HashAt(c, n), m) = HashAt(c, m)
<1>1. /\ HashAt(c, n) \in Seq(Block) /\ Len(HashAt(c, n)) = n
      /\ \A i \in 1..n : HashAt(c, n)[i] = c[i]
  BY DEF HashAt
<1>2. HashAt(HashAt(c, n), m) = HashAt(c, m)
  BY <1>1 DEF HashAt
<1>3. QED
  BY <1>1, <1>2

\* Chains that agree on some blocks have the same logs there.
LEMMA LogsOfAgreeing ==
  ASSUME NEW c \in Seq(Block), NEW d \in Seq(Block), NEW S,
         \A n \in S : n \in 1..Len(c) /\ n \in 1..Len(d) /\ c[n] = d[n]
  PROVE  LogsOf(c, S) = LogsOf(d, S)
<1>1. {m \in S \cap DOMAIN c : c[m].tx # NoTx} = {m \in S \cap DOMAIN d : d[m].tx # NoTx}
  OBVIOUS
<1>2. \A n \in {m \in S \cap DOMAIN c : c[m].tx # NoTx} : c[n] = d[n]
  OBVIOUS
<1>3. QED
  BY <1>1, <1>2 DEF LogsOf

\* A hash determines the logs below it.
LEMMA LogsOfHash ==
  ASSUME NEW c \in Seq(Block), NEW n \in 0..Len(c), NEW S \in SUBSET (1..n)
  PROVE  LogsOf(HashAt(c, n), S) = LogsOf(c, S)
<1> DEFINE d == HashAt(c, n)
<1>1. d \in Seq(Block) /\ Len(d) = n /\ \A i \in 1..n : d[i] = c[i]
  BY HashOfHash
<1> HIDE DEF d
<1>2. Len(c) \in Nat
  BY LenProperties
<1>3. \A i \in 1..n : i \in 1..Len(c) /\ i \in 1..Len(d) /\ c[i] = d[i]
  BY <1>1, <1>2
<1>4. \A i \in S : i \in 1..Len(c) /\ i \in 1..Len(d) /\ c[i] = d[i]
  BY <1>3
<1>5. LogsOf(c, S) = LogsOf(d, S)
  BY <1>1, <1>4, LogsOfAgreeing
<1>6. QED
  BY <1>5 DEF d

\* Logs come from the blocks they are asked of.
LEMMA LogsAreNumbered ==
  ASSUME NEW c, NEW S, NEW log \in LogsOf(c, S)
  PROVE  log.number \in S
BY DEF LogsOf

-----------------------------------------------------------------------------
(* The invariant *)

CursorIsTyped == cursor \in [number : 0..MaxHeight, hash : Seq(Block)]

\* The chain never gets shorter than what a cycle has read of it.
HeadIsCovered ==
  /\ cursor.number <= Len(chain)
  /\ pc # "idle" => cursor.number <= head /\ head <= Len(chain)
  /\ pc = "fetching" => cursor.number < head
  /\ pc = "reconciling" => cursor.number > 0
  /\ \A c \in seen : Len(c) \in head..Len(chain)
  /\ pc = "idle" => seen = {}

\* Until a cycle is disturbed, a cycle sees but one chain, the store is one branch with its
\* logs, and from the comparison on, that branch is the chain's.
UndisturbedIsCanonical ==
  ~disturbed =>
    /\ \A c \in seen : c = HashAt(chain, Len(c))
    /\ \A n \in DOMAIN blocks : blocks[n] = HashAt(cursor.hash, n)
    /\ logs = LogsOf(cursor.hash, 1..cursor.number)
    /\ pc \in {"choosing", "fetching"} => cursor.hash = HashAt(chain, cursor.number)

IdxInv ==
  /\ IdxTypeOK
  /\ CursorIsTyped
  /\ CursorIsTopOfStore
  /\ HeadIsCovered
  /\ UndisturbedIsCanonical

-----------------------------------------------------------------------------
(* What the helpers return *)

\* Each observed hash is of a chain the cycle has seen.
LEMMA ObservedBlocks ==
  ASSUME NEW numbers, NEW window \in Observed(numbers)
  PROVE  /\ DOMAIN window = numbers
         /\ \A n \in numbers : \E c \in seen : window[n] = HashAt(c, n)
BY DEF Observed

\* The reconciliation window ends with the cursor.
LEMMA WindowEndsAtCursor ==
  ASSUME IdxInv
  PROVE  /\ Window \subseteq 1..cursor.number
         /\ cursor.number > 0 => cursor.number \in Window
         /\ \A n \in 1..cursor.number : n \notin Window => n < WindowStart
BY SizesArePositive DEF IdxInv, CursorIsTyped, Window, WindowStart

\* A cursor with blocks below it, and the one without.
LEMMA NoCursorIsZero ==
  ASSUME IdxInv
  PROVE  /\ cursor.number \in Nat /\ cursor.number = Len(cursor.hash)
         /\ cursor # NoCursor <=> cursor.number > 0
<1>1. /\ cursor.number \in Nat /\ cursor.hash \in Seq(Block)
      /\ cursor.number = Len(cursor.hash)
      /\ cursor = [number |-> cursor.number, hash |-> cursor.hash]
  BY DEF IdxInv, CursorIsTyped, IdxTypeOK
<1>2. cursor.number = 0 => cursor.hash = <<>>
  BY <1>1, EmptySeq
<1>3. ASSUME cursor.number = 0 PROVE cursor = NoCursor
  <2>1. [number |-> cursor.number, hash |-> cursor.hash] = NoCursor
    BY <1>2, <1>3 DEF NoCursor
  <2>2. QED
    BY <1>1, <2>1, Zenon
<1>4. NoCursor.number = 0
  BY DEF NoCursor
<1>5. QED
  BY <1>1, <1>3, <1>4

\* The ancestor is the newest block on which store and window agree.
LEMMA AncestorMatches ==
  ASSUME IdxInv, NEW window \in Observed(Window)
  PROVE  /\ Ancestor(window) # 0 => Ancestor(window) \in Matching(window)
         /\ \A n \in Matching(window) : n <= Ancestor(window)
         /\ Matching(window) \subseteq Window
<1>1. DOMAIN window = Window
  BY ObservedBlocks
<1>2. cursor.number \in Nat
  BY NoCursorIsZero
<1>3. Matching(window) \subseteq Window
  BY <1>1 DEF Matching
<1>4. Matching(window) \cup {0} \subseteq 0..cursor.number
  BY <1>2, <1>3, WindowEndsAtCursor
<1>5. /\ Ancestor(window) \in Matching(window) \cup {0}
      /\ \A n \in Matching(window) \cup {0} : n <= Ancestor(window)
  BY <1>2, <1>4, MaxIsGreatest DEF Ancestor
<1>6. QED
  BY <1>3, <1>5

\* A batch starts above the cursor and ends at the head or before.
LEMMA BatchIsAnInterval ==
  ASSUME IdxInv, pc = "fetching"
  PROVE  /\ Max(Batch) \in (cursor.number + 1)..head
         /\ Batch = (cursor.number + 1)..Max(Batch)
<1> DEFINE a == cursor.number + BATCH_SIZE
           e == Min({a, head})
<1>1. cursor.number \in Nat /\ head \in Nat /\ cursor.number < head /\ a > cursor.number /\ a \in Nat
  BY SizesArePositive DEF IdxInv, CursorIsTyped, IdxTypeOK, HeadIsCovered
<1> HIDE DEF a
<1>2. e \in {a, head} /\ e <= head
  BY <1>1 DEF Min
<1>3. Batch = (cursor.number + 1)..e
  BY DEF Batch, a
<1> HIDE DEF e
<1>4. e \in Batch /\ Batch \subseteq 0..e /\ e \in Nat
  BY <1>1, <1>2, <1>3
<1>5. Max(Batch) \in Batch /\ Max(Batch) >= e
  BY <1>4, MaxIsGreatest
<1>6. Max(Batch) = e
  BY <1>3, <1>4, <1>5
<1>7. QED
  BY <1>1, <1>2, <1>3, <1>6

-----------------------------------------------------------------------------
(* Every step preserves it *)

\* A new block changes no hash below it.
LEMMA ExtendKeeps ==
  ASSUME IdxInv, NEW block \in Block, Extend(block)
  PROVE  IdxInv'
<1>1. /\ chain \in Seq(Block) /\ cursor.number \in 0..Len(chain)
      /\ \A c \in seen : Len(c) \in 0..Len(chain)
  BY DEF IdxInv, IdxTypeOK, CursorIsTyped, HeadIsCovered
<1>2. /\ chain' \in Seq(Block) /\ Len(chain') = Len(chain) + 1 /\ Len(chain') <= MaxHeight
      /\ Once(chain')
  <2>1. /\ chain' = Append(chain, block) /\ Len(chain) < MaxHeight
        /\ Once(Append(chain, block))
    BY DEF Extend
  <2>2. chain' \in Seq(Block) /\ Len(chain') = Len(chain) + 1
    BY <1>1, <2>1, AppendProperties
  <2>3. QED
    BY <1>1, <2>1, <2>2, BoundsAreNaturals
<1>3. \A n \in 0..Len(chain) : HashAt(chain', n) = HashAt(chain, n)
  BY <1>1 DEF Extend, HashAt
<1>4. UNCHANGED <<reorgs, storeVars, health, pc, head, seen, disturbed>>
  BY DEF Extend
<1>5. IdxTypeOK' /\ CursorIsTyped'
  BY <1>2, <1>4 DEF IdxInv, IdxTypeOK, CursorIsTyped, storeVars, Once
<1>6. CursorIsTopOfStore'
  BY <1>4 DEF IdxInv, CursorIsTopOfStore, storeVars, NoCursor
<1>7. HeadIsCovered'
  BY <1>1, <1>2, <1>4 DEF IdxInv, IdxTypeOK, HeadIsCovered, storeVars
<1>8. UndisturbedIsCanonical'
  BY <1>1, <1>3, <1>4 DEF IdxInv, UndisturbedIsCanonical, storeVars, HashAt, LogsOf
<1>9. QED
  BY <1>5, <1>6, <1>7, <1>8 DEF IdxInv

\* Another branch is as long as the old one; within a cycle it disturbs it.
LEMMA ReorgKeeps ==
  ASSUME IdxInv, NEW k \in 0..(Len(chain) - 1), NEW fork \in Forks,
         NEW txs \in [1..(Len(chain) - k) -> Txs \cup {NoTx}], Reorg(k, fork, txs)
  PROVE  IdxInv'
<1> DEFINE branch == [i \in DOMAIN txs |-> [fork |-> fork, tx |-> txs[i]]]
<1>1. chain \in Seq(Block) /\ Len(chain) \in Nat
  BY DEF IdxInv, IdxTypeOK
<1>2. /\ branch \in Seq(Block) /\ Len(branch) = Len(chain) - k
  BY <1>1 DEF Block
<1>3. /\ HashAt(chain, k) \in Seq(Block) /\ Len(HashAt(chain, k)) = k
  BY <1>1, HashOfHash
<1>4. /\ chain' = HashAt(chain, k) \o branch /\ Once(chain')
      /\ seen' = (IF seen = {} THEN {} ELSE seen \cup {chain'})
      /\ disturbed' = (disturbed \/ pc # "idle")
      /\ reorgs < MaxReorgs /\ reorgs' = reorgs + 1
      /\ UNCHANGED <<storeVars, health, pc, head>>
  BY Zenon DEF Reorg
<1> HIDE DEF branch
<1>5. chain' \in Seq(Block) /\ Len(chain') = Len(chain)
  <2>1. Len(chain') = k + (Len(chain) - k) /\ chain' \in Seq(Block)
    BY <1>2, <1>3, <1>4, ConcatProperties
  <2>2. QED
    BY <1>1, <2>1
<1>6. IdxTypeOK' /\ CursorIsTyped'
  <2>1. reorgs' \in 0..MaxReorgs
    BY <1>4, BoundsAreNaturals DEF IdxInv, IdxTypeOK
  <2>2. disturbed' \in BOOLEAN
    BY <1>4
  <2>3. seen' \subseteq Seq(Block) /\ Len(chain') <= MaxHeight
    BY <1>4, <1>5 DEF IdxInv, IdxTypeOK
  <2>4. QED
    BY <1>4, <1>5, <2>1, <2>2, <2>3 DEF IdxInv, IdxTypeOK, CursorIsTyped, storeVars, Once
<1>7. CursorIsTopOfStore'
  BY <1>4 DEF IdxInv, CursorIsTopOfStore, storeVars, NoCursor
<1>8. HeadIsCovered'
  <2>1. \A c \in seen' : Len(c) \in head..Len(chain)
    BY <1>1, <1>4, <1>5 DEF IdxInv, IdxTypeOK, HeadIsCovered
  <2>2. QED
    BY <1>4, <1>5, <2>1 DEF IdxInv, HeadIsCovered, storeVars
<1>9. UndisturbedIsCanonical'
  <2>1. ~disturbed' => ~disturbed /\ pc = "idle" /\ seen' = {}
    BY <1>4 DEF IdxInv, HeadIsCovered
  <2>2. QED
    BY <1>4, <2>1 DEF IdxInv, UndisturbedIsCanonical, storeVars, HashAt, LogsOf
<1>10. QED
  BY <1>6, <1>7, <1>8, <1>9 DEF IdxInv

\* While it reads the chain, a cycle that nobody disturbs gets the chain's own hashes.
LEMMA ObservedIsChain ==
  ASSUME IdxInv, ~disturbed, NEW numbers, NEW window \in Observed(numbers),
         NEW n \in numbers, n \in 0..head
  PROVE  window[n] = HashAt(chain, n)
<1>1. PICK c \in seen : window[n] = HashAt(c, n)
  BY ObservedBlocks
<1>2. /\ chain \in Seq(Block) /\ Len(c) \in head..Len(chain) /\ c = HashAt(chain, Len(c))
      /\ head \in Nat
  BY DEF IdxInv, IdxTypeOK, HeadIsCovered, UndisturbedIsCanonical
<1>3. HashAt(HashAt(chain, Len(c)), n) = HashAt(chain, n)
  BY <1>2, HashOfHash
<1>4. QED
  BY <1>1, <1>2, <1>3

\* A cycle that stops, or ends, leaves the store to the next one.
LEMMA EndCycleKeeps ==
  ASSUME IdxInv, EndCycle, UNCHANGED <<chainVars, storeVars, disturbed>>,
         health' \in {health, Healthy, Degraded("RPC_UNAVAILABLE"),
                      Degraded("REORG_REPLAY_REQUIRED")}
  PROVE  IdxInv'
<1>1. IdxTypeOK' /\ CursorIsTyped'
  BY BoundsAreNaturals DEF IdxInv, IdxTypeOK, CursorIsTyped, EndCycle, chainVars, storeVars,
    Healthy, Degraded, Once
<1>2. CursorIsTopOfStore' /\ HeadIsCovered'
  BY DEF IdxInv, CursorIsTopOfStore, HeadIsCovered, EndCycle, chainVars, storeVars, NoCursor
<1>3. UndisturbedIsCanonical'
  BY DEF IdxInv, UndisturbedIsCanonical, EndCycle, chainVars, storeVars, HashAt, LogsOf
<1>4. QED
  BY <1>1, <1>2, <1>3 DEF IdxInv

\* A cycle begins at a head the store does not pass.
LEMMA GetHeadKeeps ==
  ASSUME IdxInv, GetHead
  PROVE  IdxInv'
<1>1. /\ chain \in Seq(Block) /\ Len(chain) \in 0..MaxHeight
      /\ cursor.number \in 0..Len(chain)
  BY BoundsAreNaturals DEF IdxInv, IdxTypeOK, CursorIsTyped, HeadIsCovered
<1>2. /\ head' = Len(chain) /\ pc' \in {"choosing", "reconciling"}
      /\ seen' \subseteq {chain} /\ (pc' = "reconciling" => cursor # NoCursor)
      /\ (pc' = "choosing" => cursor = NoCursor)
      /\ UNCHANGED <<chainVars, storeVars, health, disturbed>>
  BY DEF GetHead
<1>3. IdxTypeOK' /\ CursorIsTyped'
  BY <1>1, <1>2 DEF IdxInv, IdxTypeOK, CursorIsTyped, chainVars, storeVars, Once
<1>4. CursorIsTopOfStore'
  BY <1>2 DEF IdxInv, CursorIsTopOfStore, storeVars, NoCursor
<1>5. HeadIsCovered'
  BY <1>1, <1>2, NoCursorIsZero DEF HeadIsCovered, chainVars, storeVars
<1>6. UndisturbedIsCanonical'
  <2>1. HashAt(chain, Len(chain)) = chain /\ HashAt(chain, 0) = <<>>
    BY <1>1, SubSeqFull, SubSeqEmpty DEF HashAt
  <2>2. \A c \in seen' : c = HashAt(chain, Len(c))
    BY <1>2, <2>1
  <2>3. pc' = "choosing" => cursor.hash = HashAt(chain, cursor.number)
    BY <1>2, <2>1 DEF NoCursor
  <2>4. pc' # "fetching"
    BY <1>2
  <2>5. QED
    BY <1>2, <2>2, <2>3, <2>4 DEF IdxInv, UndisturbedIsCanonical, chainVars, storeVars, HashAt, LogsOf
<1>7. QED
  BY <1>3, <1>4, <1>5, <1>6 DEF IdxInv

\* Nothing to reconcile: the stored block under the cursor is the chain's.
LEMMA ReconciledKeeps ==
  ASSUME IdxInv, Reconciled
  PROVE  IdxInv'
<1>1. PICK window \in Observed(Window) : ~Differs(window)
  BY DEF Reconciled
<1>2. /\ pc = "reconciling" /\ pc' = "choosing" /\ seen' = {}
      /\ UNCHANGED <<chainVars, storeVars, health, head, disturbed>>
  BY DEF Reconciled
<1>3. IdxTypeOK' /\ CursorIsTyped'
  BY <1>2 DEF IdxInv, IdxTypeOK, CursorIsTyped, chainVars, storeVars, Once
<1>4. CursorIsTopOfStore' /\ HeadIsCovered'
  BY <1>2 DEF IdxInv, CursorIsTopOfStore, HeadIsCovered, chainVars, storeVars, NoCursor
<1>5. ~disturbed => cursor.hash = HashAt(chain, cursor.number)
  <2> SUFFICES ASSUME ~disturbed PROVE cursor.hash = HashAt(chain, cursor.number)
    OBVIOUS
  <2>1. cursor.number > 0 /\ cursor.number \in Nat /\ cursor.number <= head
    BY <1>2, NoCursorIsZero DEF IdxInv, HeadIsCovered
  <2>2. cursor.number \in Window /\ cursor.number \in DOMAIN blocks
    BY <2>1, WindowEndsAtCursor DEF IdxInv, CursorIsTopOfStore
  <2>3. cursor.hash = blocks[cursor.number]
    BY <2>1, NoCursorIsZero DEF IdxInv, CursorIsTopOfStore
  <2>4. window[cursor.number] = blocks[cursor.number]
    BY <1>1, <2>2, ObservedBlocks DEF Differs
  <2>5. window[cursor.number] = HashAt(chain, cursor.number)
    BY <2>1, <2>2, ObservedIsChain DEF IdxInv, IdxTypeOK
  <2>6. QED
    BY <2>3, <2>4, <2>5
<1>6. UndisturbedIsCanonical'
  BY <1>2, <1>5 DEF IdxInv, UndisturbedIsCanonical, chainVars, storeVars, HashAt, LogsOf
<1>7. QED
  BY <1>3, <1>4, <1>6 DEF IdxInv

\* A rollback cuts the stored branch at its newest block that was observed.
LEMMA RollbackKeeps ==
  ASSUME IdxInv, Rollback
  PROVE  IdxInv'
<1>1. PICK window \in Observed(Window) :
        /\ Ancestor(window) # 0
        /\ blocks' = [n \in {m \in DOMAIN blocks : m <= Ancestor(window)} |-> blocks[n]]
        /\ logs' = {log \in logs : log.number <= Ancestor(window)}
        /\ cursor' = CursorAt(window, Ancestor(window))
  BY DEF Rollback
<1>2. /\ pc = "reconciling" /\ pc' = "choosing" /\ seen' = {} /\ projected' = logs'
      /\ health' = Degraded("INDEXER_LAGGING")
      /\ UNCHANGED <<chainVars, head, disturbed>>
  BY DEF Rollback
<1> DEFINE anc == Ancestor(window)
<1>3. /\ anc \in Window /\ anc \in DOMAIN blocks /\ window[anc] = blocks[anc]
      /\ anc \in 1..cursor.number
  BY <1>1, AncestorMatches, WindowEndsAtCursor DEF Matching
<1>4. /\ cursor.number \in Nat /\ cursor.number <= head /\ head <= Len(chain)
      /\ cursor.number <= MaxHeight /\ head \in Nat /\ chain \in Seq(Block)
      /\ DOMAIN blocks = 1..cursor.number /\ cursor.hash \in Seq(Block)
      /\ Len(cursor.hash) = cursor.number
      /\ \A n \in DOMAIN blocks : blocks[n] \in Seq(Block) /\ Len(blocks[n]) = n
  BY <1>2 DEF IdxInv, HeadIsCovered, IdxTypeOK, CursorIsTyped, CursorIsTopOfStore
<1>5. cursor'.number = anc /\ cursor'.hash = blocks[anc] /\ cursor' = [number |-> anc, hash |-> blocks[anc]]
  BY <1>1, <1>3 DEF CursorAt
<1>6. DOMAIN blocks' = 1..anc /\ \A n \in 1..anc : blocks'[n] = blocks[n]
  BY <1>1, <1>3, <1>4
<1>7. logs' = {log \in logs : log.number <= anc}
  BY <1>1
<1> HIDE DEF anc
<1>8. CursorIsTyped'
  BY <1>3, <1>4, <1>5, BoundsAreNaturals DEF CursorIsTyped
<1>9. IdxTypeOK'
  <2>1. DOMAIN blocks' \subseteq 1..MaxHeight
    BY <1>3, <1>4, <1>6, BoundsAreNaturals
  <2>2. \A n \in DOMAIN blocks' : blocks'[n] \in Seq(Block) /\ Len(blocks'[n]) = n
    BY <1>3, <1>4, <1>6
  <2>3. cursor'.number \in 0..MaxHeight /\ Len(cursor'.hash) = cursor'.number
    BY <1>3, <1>4, <1>5, BoundsAreNaturals
  <2>4. {logs', projected'} \subseteq SUBSET [tx : Txs, number : 1..MaxHeight]
    BY <1>2, <1>7 DEF IdxInv, IdxTypeOK
  <2>5. QED
    BY <1>2, <2>1, <2>2, <2>3, <2>4 DEF IdxInv, IdxTypeOK, chainVars, Degraded, Once
<1>10. CursorIsTopOfStore'
  <2>1. cursor'.hash = blocks'[cursor'.number]
    BY <1>3, <1>4, <1>5, <1>6
  <2>2. DOMAIN blocks' = 1..cursor'.number
    BY <1>5, <1>6
  <2>3. \A log \in logs' : log.number <= cursor'.number
    BY <1>5, <1>7
  <2>4. QED
    BY <1>2, <2>1, <2>2, <2>3 DEF CursorIsTopOfStore, NoCursor
<1>11. HeadIsCovered'
  BY <1>2, <1>3, <1>4, <1>5 DEF HeadIsCovered, chainVars
<1>12. UndisturbedIsCanonical'
  <2> SUFFICES ASSUME ~disturbed
               PROVE  /\ \A n \in DOMAIN blocks' : blocks'[n] = HashAt(cursor'.hash, n)
                      /\ logs' = LogsOf(cursor'.hash, 1..cursor'.number)
                      /\ cursor'.hash = HashAt(chain, cursor'.number)
    BY <1>2 DEF UndisturbedIsCanonical, chainVars, HashAt
  <2>1. /\ \A n \in DOMAIN blocks : blocks[n] = HashAt(cursor.hash, n)
        /\ logs = LogsOf(cursor.hash, 1..cursor.number)
    BY DEF IdxInv, UndisturbedIsCanonical
  <2>2. cursor'.hash = HashAt(cursor.hash, anc)
    BY <1>3, <1>5, <2>1
  <2>3. \A n \in DOMAIN blocks' : blocks'[n] = HashAt(cursor'.hash, n)
    <3> SUFFICES ASSUME NEW n \in 1..anc PROVE blocks'[n] = HashAt(cursor'.hash, n)
      BY <1>6
    <3>1. HashAt(HashAt(cursor.hash, anc), n) = HashAt(cursor.hash, n)
      <4>1. cursor.hash \in Seq(Block) /\ anc \in 0..Len(cursor.hash) /\ n \in 0..anc
        BY <1>3, <1>4
      <4>2. QED
        BY <4>1, HashOfHash
    <3>2. n \in DOMAIN blocks
      BY <1>3, <1>4
    <3>3. blocks'[n] = blocks[n] /\ blocks[n] = HashAt(cursor.hash, n)
      BY <1>6, <2>1, <3>2
    <3>4. QED
      BY <2>2, <3>1, <3>3
  <2>4. logs' = LogsOf(cursor'.hash, 1..anc)
    <3>1. {log \in LogsOf(cursor.hash, 1..cursor.number) : log.number <= anc}
            = LogsOf(cursor.hash, 1..anc)
      BY <1>3, <1>4 DEF LogsOf
    <3>2. LogsOf(HashAt(cursor.hash, anc), 1..anc) = LogsOf(cursor.hash, 1..anc)
      BY <1>3, <1>4, LogsOfHash
    <3>3. QED
      BY <1>7, <2>1, <2>2, <3>1, <3>2
  <2>5. cursor'.hash = HashAt(chain, anc)
    BY <1>3, <1>4, <1>5, ObservedIsChain
  <2>6. QED
    BY <1>5, <2>3, <2>4, <2>5
<1>13. QED
  BY <1>8, <1>9, <1>10, <1>11, <1>12 DEF IdxInv

\* A batch is fetched from the chain as it is when the calls begin.
LEMMA StartBatchKeeps ==
  ASSUME IdxInv, StartBatch
  PROVE  IdxInv'
<1>1. /\ chain \in Seq(Block) /\ Len(chain) \in Nat /\ head \in Nat /\ cursor.number \in Nat
      /\ head <= Len(chain)
      /\ pc = "choosing" /\ cursor.number + 1 <= head /\ pc' = "fetching" /\ seen' = {chain}
      /\ UNCHANGED <<chainVars, storeVars, health, head, disturbed>>
  BY DEF StartBatch, IdxInv, IdxTypeOK, HeadIsCovered
<1>2. IdxTypeOK' /\ CursorIsTyped'
  BY <1>1 DEF IdxInv, IdxTypeOK, CursorIsTyped, chainVars, storeVars, Once
<1>3. CursorIsTopOfStore'
  BY <1>1 DEF IdxInv, CursorIsTopOfStore, storeVars, NoCursor
<1>4. HeadIsCovered'
  BY <1>1 DEF IdxInv, HeadIsCovered, chainVars, storeVars
<1>5. UndisturbedIsCanonical'
  <2>1. HashAt(chain, Len(chain)) = chain
    BY <1>1, SubSeqFull DEF HashAt
  <2>2. QED
    BY <1>1, <2>1 DEF IdxInv, UndisturbedIsCanonical, chainVars, storeVars, HashAt, LogsOf
<1>6. QED
  BY <1>2, <1>3, <1>4, <1>5 DEF IdxInv

\* A committed batch carries the cursor on, block by block.
LEMMA CommitBatchKeeps ==
  ASSUME IdxInv, CommitBatch
  PROVE  IdxInv'
<1>1. PICK batch \in Observed(Batch), c \in seen :
        /\ blocks' = [n \in DOMAIN blocks \cup Batch |->
                        IF n \in Batch THEN batch[n] ELSE blocks[n]]
        /\ logs' = logs \cup LogsOf(c, Batch)
        /\ cursor' = CursorAt(batch, Max(Batch))
  BY DEF CommitBatch
<1>2. /\ pc = "fetching" /\ pc' = "idle" /\ head' = 0 /\ seen' = {} /\ projected' = logs'
      /\ health' = Healthy
      /\ UNCHANGED <<chainVars, disturbed>>
  BY DEF CommitBatch, EndCycle
<1> DEFINE last == Max(Batch)
<1>3. last \in (cursor.number + 1)..head /\ Batch = (cursor.number + 1)..last
  BY <1>2, BatchIsAnInterval
<1>4. /\ cursor.number \in Nat /\ head \in Nat /\ head <= MaxHeight /\ head <= Len(chain)
      /\ chain \in Seq(Block)
      /\ DOMAIN blocks = 1..cursor.number /\ cursor.hash \in Seq(Block)
      /\ Len(cursor.hash) = cursor.number
      /\ \A n \in DOMAIN blocks : blocks[n] \in Seq(Block) /\ Len(blocks[n]) = n
      /\ \A d \in seen : d \in Seq(Block) /\ Len(d) \in head..Len(chain)
  BY <1>2 DEF IdxInv, HeadIsCovered, IdxTypeOK, CursorIsTyped, CursorIsTopOfStore
<1>5. \A n \in Batch : batch[n] \in Seq(Block) /\ Len(batch[n]) = n
  <2> SUFFICES ASSUME NEW n \in Batch PROVE batch[n] \in Seq(Block) /\ Len(batch[n]) = n
    OBVIOUS
  <2>1. PICK d \in seen : batch[n] = HashAt(d, n)
    BY ObservedBlocks
  <2>2. d \in Seq(Block) /\ n \in 0..Len(d)
    BY <1>3, <1>4
  <2>3. QED
    BY <2>1, <2>2, HashOfHash
<1>6. cursor' = [number |-> last, hash |-> batch[last]]
  BY <1>1 DEF CursorAt
<1>7. logs' = logs \cup LogsOf(c, Batch)
  BY <1>1
<1> HIDE DEF last
<1>8. /\ DOMAIN blocks' = 1..last
      /\ \A n \in 1..last : blocks'[n] = IF n \in Batch THEN batch[n] ELSE blocks[n]
  <2>1. (1..cursor.number) \cup Batch = 1..last
    BY <1>3, <1>4
  <2>2. QED
    BY <1>1, <1>4, <2>1
<1>9. last \in Batch /\ last \in 1..MaxHeight /\ last <= Len(chain) /\ cursor.number < last
  BY <1>3, <1>4, BoundsAreNaturals
<1>10. CursorIsTyped'
  BY <1>5, <1>6, <1>9 DEF CursorIsTyped
<1>11. LogsOf(c, Batch) \in SUBSET [tx : Txs, number : 1..last]
  <2>1. c \in Seq(Block)
    BY <1>4
  <2>2. \A n \in DOMAIN c : c[n] \in Block
    BY <2>1, ElementOfSeq, LenProperties
  <2>3. Batch \subseteq 1..last
    BY <1>3, <1>4
  <2> SUFFICES ASSUME NEW log \in LogsOf(c, Batch) PROVE log \in [tx : Txs, number : 1..last]
    OBVIOUS
  <2>4. PICK n \in {m \in Batch \cap DOMAIN c : c[m].tx # NoTx} :
          log = [tx |-> c[n].tx, number |-> n]
    BY DEF LogsOf
  <2>5. n \in 1..last /\ c[n] \in Block /\ c[n].tx # NoTx
    BY <2>2, <2>3
  <2>6. c[n].tx \in Txs
    BY <2>5 DEF Block
  <2>7. QED
    BY <2>4, <2>5, <2>6
<1>12. IdxTypeOK'
  <2>1. DOMAIN blocks' \subseteq 1..MaxHeight
    BY <1>8, <1>9, BoundsAreNaturals
  <2>2. \A n \in DOMAIN blocks' : blocks'[n] \in Seq(Block) /\ Len(blocks'[n]) = n
    BY <1>3, <1>4, <1>5, <1>8
  <2>3. cursor'.number \in 0..MaxHeight /\ Len(cursor'.hash) = cursor'.number
    BY <1>5, <1>6, <1>9
  <2>4. {logs', projected'} \subseteq SUBSET [tx : Txs, number : 1..MaxHeight]
    <3>1. logs \subseteq [tx : Txs, number : 1..MaxHeight]
      BY DEF IdxInv, IdxTypeOK
    <3>2. [tx : Txs, number : 1..last] \subseteq [tx : Txs, number : 1..MaxHeight]
      BY <1>9, BoundsAreNaturals
    <3>3. LogsOf(c, Batch) \subseteq [tx : Txs, number : 1..MaxHeight]
      BY <1>11, <3>2
    <3>4. QED
      BY <1>2, <1>7, <3>1, <3>3
  <2>5. head' \in 0..MaxHeight /\ seen' \subseteq Seq(Block)
    BY <1>2, BoundsAreNaturals
  <2>6. QED
    BY <1>2, <2>1, <2>2, <2>3, <2>4, <2>5 DEF IdxInv, IdxTypeOK, chainVars, Healthy, Once
<1>13. CursorIsTopOfStore'
  <2>1. cursor'.hash = blocks'[cursor'.number] /\ DOMAIN blocks' = 1..cursor'.number
    BY <1>6, <1>8, <1>9
  <2>2. \A log \in logs' : log.number <= cursor'.number
    <3>1. \A log \in logs : log.number \in Nat /\ log.number <= cursor.number
      BY DEF IdxInv, IdxTypeOK, CursorIsTopOfStore
    <3>2. \A log \in LogsOf(c, Batch) : log.number <= last
      BY <1>3, <1>4, LogsAreNumbered
    <3>3. QED
      BY <1>4, <1>6, <1>7, <1>9, <3>1, <3>2
  <2>3. QED
    BY <1>2, <2>1, <2>2 DEF CursorIsTopOfStore, NoCursor
<1>14. HeadIsCovered'
  BY <1>2, <1>6, <1>9 DEF HeadIsCovered, chainVars
<1>15. UndisturbedIsCanonical'
  <2> SUFFICES ASSUME ~disturbed
               PROVE  /\ \A n \in DOMAIN blocks' : blocks'[n] = HashAt(cursor'.hash, n)
                      /\ logs' = LogsOf(cursor'.hash, 1..cursor'.number)
    BY <1>2 DEF UndisturbedIsCanonical
  <2>1. /\ \A n \in DOMAIN blocks : blocks[n] = HashAt(cursor.hash, n)
        /\ logs = LogsOf(cursor.hash, 1..cursor.number)
        /\ cursor.hash = HashAt(chain, cursor.number)
        /\ c = HashAt(chain, Len(c))
    BY <1>2 DEF IdxInv, UndisturbedIsCanonical
  <2>2. \A n \in Batch : batch[n] = HashAt(chain, n)
    BY <1>3, <1>4, ObservedIsChain
  <2>3. cursor'.hash = HashAt(chain, last)
    BY <1>6, <1>9, <2>2
  <2>4. \A n \in 1..last : blocks'[n] = HashAt(chain, n)
    <3> SUFFICES ASSUME NEW n \in 1..last, n \notin Batch PROVE blocks[n] = HashAt(chain, n)
      BY <1>8, <2>2
    <3>1. n \in 1..cursor.number
      BY <1>3, <1>4
    <3>2. cursor.number \in 0..Len(chain) /\ n \in 0..cursor.number
      BY <1>4, <1>9, <3>1
    <3>3. HashAt(HashAt(chain, cursor.number), n) = HashAt(chain, n)
      BY <1>4, <3>2, HashOfHash
    <3>4. QED
      BY <1>4, <2>1, <3>1, <3>3
  <2>5. \A n \in DOMAIN blocks' : blocks'[n] = HashAt(cursor'.hash, n)
    <3> SUFFICES ASSUME NEW n \in 1..last PROVE HashAt(chain, n) = HashAt(HashAt(chain, last), n)
      BY <1>8, <2>3, <2>4
    <3>1. QED
      BY <1>4, <1>9, HashOfHash
  <2>6. logs' = LogsOf(chain, 1..last)
    <3>1. logs = LogsOf(chain, 1..cursor.number)
      <4>1. /\ chain \in Seq(Block) /\ cursor.number \in 0..Len(chain)
            /\ 1..cursor.number \in SUBSET (1..cursor.number)
        BY <1>4, <1>9
      <4>2. LogsOf(HashAt(chain, cursor.number), 1..cursor.number)
              = LogsOf(chain, 1..cursor.number)
        BY <4>1, LogsOfHash
      <4>3. QED
        BY <2>1, <4>2
    <3>2. LogsOf(HashAt(chain, Len(c)), Batch) = LogsOf(chain, Batch)
      <4>1. Len(c) \in 0..Len(chain) /\ Batch \in SUBSET (1..Len(c))
        BY <1>3, <1>4
      <4>2. QED
        BY <1>4, <4>1, LogsOfHash
    <3>3. LogsOf(chain, 1..last) = LogsOf(chain, 1..cursor.number) \cup LogsOf(chain, Batch)
      <4>1. 1..last = (1..cursor.number) \cup Batch
        BY <1>3, <1>4
      <4>2. QED
        BY <4>1 DEF LogsOf
    <3>4. QED
      BY <1>7, <2>1, <3>1, <3>2, <3>3
  <2>7. LogsOf(HashAt(chain, last), 1..last) = LogsOf(chain, 1..last)
    BY <1>4, <1>9, LogsOfHash
  <2>8. QED
    BY <1>6, <2>3, <2>5, <2>6, <2>7
<1>16. QED
  BY <1>10, <1>12, <1>13, <1>14, <1>15 DEF IdxInv

\* At first there is neither a chain nor a store.
LEMMA InitHolds ==
  ASSUME IdxInit
  PROVE  IdxInv
<1>1. IdxTypeOK /\ CursorIsTyped
  <2>1. <<>> \in Seq(Block) /\ Len(<<>>) = 0 /\ DOMAIN <<>> = {} /\ 0 \in 0..MaxHeight
        /\ 0 \in 0..MaxReorgs /\ 0 <= MaxHeight
    BY BoundsAreNaturals, EmptySeq
  <2>2. CursorIsTyped /\ cursor.number = 0 /\ cursor.hash = <<>>
    BY <2>1 DEF IdxInit, CursorIsTyped, NoCursor
  <2>3. QED
    BY <2>1, <2>2 DEF IdxInit, IdxTypeOK, NoHealth, Once
<1>2. CursorIsTopOfStore /\ HeadIsCovered
  BY EmptySeq DEF IdxInit, CursorIsTopOfStore, HeadIsCovered, NoCursor
<1>3. UndisturbedIsCanonical
  BY DEF IdxInit, UndisturbedIsCanonical, NoCursor, LogsOf
<1>4. QED
  BY <1>1, <1>2, <1>3 DEF IdxInv

\* What every step of the chain and of the worker preserves.
LEMMA StepKeeps ==
  ASSUME IdxInv, [IdxNext]_idxVars
  PROVE  IdxInv'
<1>1. CASE \E block \in Block : Extend(block)
  BY <1>1, ExtendKeeps
<1>2. CASE \E k \in 0..(Len(chain) - 1), fork \in Forks :
             \E txs \in [1..(Len(chain) - k) -> Txs \cup {NoTx}] : Reorg(k, fork, txs)
  BY <1>2, ReorgKeeps
<1>3. CASE GetHead
  BY <1>3, GetHeadKeeps
<1>4. CASE Reconciled
  BY <1>4, ReconciledKeeps
<1>5. CASE Rollback
  BY <1>5, RollbackKeeps
<1>6. CASE StartBatch
  BY <1>6, StartBatchKeeps
<1>7. CASE CommitBatch
  BY <1>7, CommitBatchKeeps
<1>8. CASE RpcFails \/ ReplayRequired \/ CaughtUp \/ RejectBatch \/ Restart
  <2>1. /\ EndCycle /\ UNCHANGED <<chainVars, storeVars, disturbed>>
        /\ health' \in {health, Healthy, Degraded("RPC_UNAVAILABLE"),
                        Degraded("REORG_REPLAY_REQUIRED")}
    BY <1>8 DEF RpcFails, ReplayRequired, CaughtUp, RejectBatch, Restart
  <2>2. QED
    BY <2>1, EndCycleKeeps
<1>9. CASE UNCHANGED idxVars
  <2>1. IdxTypeOK' /\ CursorIsTyped'
    BY <1>9 DEF IdxInv, IdxTypeOK, CursorIsTyped, idxVars, chainVars, storeVars, Once
  <2>2. CursorIsTopOfStore' /\ HeadIsCovered'
    BY <1>9 DEF IdxInv, CursorIsTopOfStore, HeadIsCovered, idxVars, chainVars, storeVars, NoCursor
  <2>3. UndisturbedIsCanonical'
    BY <1>9 DEF IdxInv, UndisturbedIsCanonical, idxVars, chainVars, storeVars, HashAt, LogsOf
  <2>4. QED
    BY <2>1, <2>2, <2>3 DEF IdxInv
<1>10. QED
  BY <1>1, <1>2, <1>3, <1>4, <1>5, <1>6, <1>7, <1>8, <1>9 DEF IdxNext

LEMMA InvHolds == IdxSpec => []IdxInv
<1>1. IdxInit => IdxInv
  BY InitHolds
<1>2. IdxInv /\ [IdxNext]_idxVars => IdxInv'
  BY StepKeeps
<1>3. QED
  BY <1>1, <1>2, PTL DEF IdxSpec

-----------------------------------------------------------------------------
(* The properties *)

\* The store, the worker and the chain keep to their types (db/store.ts, worker/run.ts).
THEOREM IndexerTypes == IdxSpec => []IdxTypeOK
<1>1. IdxInv => IdxTypeOK
  BY DEF IdxInv
<1>2. QED
  BY <1>1, InvHolds, PTL

\* Whatever is interrupted, and however the chain reorganises, the store holds exactly the
\* blocks up to its cursor (reconcileWindow, ingestBatch).
THEOREM StoreResumesWithoutGaps == IdxSpec => []CursorIsTopOfStore
<1>1. IdxInv => CursorIsTopOfStore
  BY DEF IdxInv
<1>2. QED
  BY <1>1, InvHolds, PTL

\* A step leaves the store alone unless it is a rollback or a committed batch.
LEMMA WhoWrites ==
  ASSUME [IdxNext]_idxVars, ~Rollback, ~CommitBatch
  PROVE  UNCHANGED storeVars
BY DEF IdxNext, idxVars, chainVars, storeVars, Extend, Reorg, GetHead, RpcFails, Reconciled,
  ReplayRequired, CaughtUp, StartBatch, RejectBatch, Restart

\* As long as the chain reorganises only between cycles, a rollback deletes no block that
\* is still canonical (reconcileWindow).
THEOREM RollbacksKeepTheCanonical == IdxSpec => OnlyOrphansAreDropped
<1> DEFINE OrphansOnly ==
      ~disturbed => \A n \in DOMAIN blocks \ DOMAIN blocks' : blocks[n] # HashAt(chain, n)
<1>1. ASSUME IdxInv, [IdxNext]_idxVars PROVE OrphansOnly
  <2>1. CASE ~Rollback /\ ~CommitBatch
    BY <1>1, <2>1, WhoWrites DEF storeVars
  <2>2. CASE CommitBatch
    BY <2>2 DEF CommitBatch
  <2>3. CASE Rollback
    <3> SUFFICES ASSUME ~disturbed, NEW n \in DOMAIN blocks, n \notin DOMAIN blocks',
                        blocks[n] = HashAt(chain, n)
                 PROVE  FALSE
      OBVIOUS
    <3>1. PICK window \in Observed(Window) :
            /\ Ancestor(window) # 0
            /\ blocks' = [m \in {k \in DOMAIN blocks : k <= Ancestor(window)} |-> blocks[m]]
      BY <2>3 DEF Rollback
    <3> DEFINE anc == Ancestor(window)
    <3>2. anc \in Window /\ anc \in 1..cursor.number /\ ~(n <= anc)
      BY <1>1, <3>1, AncestorMatches, WindowEndsAtCursor
    <3> HIDE DEF anc
    <3>3. n \in 1..cursor.number /\ cursor.number \in Nat /\ cursor.number <= head /\ head \in Nat
      BY <1>1, <2>3, NoCursorIsZero
         DEF IdxInv, IdxTypeOK, CursorIsTopOfStore, HeadIsCovered, Rollback
    <3>4. WindowStart <= anc /\ anc < n
      BY <3>2, <3>3, SizesArePositive DEF Window, WindowStart
    <3>5. n \in Window
      BY <1>1, <3>2, <3>3, <3>4, WindowEndsAtCursor, SizesArePositive DEF WindowStart
    <3>6. window[n] = HashAt(chain, n)
      BY <1>1, <3>3, <3>5, ObservedIsChain
    <3>7. n \in Matching(window)
      BY <3>5, <3>6, ObservedBlocks DEF Matching
    <3>8. QED
      BY <1>1, <3>2, <3>7, AncestorMatches DEF anc
  <2>4. QED
    BY <2>1, <2>2, <2>3
<1>2. QED
  BY <1>1, InvHolds, PTL DEF IdxSpec, OnlyOrphansAreDropped

\* While no common ancestor is in the window, no step writes to the store
\* (REORG_REPLAY_REQUIRED in reconcileWindow).
THEOREM NothingIsGuessed == IdxSpec => DeepReorgsFailClosed
<1>1. ASSUME IdxInv, [IdxNext]_idxVars, ~disturbed, TooDeep PROVE UNCHANGED storeVars
  <2>1. /\ cursor.number > 0 /\ cursor.number \in Window /\ cursor.number \in DOMAIN blocks
        /\ cursor.hash = blocks[cursor.number]
        /\ \A n \in Window : blocks[n] # HashAt(chain, n)
    BY <1>1, NoCursorIsZero, WindowEndsAtCursor DEF IdxInv, CursorIsTopOfStore, TooDeep
  <2>2. ~CommitBatch
    BY <1>1, <2>1 DEF CommitBatch, IdxInv, UndisturbedIsCanonical
  <2>3. ASSUME Rollback PROVE FALSE
    <3>1. PICK window \in Observed(Window) : Ancestor(window) # 0
      BY <2>3 DEF Rollback
    <3>2. /\ Ancestor(window) \in Window
          /\ window[Ancestor(window)] = blocks[Ancestor(window)]
      BY <1>1, <3>1, AncestorMatches DEF Matching
    <3>3. Ancestor(window) \in 0..head
      BY <1>1, <2>3, <3>2, WindowEndsAtCursor, NoCursorIsZero
         DEF IdxInv, IdxTypeOK, HeadIsCovered, Rollback
    <3>4. window[Ancestor(window)] = HashAt(chain, Ancestor(window))
      BY <1>1, <3>2, <3>3, ObservedIsChain
    <3>5. QED
      BY <2>1, <3>2, <3>4
  <2>4. QED
    BY <1>1, <2>2, <2>3, WhoWrites
<1>2. QED
  BY <1>1, InvHolds, PTL DEF IdxSpec, DeepReorgsFailClosed

-----------------------------------------------------------------------------

CursorIsOnChain == cursor.hash = HashAt(chain, cursor.number)

\* A store under a canonical cursor is canonical.
LEMMA CanonicalStore ==
  IdxInv /\ ~disturbed /\ CursorIsOnChain => StoreIsCanonical
<1> SUFFICES ASSUME IdxInv, ~disturbed, CursorIsOnChain PROVE StoreIsCanonical
  OBVIOUS
<1>1. /\ chain \in Seq(Block) /\ cursor.number \in 0..Len(chain)
      /\ DOMAIN blocks = 1..cursor.number
      /\ \A n \in DOMAIN blocks : blocks[n] = HashAt(HashAt(chain, cursor.number), n)
      /\ logs = LogsOf(HashAt(chain, cursor.number), 1..cursor.number)
  BY DEF IdxInv, IdxTypeOK, CursorIsTyped, CursorIsTopOfStore, HeadIsCovered,
    UndisturbedIsCanonical, CursorIsOnChain
<1>2. \A n \in DOMAIN blocks : n <= Len(chain) /\ blocks[n] = HashAt(chain, n)
  <2> SUFFICES ASSUME NEW n \in DOMAIN blocks
               PROVE  n <= Len(chain) /\ blocks[n] = HashAt(chain, n)
    OBVIOUS
  <2>1. n \in 0..cursor.number /\ n <= Len(chain)
    BY <1>1
  <2>2. HashAt(HashAt(chain, cursor.number), n) = HashAt(chain, n)
    BY <1>1, <2>1, HashOfHash
  <2>3. QED
    BY <1>1, <2>1, <2>2
<1>3. logs = LogsOf(chain, 1..cursor.number)
  BY <1>1, LogsOfHash
<1>4. QED
  BY <1>2, <1>3 DEF StoreIsCanonical

\* As long as the chain reorganises only between cycles, health is reported healthy only
\* of a store that holds the canonical blocks and logs (markHealth, ingestBatch).
THEOREM HealthIsEarned == IdxSpec => HealthyMeansCanonical
<1>1. ASSUME IdxInv, ~disturbed, CaughtUp PROVE ~disturbed' /\ CursorIsOnChain'
  BY <1>1 DEF CaughtUp, IdxInv, UndisturbedIsCanonical, CursorIsOnChain, chainVars, storeVars,
    HashAt
<1>2. ASSUME IdxInv, ~disturbed, CommitBatch PROVE ~disturbed' /\ CursorIsOnChain'
  <2>1. PICK batch \in Observed(Batch) : cursor' = CursorAt(batch, Max(Batch))
    BY <1>2 DEF CommitBatch
  <2>2. UNCHANGED <<chain, disturbed>> /\ pc = "fetching"
    BY <1>2 DEF CommitBatch, chainVars
  <2>3. Max(Batch) \in Batch /\ Max(Batch) \in 0..head
    BY <1>2, <2>2, BatchIsAnInterval, NoCursorIsZero DEF IdxInv, IdxTypeOK
  <2>4. batch[Max(Batch)] = HashAt(chain, Max(Batch))
    BY <1>2, <2>3, ObservedIsChain
  <2>5. QED
    BY <1>2, <2>1, <2>2, <2>4 DEF CursorAt, CursorIsOnChain, HashAt
<1>3. IdxInv /\ [IdxNext]_idxVars => IdxInv'
  BY StepKeeps
<1>4. QED
  BY <1>1, <1>2, <1>3, InvHolds, CanonicalStore, PTL DEF IdxSpec, HealthyMeansCanonical
=============================================================================
