--------------------------- MODULE ServiceProofs ---------------------------
(***************************************************************************)
(* The indexer's processes, for any number of them, any releases and any   *)
(* deaths and lost statements: the database is what schema_migrations says *)
(* it is, and the advisory lock keeps processes that start together from   *)
(* failing each other.  Then the read API next to the worker, for any      *)
(* events, requests, filters and page size: what the worker stores the     *)
(* DTOs accept, the parts of an answer agree, and paging is exact.         *)
(***************************************************************************)
EXTENDS ReadApi, SequenceTheorems, FiniteSetTheorems, NaturalsInduction, WellFoundedInduction,
  TLAPS

\* No version twice.
Distinct(scripts) ==
  \A i, j \in 1..Len(scripts) : scripts[i].version = scripts[j].version => i = j

\* Rows and scripts that tell the same.
Matches(rows, scripts) ==
  /\ scripts \in Seq(Migration)
  /\ Distinct(scripts)
  /\ DOMAIN rows = Versions(scripts)
  /\ \A i \in 1..Len(scripts) : rows[scripts[i].version] = scripts[i].checksum

\* A list has no version twice exactly if it has as many versions as entries.
LEMMA DistinctIsCounted ==
  ASSUME NEW s \in Seq(Migration)
  PROVE  Distinct(s) <=> Cardinality(Versions(s)) = Len(s)
<1> DEFINE f == [i \in 1..Len(s) |-> s[i].version]
<1>1. Len(s) \in Nat /\ DOMAIN s = 1..Len(s)
  BY LenProperties
<1>2. f \in Surjection(1..Len(s), Versions(s))
  BY <1>1 DEF Surjection, Versions
<1>3. IsFiniteSet(1..Len(s)) /\ Cardinality(1..Len(s)) = Len(s)
  BY <1>1, FS_Interval
<1>4. Cardinality(Versions(s)) = Len(s) <=> f \in Injection(1..Len(s), Versions(s))
  BY <1>2, <1>3, FS_Surjection
<1>5. f \in Injection(1..Len(s), Versions(s)) <=> Distinct(s)
  <2>1. f \in [1..Len(s) -> Versions(s)]
    BY <1>1 DEF Versions
  <2>2. f \in Injection(1..Len(s), Versions(s))
          <=> \A i, j \in 1..Len(s) : f[i] = f[j] => i = j
    BY <2>1 DEF Injection, IsInjective
  <2>3. QED
    BY <2>2 DEF Distinct
<1>6. QED
  BY <1>4, <1>5

\* What holds of one version more.
LEMMA AppendMatches ==
  ASSUME NEW rows, NEW s, Matches(rows, s), NEW m \in Migration, m.version \notin Versions(s)
  PROVE  Matches(WithRow(rows, m), Append(s, m))
<1> DEFINE t == Append(s, m)
<1>1. /\ s \in Seq(Migration) /\ Len(s) \in Nat /\ DOMAIN s = 1..Len(s)
      /\ t \in Seq(Migration) /\ Len(t) = Len(s) + 1
      /\ \A i \in 1..Len(s) : t[i] = s[i]
      /\ t[Len(s) + 1] = m /\ DOMAIN t = 1..Len(t)
  BY AppendProperties, LenProperties DEF Matches
<1> HIDE DEF t
<1>2. \A i \in 1..Len(t) : i \in 1..Len(s) \/ i = Len(s) + 1
  BY <1>1
<1>3. \A i \in 1..Len(s) : s[i].version # m.version
  BY <1>1 DEF Versions
<1>4. Distinct(t)
  BY <1>1, <1>2, <1>3 DEF Distinct, Matches
<1>5. Versions(t) = Versions(s) \cup {m.version}
  BY <1>1, <1>2 DEF Versions
<1>6. DOMAIN WithRow(rows, m) = Versions(t)
  BY <1>5 DEF WithRow, Matches
<1>7. \A i \in 1..Len(t) : WithRow(rows, m)[t[i].version] = t[i].checksum
  <2> SUFFICES ASSUME NEW i \in 1..Len(t) PROVE WithRow(rows, m)[t[i].version] = t[i].checksum
    OBVIOUS
  <2>1. CASE i = Len(s) + 1
    BY <1>1, <2>1 DEF WithRow
  <2>2. CASE i \in 1..Len(s)
    <3>1. t[i] = s[i] /\ s[i].version # m.version /\ s[i].version \in DOMAIN rows
      BY <1>1, <1>3, <2>2 DEF Versions, Matches
    <3>2. rows[s[i].version] = s[i].checksum
      BY <2>2 DEF Matches
    <3>3. QED
      BY <3>1, <3>2 DEF WithRow
  <2>3. QED
    BY <1>2, <2>1, <2>2
<1>8. QED
  BY <1>1, <1>4, <1>6, <1>7 DEF Matches, t

\* Two transactions' rows and scripts, one after the other.
LEMMA ConcatMatches ==
  ASSUME NEW rows, NEW s, Matches(rows, s), NEW more, NEW t, Matches(more, t),
         Versions(s) \cap Versions(t) = {}
  PROVE  Matches([v \in DOMAIN rows \cup DOMAIN more |->
                    IF v \in DOMAIN rows THEN rows[v] ELSE more[v]], s \o t)
<1> DEFINE u == s \o t
           all == [v \in DOMAIN rows \cup DOMAIN more |->
                     IF v \in DOMAIN rows THEN rows[v] ELSE more[v]]
<1>1. /\ s \in Seq(Migration) /\ Len(s) \in Nat /\ DOMAIN s = 1..Len(s)
      /\ t \in Seq(Migration) /\ Len(t) \in Nat /\ DOMAIN t = 1..Len(t)
      /\ u \in Seq(Migration) /\ Len(u) = Len(s) + Len(t) /\ DOMAIN u = 1..Len(u)
      /\ \A i \in 1..Len(s) : u[i] = s[i]
      /\ \A i \in 1..Len(t) : u[Len(s) + i] = t[i]
  BY ConcatProperties, LenProperties DEF Matches
<1> HIDE DEF u
<1>2. \A i \in 1..Len(u) : \/ i \in 1..Len(s)
                           \/ i - Len(s) \in 1..Len(t) /\ i = Len(s) + (i - Len(s))
  BY <1>1
<1>3. \A i \in 1..Len(s) : s[i].version \in Versions(s)
  BY <1>1 DEF Versions
<1>4. \A i \in 1..Len(t) : t[i].version \in Versions(t)
  BY <1>1 DEF Versions
<1>5. \A i \in 1..Len(u) : \/ i \in 1..Len(s) /\ u[i] = s[i] /\ u[i].version \in Versions(s)
                           \/ /\ i - Len(s) \in 1..Len(t) /\ u[i] = t[i - Len(s)]
                              /\ u[i].version \in Versions(t)
  BY <1>1, <1>2, <1>3, <1>4
<1>6. Distinct(u)
  <2> SUFFICES ASSUME NEW i \in 1..Len(u), NEW j \in 1..Len(u),
                      u[i].version = u[j].version
               PROVE  i = j
    BY DEF Distinct
  <2>1. CASE i \in 1..Len(s) /\ j \in 1..Len(s)
    BY <1>1, <2>1 DEF Distinct, Matches
  <2>2. CASE i \notin 1..Len(s) /\ j \notin 1..Len(s)
    <3>1. /\ i - Len(s) \in 1..Len(t) /\ u[i] = t[i - Len(s)]
          /\ j - Len(s) \in 1..Len(t) /\ u[j] = t[j - Len(s)]
      BY <1>5, <2>2
    <3>2. i - Len(s) = j - Len(s)
      BY <3>1 DEF Distinct, Matches
    <3>3. QED
      BY <1>1, <3>2
  <2>3. CASE (i \in 1..Len(s)) # (j \in 1..Len(s))
    BY <1>1, <1>5, <2>3
  <2>4. QED
    BY <2>1, <2>2, <2>3
<1>7. Versions(u) = Versions(s) \cup Versions(t)
  <2>1. Versions(u) \subseteq Versions(s) \cup Versions(t)
    <3>1. \A i \in 1..Len(u) : u[i].version \in Versions(s) \cup Versions(t)
      BY <1>5
    <3>2. Versions(u) = {u[i].version : i \in 1..Len(u)}
      BY <1>1 DEF Versions
    <3>3. QED
      BY <3>1, <3>2
  <2>2. Versions(s) \subseteq Versions(u)
    <3>1. 1..Len(s) \subseteq 1..Len(u)
      BY <1>1
    <3>2. QED
      BY <1>1, <3>1 DEF Versions
  <2>3. Versions(t) \subseteq Versions(u)
    <3>1. \A i \in 1..Len(t) : Len(s) + i \in DOMAIN u /\ u[Len(s) + i] = t[i]
      <4>1. \A i \in 1..Len(t) : Len(s) + i \in 1..(Len(s) + Len(t))
        BY <1>1
      <4>2. QED
        BY <1>1, <4>1
    <3>2. \A i \in DOMAIN t : t[i].version \in {u[j].version : j \in DOMAIN u}
      BY <1>1, <3>1
    <3>3. QED
      BY <3>2 DEF Versions
  <2>4. QED
    BY <2>1, <2>2, <2>3
<1>8. DOMAIN all = Versions(u)
  BY <1>7 DEF Matches
<1>9. \A i \in 1..Len(u) : all[u[i].version] = u[i].checksum
  <2> SUFFICES ASSUME NEW i \in 1..Len(u) PROVE all[u[i].version] = u[i].checksum
    OBVIOUS
  <2>1. CASE i \in 1..Len(s)
    <3>1. u[i] = s[i] /\ s[i].version \in DOMAIN rows /\ rows[s[i].version] = s[i].checksum
      BY <1>1, <1>3, <2>1 DEF Matches
    <3>2. QED
      BY <3>1
  <2>2. CASE i \notin 1..Len(s)
    <3>1. i - Len(s) \in 1..Len(t) /\ u[i] = t[i - Len(s)] /\ u[i].version \in Versions(t)
      BY <1>1, <1>4, <1>5, <2>2
    <3>2. u[i].version \notin DOMAIN rows /\ u[i].version \in DOMAIN more
      BY <3>1 DEF Matches
    <3>3. more[u[i].version] = u[i].checksum
      BY <3>1 DEF Matches
    <3>4. QED
      BY <3>2, <3>3
  <2>3. QED
    BY <2>1, <2>2
<1> HIDE DEF all
<1>10. Matches(all, u)
  BY <1>1, <1>6, <1>8, <1>9 DEF Matches
<1>11. QED
  BY <1>10 DEF all, u

-----------------------------------------------------------------------------
(* The invariant *)

Phases == {"down", "connecting", "locking", "discovering", "applying", "recording",
           "serving", "ending"}

StartTypes ==
  /\ phase \in [Services -> Phases]
  /\ release \in [Services -> Seq(Migration)]
  /\ DOMAIN txn = Services
  /\ DOMAIN exitCode = Services
  /\ DOMAIN faulted = Services
  /\ schema = [recorded |-> schema.recorded, scripts |-> schema.scripts]

OneHoldsTheLock ==
  \A p, q \in Services : phase[p] \in Locked /\ phase[q] \in Locked => p = q

\* What a process that holds the lock has read is still so.
ReadIsCurrent(p) ==
  /\ txn[p] = [applied |-> schema.recorded, next |-> txn[p].next,
               recorded |-> txn[p].recorded, scripts |-> txn[p].scripts]
  /\ txn[p].next \in 1..(Len(release[p]) + 1)

\* The scripts it has run come from the turns of the loop it has done.
RanFromRelease(p, scripts) ==
  /\ Matches(txn[p].recorded, scripts)
  /\ Versions(scripts) \cap DOMAIN schema.recorded = {}
  /\ \A v \in Versions(scripts) : \E i \in 1..(txn[p].next - 1) : release[p][i].version = v

TransactionIsFit(p) ==
  /\ phase[p] \notin {"applying", "recording"} => txn[p] = NoTxn
  /\ phase[p] \in {"locking", "discovering", "applying", "recording"} => Distinct(release[p])
  /\ phase[p] = "applying" => ReadIsCurrent(p) /\ RanFromRelease(p, txn[p].scripts)
  /\ phase[p] = "recording" =>
       /\ ReadIsCurrent(p)
       /\ txn[p].next <= Len(release[p])
       /\ release[p][txn[p].next].version \notin DOMAIN schema.recorded
       /\ \E before : /\ txn[p].scripts = Append(before, release[p][txn[p].next])
                      /\ RanFromRelease(p, before)

\* StartsUnlessItMust for one process.
RefusedForCause(p) ==
  /\ exitCode[p] = "MIGRATION_APPLY_FAILED" => faulted[p]
  /\ exitCode[p] = "MIGRATION_CHECKSUM_MISMATCH" =>
       \E m \in Range(release[p]) :
         m.version \in DOMAIN schema.recorded /\ schema.recorded[m.version] # m.checksum

CodeIsFresh(p) == phase[p] \notin {"ending", "down"} => exitCode[p] = "none"

ProcessIsFit(p) == TransactionIsFit(p) /\ RefusedForCause(p) /\ CodeIsFresh(p)

StartInv ==
  /\ StartTypes
  /\ Matches(schema.recorded, schema.scripts)
  /\ OneHoldsTheLock
  /\ \A p \in Services : ProcessIsFit(p)

-----------------------------------------------------------------------------

\* A step of one process leaves the others fit, if what it commits is more than there was
\* and nobody else holds the lock.
LEMMA OthersStayFit ==
  ASSUME StartInv, NEW q \in Services,
         phase'[q] = phase[q], release'[q] = release[q], txn'[q] = txn[q],
         exitCode'[q] = exitCode[q], faulted'[q] = faulted[q],
         \/ schema' = schema
         \/ /\ phase[q] \notin Locked
            /\ DOMAIN schema.recorded \subseteq DOMAIN schema'.recorded
            /\ \A v \in DOMAIN schema.recorded : schema'.recorded[v] = schema.recorded[v]
  PROVE  ProcessIsFit(q)'
<1>1. ProcessIsFit(q)
  BY DEF StartInv
<1>2. CASE schema' = schema
  BY <1>1, <1>2 DEF ProcessIsFit, TransactionIsFit, RefusedForCause, CodeIsFresh,
    ReadIsCurrent, RanFromRelease
<1>3. CASE /\ phase[q] \notin Locked
           /\ DOMAIN schema.recorded \subseteq DOMAIN schema'.recorded
           /\ \A v \in DOMAIN schema.recorded : schema'.recorded[v] = schema.recorded[v]
  BY <1>1, <1>3 DEF ProcessIsFit, TransactionIsFit, RefusedForCause, CodeIsFresh, Locked
<1>4. QED
  BY <1>2, <1>3

OthersStand(p) ==
  \A q \in Services \ {p} :
    /\ phase'[q] = phase[q] /\ release'[q] = release[q] /\ txn'[q] = txn[q]
    /\ exitCode'[q] = exitCode[q] /\ faulted'[q] = faulted[q]

SchemaGrows ==
  /\ Matches(schema'.recorded, schema'.scripts)
  /\ DOMAIN schema.recorded \subseteq DOMAIN schema'.recorded
  /\ \A v \in DOMAIN schema.recorded : schema'.recorded[v] = schema.recorded[v]

\* A step of one process: it takes the lock only when it is free, and writes to the
\* database only while it holds it.
LEMMA StepOfOne ==
  ASSUME StartInv, NEW p \in Services, StartTypes', OthersStand(p), ProcessIsFit(p)',
         phase'[p] \in Locked => phase[p] \in Locked \/ LockIsFree,
         schema' = schema \/ (phase[p] \in Locked /\ SchemaGrows)
  PROVE  StartInv'
<1>1. \A q \in Services : ProcessIsFit(q)'
  <2> SUFFICES ASSUME NEW q \in Services, q # p PROVE ProcessIsFit(q)'
    OBVIOUS
  <2>1. \/ schema' = schema
        \/ /\ phase[q] \notin Locked
           /\ DOMAIN schema.recorded \subseteq DOMAIN schema'.recorded
           /\ \A v \in DOMAIN schema.recorded : schema'.recorded[v] = schema.recorded[v]
    BY DEF StartInv, OneHoldsTheLock, SchemaGrows
  <2>2. QED
    BY <2>1, OthersStayFit DEF OthersStand
<1>2. OneHoldsTheLock'
  BY DEF StartInv, OneHoldsTheLock, OthersStand, LockIsFree
<1>3. Matches(schema'.recorded, schema'.scripts)
  BY DEF StartInv, SchemaGrows
<1>4. QED
  BY <1>1, <1>2, <1>3 DEF StartInv

-----------------------------------------------------------------------------

\* A start ends without having written anything.
LEMMA ExitKeeps ==
  ASSUME StartInv, NEW p \in Services, NEW code, Exit(p, code),
         NEW r \in Seq(Migration), release' = release \/ release' = [release EXCEPT ![p] = r],
         NEW f, faulted' = faulted \/ faulted' = [faulted EXCEPT ![p] = f],
         schema' = schema \/ (phase[p] \in Locked /\ SchemaGrows),
         schema' = [recorded |-> schema'.recorded, scripts |-> schema'.scripts],
         code = "MIGRATION_APPLY_FAILED" => faulted'[p],
         code = "MIGRATION_CHECKSUM_MISMATCH" =>
           \E m \in Range(release'[p]) :
             m.version \in DOMAIN schema'.recorded /\ schema'.recorded[m.version] # m.checksum
  PROVE  StartInv'
<1>1. /\ phase' = [phase EXCEPT ![p] = "ending"]
      /\ exitCode' = [exitCode EXCEPT ![p] = code]
      /\ txn' = [txn EXCEPT ![p] = NoTxn]
  BY DEF Exit, GoTo
<1>2. StartTypes' /\ OthersStand(p)
  <2>1. StartTypes
    BY DEF StartInv
  <2>2. /\ release' \in [Services -> Seq(Migration)] /\ DOMAIN faulted' = Services
        /\ \A q \in Services \ {p} : release'[q] = release[q] /\ faulted'[q] = faulted[q]
    <3>1. /\ release' \in [Services -> Seq(Migration)]
          /\ \A q \in Services \ {p} : release'[q] = release[q]
      <4>1. release \in [Services -> Seq(Migration)]
        BY <2>1 DEF StartTypes
      <4>2. CASE release' = release
        BY <4>1, <4>2
      <4>3. CASE release' = [release EXCEPT ![p] = r]
        BY <4>1, <4>3
      <4>4. QED
        BY <4>2, <4>3
    <3>2. /\ DOMAIN faulted' = Services
          /\ \A q \in Services \ {p} : faulted'[q] = faulted[q]
      BY <2>1 DEF StartTypes
    <3>3. QED
      BY <3>1, <3>2
  <2>3. /\ phase' \in [Services -> Phases] /\ DOMAIN txn' = Services
        /\ DOMAIN exitCode' = Services
        /\ \A q \in Services \ {p} :
             phase'[q] = phase[q] /\ txn'[q] = txn[q] /\ exitCode'[q] = exitCode[q]
    BY <1>1, <2>1 DEF StartTypes, Phases
  <2>4. QED
    BY <2>2, <2>3 DEF StartTypes, OthersStand
<1>3. phase'[p] = "ending" /\ exitCode'[p] = code /\ txn'[p] = NoTxn
  BY <1>1 DEF StartInv, StartTypes
<1>4. ProcessIsFit(p)'
  BY <1>3 DEF ProcessIsFit, TransactionIsFit, RefusedForCause, CodeIsFresh
<1>5. QED
  BY <1>2, <1>3, <1>4, StepOfOne DEF Locked

LEMMA EndPoolKeeps ==
  ASSUME StartInv, NEW p \in Services, EndPool(p)
  PROVE  StartInv'
<1>1. /\ phase[p] = "ending" /\ phase' = [phase EXCEPT ![p] = "down"]
      /\ UNCHANGED <<schema, release, txn, exitCode, faulted>>
  BY DEF EndPool, GoTo
<1>2. StartTypes' /\ OthersStand(p) /\ phase'[p] = "down"
  BY <1>1 DEF StartInv, StartTypes, OthersStand, Phases
<1>3. ProcessIsFit(p)
  BY DEF StartInv
<1>4. ProcessIsFit(p)'
  BY <1>1, <1>2, <1>3 DEF ProcessIsFit, TransactionIsFit, RefusedForCause, CodeIsFresh
<1>5. QED
  BY <1>1, <1>2, <1>4, StepOfOne DEF Locked

LEMMA LaunchKeeps ==
  ASSUME StartInv, NEW p \in Services, NEW migrations \in Releases, Launch(p, migrations)
  PROVE  StartInv'
<1>1. /\ phase[p] = "down" /\ release' = [release EXCEPT ![p] = migrations]
      /\ faulted' = [faulted EXCEPT ![p] = FALSE] /\ schema' = schema
      /\ migrations \in Seq(Migration)
  BY ReleasesAreLists DEF Launch
<1>2. CASE ConfigError(environment) # "none"
  <2>1. /\ Exit(p, ConfigError(environment))
        /\ ConfigError(environment) # "MIGRATION_APPLY_FAILED"
        /\ ConfigError(environment) # "MIGRATION_CHECKSUM_MISMATCH"
    BY <1>2 DEF Launch, ConfigError
  <2>2. schema' = [recorded |-> schema'.recorded, scripts |-> schema'.scripts]
    BY <1>1 DEF StartInv, StartTypes
  <2>3. QED
    BY <1>1, <2>1, <2>2, ExitKeeps
<1>3. CASE ConfigError(environment) = "none"
  <2>1. /\ phase' = [phase EXCEPT ![p] = "connecting"] /\ txn' = txn
        /\ exitCode' = [exitCode EXCEPT ![p] = "none"]
    BY <1>3 DEF Launch, GoTo
  <2>2. StartTypes' /\ OthersStand(p) /\ phase'[p] = "connecting" /\ exitCode'[p] = "none"
    BY <1>1, <2>1 DEF StartInv, StartTypes, OthersStand, Phases
  <2>3. ProcessIsFit(p)
    BY DEF StartInv
  <2>4. ProcessIsFit(p)'
    BY <1>1, <2>1, <2>2, <2>3
       DEF ProcessIsFit, TransactionIsFit, RefusedForCause, CodeIsFresh
  <2>5. QED
    BY <1>1, <2>2, <2>4, StepOfOne DEF Locked
<1>4. QED
  BY <1>2, <1>3

LEMMA ConnectKeeps ==
  ASSUME StartInv, NEW p \in Services, Connect(p)
  PROVE  StartInv'
<1>1. phase[p] = "connecting" /\ UNCHANGED <<schema, release, faulted>>
  BY DEF Connect
<1>2. CASE ~SetIsValid(release[p])
  <2>1. Exit(p, "MIGRATION_SET_INVALID")
    BY <1>2 DEF Connect
  <2>2. schema' = [recorded |-> schema'.recorded, scripts |-> schema'.scripts]
    BY <1>1 DEF StartInv, StartTypes
  <2>3. release[p] \in Seq(Migration)
    BY DEF StartInv, StartTypes
  <2>4. QED
    BY <1>1, <2>1, <2>2, <2>3, ExitKeeps
<1>3. CASE SetIsValid(release[p])
  <2>1. phase' = [phase EXCEPT ![p] = "locking"] /\ UNCHANGED <<txn, exitCode>>
    BY <1>3 DEF Connect, GoTo
  <2>2. StartTypes' /\ OthersStand(p) /\ phase'[p] = "locking"
    BY <1>1, <2>1 DEF StartInv, StartTypes, OthersStand, Phases
  <2>3. Distinct(release[p])
    <3>1. release[p] \in Seq(Migration)
      BY DEF StartInv, StartTypes
    <3>2. QED
      BY <1>3, <3>1, DistinctIsCounted DEF SetIsValid
  <2>4. ProcessIsFit(p)
    BY DEF StartInv
  <2>5. ProcessIsFit(p)'
    BY <1>1, <2>1, <2>2, <2>3, <2>4
       DEF ProcessIsFit, TransactionIsFit, RefusedForCause, CodeIsFresh, Distinct
  <2>6. QED
    BY <1>1, <2>2, <2>5, StepOfOne DEF Locked
<1>4. QED
  BY <1>2, <1>3

LEMMA AcquireLockKeeps ==
  ASSUME StartInv, NEW p \in Services, AcquireLock(p)
  PROVE  StartInv'
<1>1. /\ phase[p] = "locking" /\ LockIsFree /\ phase' = [phase EXCEPT ![p] = "discovering"]
      /\ UNCHANGED <<schema, release, txn, exitCode, faulted>>
  BY DEF AcquireLock, GoTo
<1>2. StartTypes' /\ OthersStand(p) /\ phase'[p] = "discovering"
  BY <1>1 DEF StartInv, StartTypes, OthersStand, Phases
<1>3. ProcessIsFit(p)
  BY DEF StartInv
<1>4. ProcessIsFit(p)'
  BY <1>1, <1>2, <1>3
     DEF ProcessIsFit, TransactionIsFit, RefusedForCause, CodeIsFresh, Distinct
<1>5. QED
  BY <1>1, <1>2, <1>4, StepOfOne

LEMMA DiscoverKeeps ==
  ASSUME StartInv, NEW p \in Services, Discover(p)
  PROVE  StartInv'
<1>1. /\ phase[p] = "discovering" /\ phase' = [phase EXCEPT ![p] = "applying"]
      /\ txn' = [txn EXCEPT ![p].applied = schema.recorded]
      /\ UNCHANGED <<schema, release, exitCode, faulted>>
  BY DEF Discover, GoTo
<1>2. ProcessIsFit(p) /\ txn[p] = NoTxn /\ Distinct(release[p]) /\ release[p] \in Seq(Migration)
  BY <1>1 DEF StartInv, StartTypes, ProcessIsFit, TransactionIsFit
<1>3. StartTypes' /\ OthersStand(p) /\ phase'[p] = "applying"
  BY <1>1 DEF StartInv, StartTypes, OthersStand, Phases
<1>4. txn'[p] = [applied |-> schema.recorded, next |-> 1, recorded |-> <<>>, scripts |-> <<>>]
  <2>1. txn'[p] = [txn[p] EXCEPT !.applied = schema.recorded]
    BY <1>1 DEF StartInv, StartTypes
  <2>2. QED
    BY <1>2, <2>1 DEF NoTxn
<1>5. ReadIsCurrent(p)'
  BY <1>1, <1>2, <1>4, LenProperties DEF ReadIsCurrent
<1>6. RanFromRelease(p, txn[p].scripts)'
  <2>1. Matches(<<>>, <<>>) /\ Versions(<<>>) = {}
    BY EmptySeq DEF Matches, Distinct, Versions
  <2>2. QED
    BY <1>4, <2>1 DEF RanFromRelease
<1>7. ProcessIsFit(p)'
  BY <1>1, <1>2, <1>3, <1>5, <1>6
     DEF ProcessIsFit, TransactionIsFit, RefusedForCause, CodeIsFresh, Distinct
<1>8. QED
  BY <1>1, <1>3, <1>7, StepOfOne DEF Locked

\* One turn of the loop.  What the process has read is current, so a version that it does
\* not find has not been run either.
LEMMA ApplyMigrationKeeps ==
  ASSUME StartInv, NEW p \in Services, ApplyMigration(p)
  PROVE  StartInv'
<1> DEFINE m == release[p][txn[p].next]
           n == txn[p].next
<1>1. /\ phase[p] = "applying" /\ n <= Len(release[p])
      /\ UNCHANGED <<schema, release, environment, faulted>>
  BY DEF ApplyMigration
<1>2. /\ StartTypes /\ ProcessIsFit(p) /\ ReadIsCurrent(p) /\ RanFromRelease(p, txn[p].scripts)
      /\ Distinct(release[p]) /\ release[p] \in Seq(Migration) /\ Len(release[p]) \in Nat
      /\ Matches(schema.recorded, schema.scripts)
  BY <1>1, LenProperties DEF StartInv, StartTypes, ProcessIsFit, TransactionIsFit
<1>3. /\ n \in 1..Len(release[p]) /\ txn[p].applied = schema.recorded
      /\ m \in Migration /\ m \in Range(release[p])
  <2>1. n \in 1..Len(release[p]) /\ txn[p].applied = schema.recorded
    BY <1>1, <1>2 DEF ReadIsCurrent
  <2>2. QED
    BY <1>2, <2>1 DEF Range
<1>4. schema' = [recorded |-> schema'.recorded, scripts |-> schema'.scripts]
  BY <1>1, <1>2 DEF StartTypes
<1>5. CASE m.version \in DOMAIN schema.recorded /\ schema.recorded[m.version] # m.checksum
  <2>1. Exit(p, "MIGRATION_CHECKSUM_MISMATCH")
    BY <1>3, <1>5 DEF ApplyMigration
  <2>2. \E k \in Range(release'[p]) :
          k.version \in DOMAIN schema'.recorded /\ schema'.recorded[k.version] # k.checksum
    BY <1>1, <1>3, <1>5
  <2>3. QED
    BY <1>1, <1>2, <1>4, <2>1, <2>2, ExitKeeps
<1>6. CASE m.version \in DOMAIN schema.recorded /\ schema.recorded[m.version] = m.checksum
  <2>1. txn' = [txn EXCEPT ![p].next = @ + 1] /\ UNCHANGED <<phase, exitCode>>
    BY <1>3, <1>6 DEF ApplyMigration
  <2>2. /\ txn'[p] = [applied |-> schema.recorded, next |-> n + 1,
                      recorded |-> txn[p].recorded, scripts |-> txn[p].scripts]
        /\ DOMAIN txn' = Services /\ \A q \in Services \ {p} : txn'[q] = txn[q]
    <3>1. txn'[p] = [txn[p] EXCEPT !.next = n + 1]
      BY <1>2, <2>1 DEF StartTypes
    <3>2. txn[p] = [applied |-> schema.recorded, next |-> n,
                    recorded |-> txn[p].recorded, scripts |-> txn[p].scripts]
      BY <1>2 DEF ReadIsCurrent
    <3>3. txn'[p] = [applied |-> schema.recorded, next |-> n + 1,
                     recorded |-> txn[p].recorded, scripts |-> txn[p].scripts]
      BY <3>1, <3>2
    <3>4. QED
      BY <1>2, <2>1, <3>3 DEF StartTypes
  <2>3. StartTypes' /\ OthersStand(p)
    BY <1>1, <1>2, <2>1, <2>2 DEF StartTypes, OthersStand
  <2>4. ReadIsCurrent(p)'
    BY <1>1, <1>2, <1>3, <2>2 DEF ReadIsCurrent
  <2>5. RanFromRelease(p, txn[p].scripts)'
    <3>1. \A v \in Versions(txn[p].scripts) : \E i \in 1..n : release[p][i].version = v
      BY <1>2, <1>3 DEF RanFromRelease
    <3>2. 1..n = 1..(txn'[p].next - 1)
      BY <1>3, <2>2
    <3>3. txn'[p].scripts = txn[p].scripts /\ txn'[p].recorded = txn[p].recorded
      BY <2>2
    <3>4. /\ Matches(txn'[p].recorded, txn'[p].scripts)
          /\ Versions(txn'[p].scripts) \cap DOMAIN schema'.recorded = {}
      BY <1>1, <1>2, <3>3 DEF RanFromRelease
    <3>5. \A v \in Versions(txn'[p].scripts) :
            \E i \in 1..(txn'[p].next - 1) : release'[p][i].version = v
      BY <1>1, <3>1, <3>2, <3>3
    <3>6. QED
      BY <3>4, <3>5 DEF RanFromRelease
  <2>6. ProcessIsFit(p)'
    BY <1>1, <1>2, <2>1, <2>4, <2>5
       DEF ProcessIsFit, TransactionIsFit, RefusedForCause, CodeIsFresh, Distinct
  <2>7. QED
    BY <1>1, <2>1, <2>3, <2>6, StepOfOne DEF Locked
<1>7. CASE m.version \notin DOMAIN schema.recorded
  <2>1. m.version \notin Versions(schema.scripts)
    BY <1>2, <1>7 DEF Matches
  <2>2. /\ txn' = [txn EXCEPT ![p].scripts = Append(@, m)]
        /\ phase' = [phase EXCEPT ![p] = "recording"] /\ UNCHANGED exitCode
    BY <1>3, <1>7, <2>1 DEF ApplyMigration, GoTo
  <2>3. /\ txn'[p] = [applied |-> schema.recorded, next |-> n,
                      recorded |-> txn[p].recorded, scripts |-> Append(txn[p].scripts, m)]
        /\ DOMAIN txn' = Services /\ \A q \in Services \ {p} : txn'[q] = txn[q]
    <3>1. txn'[p] = [txn[p] EXCEPT !.scripts = Append(txn[p].scripts, m)]
      BY <1>2, <2>2 DEF StartTypes
    <3>2. txn[p] = [applied |-> schema.recorded, next |-> n,
                    recorded |-> txn[p].recorded, scripts |-> txn[p].scripts]
      BY <1>2 DEF ReadIsCurrent
    <3>3. txn'[p] = [applied |-> schema.recorded, next |-> n,
                     recorded |-> txn[p].recorded, scripts |-> Append(txn[p].scripts, m)]
      <4>1. ASSUME NEW applied, NEW recorded, NEW scripts, NEW more
            PROVE  [[applied |-> applied, next |-> n, recorded |-> recorded,
                     scripts |-> scripts] EXCEPT !.scripts = more]
                     = [applied |-> applied, next |-> n, recorded |-> recorded,
                        scripts |-> more]
        OBVIOUS
      <4>2. QED
        BY <3>1, <3>2, <4>1
    <3>4. DOMAIN txn' = Services /\ \A q \in Services \ {p} : txn'[q] = txn[q]
      BY <1>2, <2>2 DEF StartTypes
    <3>5. QED
      BY <3>3, <3>4
  <2>4. StartTypes' /\ OthersStand(p) /\ phase'[p] = "recording"
    BY <1>1, <1>2, <2>2, <2>3 DEF StartTypes, OthersStand, Phases
  <2>5. ReadIsCurrent(p)'
    BY <1>1, <1>2, <1>3, <2>3 DEF ReadIsCurrent
  <2>6. PICK before : before = txn[p].scripts
    OBVIOUS
  <2>7. RanFromRelease(p, before)'
    BY <1>1, <1>2, <2>3, <2>6 DEF RanFromRelease
  <2>8. txn'[p].scripts = Append(before, release'[p][txn'[p].next])
    BY <1>1, <2>3, <2>6
  <2>9. /\ txn'[p].next <= Len(release'[p])
        /\ release'[p][txn'[p].next].version \notin DOMAIN schema'.recorded
    BY <1>1, <1>7, <2>3
  <2>10. ProcessIsFit(p)'
    <3>1. TransactionIsFit(p)'
      BY <1>1, <1>2, <2>4, <2>5, <2>7, <2>8, <2>9 DEF TransactionIsFit, Distinct
    <3>2. (RefusedForCause(p) /\ CodeIsFresh(p))'
      BY <1>1, <1>2, <2>2, <2>4 DEF ProcessIsFit, RefusedForCause, CodeIsFresh
    <3>3. QED
      BY <3>1, <3>2 DEF ProcessIsFit
  <2>11. QED
    BY <1>1, <2>4, <2>10, StepOfOne DEF Locked
<1>8. QED
  BY <1>5, <1>6, <1>7

\* A script that has been run is recorded; its version was in none before it, for a
\* release has no version twice.
LEMMA RecordMigrationKeeps ==
  ASSUME StartInv, NEW p \in Services, RecordMigration(p)
  PROVE  StartInv'
<1> DEFINE n == txn[p].next
           m == release[p][n]
<1>1. /\ phase[p] = "recording" /\ phase' = [phase EXCEPT ![p] = "applying"]
      /\ txn' = [txn EXCEPT ![p].recorded = WithRow(@, m), ![p].next = @ + 1]
      /\ UNCHANGED <<schema, release, exitCode, faulted>>
  BY DEF RecordMigration, GoTo
<1>2. /\ StartTypes /\ ProcessIsFit(p) /\ ReadIsCurrent(p) /\ Distinct(release[p])
      /\ release[p] \in Seq(Migration) /\ Len(release[p]) \in Nat
      /\ n <= Len(release[p]) /\ m.version \notin DOMAIN schema.recorded
  BY <1>1, LenProperties DEF StartInv, StartTypes, ProcessIsFit, TransactionIsFit
<1>3. PICK before : /\ txn[p].scripts = Append(before, m)
                    /\ RanFromRelease(p, before)
  BY <1>1 DEF StartInv, ProcessIsFit, TransactionIsFit
<1>4. n \in 1..Len(release[p]) /\ m \in Migration
  <2>1. n \in 1..Len(release[p])
    BY <1>2 DEF ReadIsCurrent
  <2>2. QED
    BY <1>2, <2>1
<1>5. txn'[p] = [applied |-> schema.recorded, next |-> n + 1,
                 recorded |-> WithRow(txn[p].recorded, m), scripts |-> Append(before, m)]
  <2>1. txn'[p] = [[txn[p] EXCEPT !.recorded = WithRow(txn[p].recorded, m)] EXCEPT !.next = n + 1]
    BY <1>1, <1>2 DEF StartTypes
  <2>2. txn[p] = [applied |-> schema.recorded, next |-> n,
                  recorded |-> txn[p].recorded, scripts |-> Append(before, m)]
    BY <1>2, <1>3 DEF ReadIsCurrent
  <2> HIDE DEF n, m
  <2>3. [txn[p] EXCEPT !.recorded = WithRow(txn[p].recorded, m)]
          = [applied |-> schema.recorded, next |-> n,
             recorded |-> WithRow(txn[p].recorded, m), scripts |-> Append(before, m)]
    BY <2>2
  <2>4. QED
    BY <2>1, <2>3
<1>6. StartTypes' /\ OthersStand(p) /\ phase'[p] = "applying"
  BY <1>1, <1>2 DEF StartTypes, OthersStand, Phases
<1>7. m.version \notin Versions(before)
  <2> SUFFICES ASSUME m.version \in Versions(before) PROVE FALSE
    OBVIOUS
  <2>1. PICK i \in 1..(n - 1) : release[p][i].version = m.version
    BY <1>3 DEF RanFromRelease
  <2>2. i \in 1..Len(release[p]) /\ i # n
    BY <1>4
  <2>3. QED
    BY <1>2, <1>4, <2>1, <2>2 DEF Distinct
<1>8. Matches(txn'[p].recorded, txn'[p].scripts)
  BY <1>3, <1>4, <1>5, <1>7, AppendMatches DEF RanFromRelease
<1>9. Versions(txn'[p].scripts) = Versions(before) \cup {m.version}
  <2>1. DOMAIN WithRow(txn[p].recorded, m) = Versions(before) \cup {m.version}
    BY <1>3 DEF WithRow, RanFromRelease, Matches
  <2>2. DOMAIN txn'[p].recorded = Versions(txn'[p].scripts)
    BY <1>8 DEF Matches
  <2>3. txn'[p].recorded = WithRow(txn[p].recorded, m)
    BY <1>5
  <2>4. QED
    BY <2>1, <2>2, <2>3
<1>10. RanFromRelease(p, txn[p].scripts)'
  <2>1. Versions(txn'[p].scripts) \cap DOMAIN schema'.recorded = {}
    BY <1>1, <1>2, <1>3, <1>9 DEF RanFromRelease
  <2>2. \A v \in Versions(before) : \E i \in 1..n : release[p][i].version = v
    BY <1>3, <1>4 DEF RanFromRelease
  <2>3. \A v \in Versions(before) \cup {m.version} : \E i \in 1..n : release[p][i].version = v
    BY <1>4, <2>2
  <2>4. 1..(txn'[p].next - 1) = 1..n
    BY <1>4, <1>5
  <2>5. \A v \in Versions(txn'[p].scripts) :
          \E i \in 1..(txn'[p].next - 1) : release'[p][i].version = v
    BY <1>1, <1>9, <2>3, <2>4
  <2>6. QED
    BY <1>8, <2>1, <2>5 DEF RanFromRelease
<1>11. ReadIsCurrent(p)'
  <2>1. txn'[p].next = n + 1 /\ n + 1 \in 1..(Len(release'[p]) + 1)
    BY <1>1, <1>2, <1>4, <1>5
  <2>2. txn'[p] = [applied |-> schema'.recorded, next |-> txn'[p].next,
                   recorded |-> txn'[p].recorded, scripts |-> txn'[p].scripts]
    <3> HIDE DEF n, m
    <3>1. /\ txn'[p].next = n + 1 /\ txn'[p].recorded = WithRow(txn[p].recorded, m)
          /\ txn'[p].scripts = Append(before, m)
      BY <1>5
    <3>2. schema'.recorded = schema.recorded
      BY <1>1
    <3>3. QED
      BY <1>5, <3>1, <3>2
  <2>3. QED
    BY <2>1, <2>2 DEF ReadIsCurrent
<1>12. ProcessIsFit(p)'
  <2>1. TransactionIsFit(p)'
    BY <1>1, <1>2, <1>6, <1>10, <1>11 DEF TransactionIsFit, Distinct
  <2>2. (RefusedForCause(p) /\ CodeIsFresh(p))'
    BY <1>1, <1>2, <1>6 DEF ProcessIsFit, RefusedForCause, CodeIsFresh
  <2>3. QED
    BY <2>1, <2>2 DEF ProcessIsFit
<1>13. QED
  BY <1>1, <1>6, <1>12, StepOfOne DEF Locked

\* What a transaction commits fits what is there.
LEMMA CommittedGrows ==
  ASSUME StartInv, NEW p \in Services, phase[p] = "applying", schema' = Committed(p)
  PROVE  SchemaGrows /\ schema' = [recorded |-> schema'.recorded, scripts |-> schema'.scripts]
<1> DEFINE all == [v \in DOMAIN schema.recorded \cup DOMAIN txn[p].recorded |->
                     IF v \in DOMAIN schema.recorded THEN schema.recorded[v]
                     ELSE txn[p].recorded[v]]
<1>1. RanFromRelease(p, txn[p].scripts) /\ Matches(schema.recorded, schema.scripts)
  BY DEF StartInv, ProcessIsFit, TransactionIsFit
<1>2. Versions(schema.scripts) \cap Versions(txn[p].scripts) = {}
  BY <1>1 DEF RanFromRelease, Matches
<1>3. Matches(all, schema.scripts \o txn[p].scripts)
  BY <1>1, <1>2, ConcatMatches DEF RanFromRelease
<1>4. schema' = [recorded |-> all, scripts |-> schema.scripts \o txn[p].scripts]
  BY DEF Committed
<1>5. /\ DOMAIN schema.recorded \subseteq DOMAIN all
      /\ \A v \in DOMAIN schema.recorded : all[v] = schema.recorded[v]
  OBVIOUS
<1> HIDE DEF all
<1>6. QED
  BY <1>3, <1>4, <1>5 DEF SchemaGrows

LEMMA CommitMigrationsKeeps ==
  ASSUME StartInv, NEW p \in Services, CommitMigrations(p)
  PROVE  StartInv'
<1>1. /\ phase[p] = "applying" /\ schema' = Committed(p)
      /\ txn' = [txn EXCEPT ![p] = NoTxn] /\ release' = [release EXCEPT ![p] = <<>>]
      /\ phase' = [phase EXCEPT ![p] = "serving"] /\ UNCHANGED <<exitCode, faulted>>
  BY DEF CommitMigrations, GoTo
<1>2. SchemaGrows /\ schema' = [recorded |-> schema'.recorded, scripts |-> schema'.scripts]
  BY <1>1, CommittedGrows
<1>3. StartTypes /\ exitCode[p] = "none" /\ <<>> \in Seq(Migration)
  BY <1>1, EmptySeq DEF StartInv, ProcessIsFit, CodeIsFresh
<1>4. StartTypes' /\ OthersStand(p) /\ phase'[p] = "serving" /\ txn'[p] = NoTxn
  BY <1>1, <1>2, <1>3 DEF StartTypes, OthersStand, Phases
<1>5. ProcessIsFit(p)'
  BY <1>1, <1>3, <1>4 DEF ProcessIsFit, TransactionIsFit, RefusedForCause, CodeIsFresh
<1>6. QED
  BY <1>1, <1>2, <1>4, <1>5, StepOfOne DEF Locked

LEMMA StatementFailsKeeps ==
  ASSUME StartInv, NEW p \in Services, StatementFails(p)
  PROVE  StartInv'
<1> DEFINE code == IF phase[p] = "connecting" THEN "START_FAILED" ELSE "MIGRATION_APPLY_FAILED"
<1>1. /\ Exit(p, code) /\ faulted' = [faulted EXCEPT ![p] = TRUE] /\ release' = release
      /\ schema' \in AfterFailure(p)
  BY DEF StatementFails
<1>2. StartTypes /\ release[p] \in Seq(Migration) /\ faulted'[p]
  BY <1>1 DEF StartInv, StartTypes
<1>3. /\ schema' = schema \/ (phase[p] \in Locked /\ SchemaGrows)
      /\ schema' = [recorded |-> schema'.recorded, scripts |-> schema'.scripts]
  <2>1. CASE schema' = schema
    BY <1>2, <2>1 DEF StartTypes
  <2>2. CASE schema' # schema
    <3>1. phase[p] = "applying" /\ schema' = Committed(p)
      BY <1>1, <2>2 DEF AfterFailure
    <3>2. QED
      BY <3>1, CommittedGrows DEF Locked
  <2>3. QED
    BY <2>1, <2>2
<1>4. code # "MIGRATION_CHECKSUM_MISMATCH"
  OBVIOUS
<1>5. QED
  BY <1>1, <1>2, <1>3, <1>4, ExitKeeps

LEMMA CrashKeeps ==
  ASSUME StartInv, NEW p \in Services, Crash(p)
  PROVE  StartInv'
<1>1. /\ phase' = [phase EXCEPT ![p] = "down"] /\ exitCode' = [exitCode EXCEPT ![p] = "none"]
      /\ release' = [release EXCEPT ![p] = <<>>] /\ txn' = [txn EXCEPT ![p] = NoTxn]
      /\ UNCHANGED <<schema, faulted>>
  BY DEF Crash, GoTo
<1>2. StartTypes /\ <<>> \in Seq(Migration)
  BY EmptySeq DEF StartInv
<1>3. /\ StartTypes' /\ OthersStand(p) /\ phase'[p] = "down" /\ txn'[p] = NoTxn
      /\ exitCode'[p] = "none"
  BY <1>1, <1>2 DEF StartTypes, OthersStand, Phases
<1>4. ProcessIsFit(p)'
  BY <1>3 DEF ProcessIsFit, TransactionIsFit, RefusedForCause, CodeIsFresh
<1>5. QED
  BY <1>1, <1>3, <1>4, StepOfOne DEF Locked

LEMMA StartStep ==
  ASSUME StartInv, [StartNext]_startVars
  PROVE  StartInv'
<1>1. CASE UNCHANGED startVars
  <2>1. UNCHANGED <<schema, phase, release, txn, exitCode, faulted>>
    BY <1>1 DEF startVars
  <2>2. StartTypes' /\ OneHoldsTheLock' /\ Matches(schema'.recorded, schema'.scripts)
    BY <2>1 DEF StartInv, StartTypes, OneHoldsTheLock
  <2>3. \A q \in Services : ProcessIsFit(q)'
    BY <2>1, OthersStayFit
  <2>4. QED
    BY <2>2, <2>3 DEF StartInv
<1>2. ASSUME NEW p \in Services, NEW migrations \in Releases, Launch(p, migrations)
      PROVE  StartInv'
  BY <1>2, LaunchKeeps
<1>3. ASSUME NEW p \in Services, Starts(p) PROVE StartInv'
  BY <1>3, ConnectKeeps, AcquireLockKeeps, DiscoverKeeps, ApplyMigrationKeeps,
     RecordMigrationKeeps, CommitMigrationsKeeps, EndPoolKeeps DEF Starts
<1>4. ASSUME NEW p \in Services, StatementFails(p) \/ Crash(p) PROVE StartInv'
  BY <1>4, StatementFailsKeeps, CrashKeeps
<1>5. QED
  BY <1>1, <1>2, <1>3, <1>4 DEF StartNext

LEMMA StartInvHolds == StartSpec => []StartInv
<1>1. StartInit => StartInv
  <2> SUFFICES ASSUME StartInit PROVE StartInv
    OBVIOUS
  <2>1. <<>> \in Seq(Migration) /\ Versions(<<>>) = {} /\ Matches(<<>>, <<>>)
    BY EmptySeq DEF Matches, Distinct, Versions
  <2>2. StartTypes
    BY <2>1 DEF StartInit, StartTypes, Phases
  <2>3. Matches(schema.recorded, schema.scripts) /\ OneHoldsTheLock
    BY <2>1 DEF StartInit, OneHoldsTheLock, Locked
  <2>4. \A p \in Services : ProcessIsFit(p)
    BY DEF StartInit, ProcessIsFit, TransactionIsFit, RefusedForCause, CodeIsFresh
  <2>5. QED
    BY <2>2, <2>3, <2>4 DEF StartInv
<1>2. StartInv /\ [StartNext]_startVars => StartInv'
  BY StartStep
<1>3. QED
  BY <1>1, <1>2, PTL DEF StartSpec

-----------------------------------------------------------------------------

\* The database is what schema_migrations says, each script run once and in its recorded
\* text, however many processes start, fail and are killed (applyMigrations).
THEOREM SchemaCorrect == StartSpec => []SchemaIsWhatIsRecorded
<1>1. StartInv => SchemaIsWhatIsRecorded
  <2> SUFFICES ASSUME StartInv PROVE SchemaIsWhatIsRecorded
    OBVIOUS
  <2>1. /\ schema.scripts \in Seq(Migration) /\ DOMAIN schema.scripts = 1..Len(schema.scripts)
        /\ Matches(schema.recorded, schema.scripts)
    BY LenProperties DEF StartInv, Matches
  <2>2. QED
    BY <2>1, DistinctIsCounted DEF Matches, SchemaIsWhatIsRecorded
<1>2. QED
  BY <1>1, StartInvHolds, PTL

\* Processes that start side by side do not make each other fail (the advisory lock).
THEOREM StartsCorrect == StartSpec => []StartsUnlessItMust
<1>1. StartInv => StartsUnlessItMust
  BY DEF StartInv, ProcessIsFit, RefusedForCause, StartsUnlessItMust
<1>2. QED
  BY <1>1, StartInvHolds, PTL

-----------------------------------------------------------------------------
(* The processes next to what they do in service *)

\* Whatever the worker and the read API do once they serve, the processes start as
\* Migrations says: nothing they do in service touches the start of a process.
THEOREM ServiceStarts == ServiceSpec => StartSpec
<1>1. ServiceInit => StartInit
  BY DEF ServiceInit
<1>2. [ServiceNext]_serviceVars => [StartNext]_startVars
  <2>1. CASE UNCHANGED serviceVars
    BY <2>1 DEF serviceVars
  <2>2. CASE Works
    BY <2>2 DEF Works, CommitBatch, RejectBatch, BlockReplaced, Rollback, MarkHealth
  <2>3. CASE Serves
    BY <2>3 DEF Serves, Receive, Refuse, Query, QueryFails, StartWalk, FetchPage
  <2>4. CASE RestartApi
    BY <2>4 DEF RestartApi
  <2>5. QED
    BY <2>1, <2>2, <2>3, <2>4 DEF ServiceNext
<1>3. QED
  BY <1>1, <1>2, PTL DEF ServiceSpec, StartSpec

-----------------------------------------------------------------------------
(* The projection, event by event *)

LEMMA LeastNatural ==
  ASSUME NEW T \in SUBSET Nat, T # {}
  PROVE  \E x \in T : \A y \in T : x <= y
<1>1. IsWellFoundedOn(OpToRel(<, Nat), Nat)
  BY NatLessThanWellFounded
<1>2. PICK x \in T : \A y \in T : ~(<<y, x>> \in OpToRel(<, Nat))
  BY <1>1, WFMin
<1>3. ASSUME NEW y \in T PROVE x <= y
  <2>1. y < x => <<y, x>> \in OpToRel(<, Nat)
    <3>1. <<y, x>> \in Nat \X Nat /\ <<y, x>>[1] = y /\ <<y, x>>[2] = x
      OBVIOUS
    <3>2. QED
      BY <3>1 DEF OpToRel
  <2>2. ~(y < x)
    BY <1>2, <2>1
  <2>3. QED
    BY <2>2
<1>4. QED
  BY <1>3

\* The rows after each event up to m.
RowsUpTo(events, m, g) ==
  g = [n \in 0..m |-> IF n = 0 THEN EmptyProjection ELSE Applied(g[n - 1], events[n])]

LEMMA RowsExist ==
  ASSUME NEW events, NEW n \in Nat
  PROVE  \E g : RowsUpTo(events, n, g)
<1> DEFINE T == {m \in Nat : ~(\E g : RowsUpTo(events, m, g))}
<1>1. ASSUME T # {} PROVE FALSE
  <2>1. PICK m \in T : \A y \in T : m <= y
    BY <1>1, LeastNatural
  <2>2. CASE m = 0
    <3> DEFINE g == [i \in 0..0 |-> EmptyProjection]
    <3>1. RowsUpTo(events, 0, g)
      BY DEF RowsUpTo
    <3>2. QED
      BY <2>2, <3>1
  <2>3. CASE m # 0
    <3>1. m - 1 \in Nat /\ m - 1 \notin T
      BY <2>1, <2>3
    <3>2. PICK g : RowsUpTo(events, m - 1, g)
      BY <3>1
    <3> DEFINE last == Applied(g[m - 1], events[m])
               h == [i \in 0..m |-> IF i = m THEN last ELSE g[i]]
    <3>3. ASSUME NEW i \in 0..m
          PROVE  h[i] = IF i = 0 THEN EmptyProjection ELSE Applied(h[i - 1], events[i])
      <4>1. CASE i = m
        <5>1. h[i - 1] = g[m - 1] /\ h[i] = last
          BY <2>3, <3>1, <4>1
        <5>2. QED
          BY <2>3, <4>1, <5>1
      <4>2. CASE i # m
        <5>1. i \in 0..(m - 1) /\ h[i] = g[i]
          BY <2>1, <4>2
        <5>2. g[i] = IF i = 0 THEN EmptyProjection ELSE Applied(g[i - 1], events[i])
          BY <3>2, <5>1, Zenon DEF RowsUpTo
        <5>3. i # 0 => h[i - 1] = g[i - 1]
          BY <2>1, <5>1
        <5>4. QED
          BY <5>1, <5>2, <5>3
      <4>3. QED
        BY <4>1, <4>2
    <3>4. h = [i \in 0..m |-> h[i]]
      OBVIOUS
    <3>5. RowsUpTo(events, m, h)
      <4> HIDE DEF h
      <4>1. QED
        BY <3>3, <3>4, Zenon DEF RowsUpTo
    <3>6. QED
      BY <2>1, <3>5
  <2>4. QED
    BY <2>2, <2>3
<1>2. n \notin T
  BY <1>1
<1>3. QED
  BY <1>2

\* Events in common give rows in common.
LEMMA RowsAgree ==
  ASSUME NEW one, NEW other, NEW m \in Nat, NEW n \in Nat, m <= n,
         \A i \in 1..m : one[i] = other[i],
         NEW g, RowsUpTo(one, m, g), NEW h, RowsUpTo(other, n, h)
  PROVE  g[m] = h[m]
<1> DEFINE T == {k \in 0..m : g[k] # h[k]}
<1>1. ASSUME T # {} PROVE FALSE
  <2>1. PICK k \in T : \A y \in T : k <= y
    <3>1. T \in SUBSET Nat
      OBVIOUS
    <3>2. QED
      BY <1>1, <3>1, LeastNatural
  <2>2. k \in 0..m /\ k \in 0..n /\ k \in Nat
    OBVIOUS
  <2>3. /\ g[k] = IF k = 0 THEN EmptyProjection ELSE Applied(g[k - 1], one[k])
        /\ h[k] = IF k = 0 THEN EmptyProjection ELSE Applied(h[k - 1], other[k])
    BY <2>2, Zenon DEF RowsUpTo
  <2>4. k # 0 => g[k - 1] = h[k - 1] /\ one[k] = other[k]
    <3>1. k # 0 => k - 1 \in 0..m /\ ~(k <= k - 1) /\ k \in 1..m
      BY <2>2
    <3>2. QED
      BY <2>1, <3>1
  <2>5. g[k] = h[k]
    BY <2>3, <2>4, Zenon
  <2>6. QED
    BY <2>1, <2>5
<1>2. m \in 0..m
  OBVIOUS
<1>3. QED
  BY <1>1, <1>2

\* What RowsOf is.
LEMMA RowsOfIs ==
  ASSUME NEW events, Len(events) \in Nat
  PROVE  \E g : RowsUpTo(events, Len(events), g) /\ RowsOf(events) = g[Len(events)]
<1> DEFINE rows == CHOOSE g : g = [n \in 0..Len(events) |->
                                     IF n = 0 THEN EmptyProjection
                                     ELSE Applied(g[n - 1], events[n])]
<1>1. PICK g : RowsUpTo(events, Len(events), g)
  BY RowsExist
<1>2. RowsUpTo(events, Len(events), rows)
  BY <1>1, Zenon DEF RowsUpTo
<1>3. RowsOf(events) = rows[Len(events)]
  BY Zenon DEF RowsOf
<1> HIDE DEF rows
<1>4. QED
  BY <1>2, <1>3

\* No events leave no rows; one more changes them as the projector does.
LEMMA RowsOfNone == RowsOf(<<>>) = EmptyProjection
<1>1. Len(<<>>) = 0
  BY EmptySeq
<1>2. PICK g : RowsUpTo(<<>>, 0, g) /\ RowsOf(<<>>) = g[0]
  BY <1>1, RowsOfIs
<1>3. g[0] = EmptyProjection
  <2>1. 0 \in 0..0
    OBVIOUS
  <2>2. QED
    BY <1>2, <2>1, Zenon DEF RowsUpTo
<1>4. QED
  BY <1>2, <1>3

LEMMA RowsOfOneMore ==
  ASSUME NEW S, NEW s \in Seq(S), NEW event \in S
  PROVE  RowsOf(Append(s, event)) = Applied(RowsOf(s), event)
<1> DEFINE t == Append(s, event)
           n == Len(s)
<1>1. /\ n \in Nat /\ Len(t) = n + 1 /\ t[n + 1] = event
      /\ \A i \in 1..n : s[i] = t[i]
  BY AppendProperties, LenProperties
<1> HIDE DEF t, n
<1>2. PICK g : RowsUpTo(s, n, g) /\ RowsOf(s) = g[n]
  BY <1>1, RowsOfIs DEF n
<1>3. PICK h : RowsUpTo(t, n + 1, h) /\ RowsOf(t) = h[n + 1]
  BY <1>1, RowsOfIs
<1>4. g[n] = h[n]
  BY <1>1, <1>2, <1>3, RowsAgree
<1>5. n + 1 \in 0..(n + 1) /\ n + 1 # 0 /\ (n + 1) - 1 = n
  BY <1>1
<1>6. h[n + 1] = Applied(h[n], t[n + 1])
  <2>1. h[n + 1] = IF n + 1 = 0 THEN EmptyProjection ELSE Applied(h[(n + 1) - 1], t[n + 1])
    BY <1>3, <1>5, Zenon DEF RowsUpTo
  <2>2. QED
    BY <1>5, <2>1
<1>7. QED
  BY <1>1, <1>2, <1>3, <1>4, <1>6 DEF t

-----------------------------------------------------------------------------
(* What an event changes *)

RowFields == {"seller", "lotAmount", "quoteCap", "quoteDeadline", "resolutionDeadline",
              "status", "providerCount", "actionId"}
RowIsTyped(row) ==
  /\ DOMAIN row = RowFields
  /\ row.resolutionDeadline \in Nat
  /\ row.status \in RfqStatuses
  /\ row.providerCount \in Nat
Tables(p) ==
  /\ DOMAIN p = {"rfqs", "providers", "actions", "outcomes", "claims"}
  /\ \A r \in DOMAIN p.rfqs : RowIsTyped(p.rfqs[r])

SameTerms(new, old) ==
  /\ new.lotAmount = old.lotAmount /\ new.quoteCap = old.quoteCap
  /\ new.quoteDeadline = old.quoteDeadline
  /\ new.resolutionDeadline = old.resolutionDeadline

\* An event about an open request.
Concerns(event) == event.eventName \notin {"RfqCreated", "Claimed"}
StatusAfter(row, event) ==
  CASE event.eventName = "RfqCancelled" -> "CANCELLED"
    [] event.eventName = "RfqFinalized" -> ResultStatus[event.status]
    [] event.eventName = "RfqTimedOut" -> "TIMED_OUT"
    [] event.eventName \in {"QuoteSubmitted", "ResolutionRequested"} -> row.status
CountAfter(row, event) ==
  IF event.eventName = "QuoteSubmitted" THEN row.providerCount + 1 ELSE row.providerCount

LEMMA RequestFollows ==
  ASSUME NEW p, Tables(p), NEW event \in Events, Concerns(event), Accepts(p, event)
  PROVE  LET r == event.rfqId
             q == Applied(p, event)
         IN  /\ DOMAIN q = DOMAIN p
             /\ r \in DOMAIN p.rfqs /\ p.rfqs[r].status = "OPEN"
             /\ DOMAIN q.rfqs = DOMAIN p.rfqs
             /\ \A other \in DOMAIN p.rfqs \ {r} : q.rfqs[other] = p.rfqs[other]
             /\ DOMAIN q.rfqs[r] = RowFields /\ SameTerms(q.rfqs[r], p.rfqs[r])
             /\ q.rfqs[r].status = StatusAfter(p.rfqs[r], event)
             /\ q.rfqs[r].providerCount = CountAfter(p.rfqs[r], event)
<1> DEFINE r == event.rfqId
           q == Applied(p, event)
<1>1. event.eventName \in ActivityKinds
  BY EventsAreDecoded
<1>2. r \in DOMAIN p.rfqs /\ p.rfqs[r].status = "OPEN"
  BY <1>1 DEF Accepts, IsOpenRow, Concerns, ActivityKinds
<1>3. DOMAIN p = {"rfqs", "providers", "actions", "outcomes", "claims"}
      /\ DOMAIN p.rfqs[r] = RowFields
  BY <1>2 DEF Tables, RowIsTyped
<1>4. CASE event.eventName = "QuoteSubmitted"
  <2>1. q = [p EXCEPT !.providers = With(@, <<r, event.provider>>, p.rfqs[r].providerCount),
                      !.rfqs[r].providerCount = @ + 1]
    BY <1>4 DEF Applied
  <2>2. QED
    BY <1>2, <1>3, <1>4, <2>1 DEF SameTerms, StatusAfter, CountAfter, RowFields
<1>5. CASE event.eventName = "RfqCancelled"
  <2>1. q = [p EXCEPT !.rfqs[r].status = "CANCELLED"]
    BY <1>5 DEF Applied
  <2>2. QED
    BY <1>2, <1>3, <1>5, <2>1 DEF SameTerms, StatusAfter, CountAfter, RowFields
<1>6. CASE event.eventName = "ResolutionRequested"
  <2>1. q = [p EXCEPT !.rfqs[r].actionId = event.actionId,
                      !.actions = With(@, event.actionId, [rfqId |-> r, status |-> "REQUESTED"])]
    BY <1>6 DEF Applied
  <2>2. QED
    BY <1>2, <1>3, <1>6, <2>1 DEF SameTerms, StatusAfter, CountAfter, RowFields
<1>7. CASE event.eventName = "RfqFinalized"
  <2>1. q = [p EXCEPT !.rfqs[r].status = ResultStatus[event.status],
                      !.actions[p.rfqs[r].actionId].status = "RESOLVED",
                      !.outcomes = With(@, r, [resultType |-> ResultOf(event.status),
                                               winner |-> WinnerOf(event),
                                               resultNonce |-> event.resultNonce])]
    BY <1>7 DEF Applied
  <2>2. QED
    BY <1>2, <1>3, <1>7, <2>1 DEF SameTerms, StatusAfter, CountAfter, RowFields
<1>8. CASE event.eventName = "RfqTimedOut"
  <2>1. q = [p EXCEPT !.rfqs[r].status = "TIMED_OUT"]
    BY <1>8 DEF Applied
  <2>2. QED
    BY <1>2, <1>3, <1>8, <2>1 DEF SameTerms, StatusAfter, CountAfter, RowFields
<1>9. QED
  BY <1>1, <1>4, <1>5, <1>6, <1>7, <1>8 DEF Concerns, ActivityKinds

\* A new request gets a row; a claim changes none.
LEMMA RequestAppears ==
  ASSUME NEW p, Tables(p), NEW event, event.eventName = "RfqCreated"
  PROVE  Applied(p, event) = [p EXCEPT !.rfqs = With(p.rfqs, event.rfqId, NewRow(event))]
BY DEF Applied

LEMMA ClaimIsApart ==
  ASSUME NEW p, Tables(p), NEW event, event.eventName = "Claimed"
  PROVE  /\ DOMAIN Applied(p, event) = DOMAIN p
         /\ Applied(p, event).rfqs = p.rfqs
<1>1. Applied(p, event)
        = [p EXCEPT !.claims = With(@, <<event.rfqId, event.account>>,
                              [fxrp |-> event.fxrpAmount, usdt0 |-> event.usdt0Amount])]
  BY DEF Applied
<1>2. QED
  BY <1>1 DEF Tables

\* Seats and outcomes.
LEMMA SeatsFollow ==
  ASSUME NEW p, Tables(p), NEW event \in Events
  PROVE  Applied(p, event).providers =
           IF event.eventName = "QuoteSubmitted"
           THEN With(p.providers, <<event.rfqId, event.provider>>,
                     p.rfqs[event.rfqId].providerCount)
           ELSE p.providers
<1>1. event.eventName \in ActivityKinds
  BY EventsAreDecoded
<1>2. QED
  BY <1>1 DEF Applied, Tables, ActivityKinds

OutcomeOf(event) ==
  [resultType |-> ResultOf(event.status), winner |-> WinnerOf(event),
   resultNonce |-> event.resultNonce]
LEMMA OutcomesFollow ==
  ASSUME NEW p, Tables(p), NEW event \in Events
  PROVE  Applied(p, event).outcomes =
           IF event.eventName = "RfqFinalized"
           THEN With(p.outcomes, event.rfqId, OutcomeOf(event)) ELSE p.outcomes
<1>1. event.eventName \in ActivityKinds
  BY EventsAreDecoded
<1>2. QED
  BY <1>1 DEF Applied, Tables, ActivityKinds, OutcomeOf

-----------------------------------------------------------------------------
(* What the rows are like *)

\* Who quoted for a request.
QuotersOf(p, r) == {k[2] : k \in {k \in DOMAIN p.providers : k[1] = r}}

SeatsAreCounted(p) ==
  /\ IsFiniteSet(DOMAIN p.providers)
  /\ \A k \in DOMAIN p.providers : k = <<k[1], k[2]>>
  /\ \A r \in DOMAIN p.rfqs :
       IsFiniteSet(QuotersOf(p, r)) /\ Cardinality(QuotersOf(p, r)) = p.rfqs[r].providerCount

SettledHaveWinners(p) ==
  \A r \in DOMAIN p.rfqs :
    p.rfqs[r].status = "SETTLED" => r \in DOMAIN p.outcomes /\ p.outcomes[r].winner # None

WinnersQuoted(p) ==
  \A r \in DOMAIN p.outcomes :
    p.outcomes[r].winner # None =>
      /\ p.outcomes[r].winner.quote \in Nat
      /\ p.outcomes[r].winner.quote <= p.rfqs[r].quoteCap
      /\ <<r, p.outcomes[r].winner.provider>> \in DOMAIN p.providers

RowsFit(p) ==
  /\ Tables(p) /\ FitsSchema(p)
  /\ IsFiniteSet(DOMAIN p.rfqs)
  /\ SeatsAreCounted(p) /\ SettledHaveWinners(p) /\ WinnersQuoted(p)

\* The events that the chain can hold next, as RowsOf(log) is p.
CapIsKept(p, event) ==
  event.eventName = "RfqFinalized" /\ event.rfqId \in DOMAIN p.rfqs =>
    event.winningQuote <= p.rfqs[event.rfqId].quoteCap

LEMMA EmptyRowsFit == RowsFit(EmptyProjection)
<1>1. /\ Tables(EmptyProjection)
      /\ DOMAIN EmptyProjection.rfqs = {} /\ DOMAIN EmptyProjection.providers = {}
      /\ DOMAIN EmptyProjection.actions = {} /\ DOMAIN EmptyProjection.outcomes = {}
      /\ DOMAIN EmptyProjection.claims = {}
  BY DEF EmptyProjection, Tables
<1> HIDE DEF EmptyProjection
<1>2. FitsSchema(EmptyProjection)
  BY <1>1 DEF FitsSchema, RequestsFit, SeatsFit, ActionsFit, OutcomesFit, ClaimsFit
<1>3. QED
  BY <1>1, <1>2, FS_EmptySet
    DEF RowsFit, SeatsAreCounted, SettledHaveWinners, WinnersQuoted

LEMMA TablesStay ==
  ASSUME NEW p, Tables(p), NEW event \in Events, Accepts(p, event)
  PROVE  /\ Tables(Applied(p, event))
         /\ DOMAIN Applied(p, event).rfqs =
              IF event.eventName = "RfqCreated" THEN DOMAIN p.rfqs \cup {event.rfqId}
              ELSE DOMAIN p.rfqs
<1> DEFINE q == Applied(p, event)
           r == event.rfqId
<1>1. CASE Concerns(event)
  <2> HIDE DEF q
  <2>1. /\ DOMAIN q = DOMAIN p /\ r \in DOMAIN p.rfqs /\ DOMAIN q.rfqs = DOMAIN p.rfqs
        /\ \A other \in DOMAIN p.rfqs \ {r} : q.rfqs[other] = p.rfqs[other]
        /\ DOMAIN q.rfqs[r] = RowFields /\ SameTerms(q.rfqs[r], p.rfqs[r])
        /\ q.rfqs[r].status = StatusAfter(p.rfqs[r], event)
        /\ q.rfqs[r].providerCount = CountAfter(p.rfqs[r], event)
    BY <1>1, RequestFollows DEF q
  <2>2. StatusAfter(p.rfqs[r], event) \in RfqStatuses
    <3>1. event.eventName \in ActivityKinds
      BY EventsAreDecoded
    <3>2. CASE event.eventName = "RfqFinalized"
      <4>1. event.status \in DOMAIN ResultStatus
        BY <3>2 DEF Accepts
      <4>2. ResultStatus[event.status] \in Range(ResultStatus)
        BY <4>1 DEF Range
      <4>3. QED
        BY <3>2, <4>2 DEF StatusAfter, RfqStatuses
    <3>3. CASE event.eventName # "RfqFinalized"
      <4>1. p.rfqs[r].status \in RfqStatuses
        BY <2>1 DEF Tables, RowIsTyped
      <4>2. QED
        BY <1>1, <3>1, <3>3, <4>1 DEF StatusAfter, RfqStatuses, Concerns, ActivityKinds
    <3>4. QED
      BY <3>2, <3>3
  <2>3. CountAfter(p.rfqs[r], event) \in Nat
    BY <2>1 DEF Tables, RowIsTyped, CountAfter
  <2>4. RowIsTyped(q.rfqs[r])
    BY <2>1, <2>2, <2>3 DEF RowIsTyped, Tables, SameTerms
  <2>5. event.eventName # "RfqCreated"
    BY <1>1 DEF Concerns
  <2>6. Tables(q) /\ DOMAIN q.rfqs = DOMAIN p.rfqs
    BY <2>1, <2>4 DEF Tables
  <2>7. QED
    BY <2>5, <2>6 DEF q
<1>2. CASE event.eventName = "RfqCreated"
  <2>1. q = [p EXCEPT !.rfqs = With(p.rfqs, r, NewRow(event))]
    BY <1>2, RequestAppears
  <2>2. RowIsTyped(NewRow(event))
    BY <1>2, EventsAreDecoded DEF NewRow, RowIsTyped, RowFields, RfqStatuses
  <2>3. /\ DOMAIN q = DOMAIN p /\ DOMAIN q.rfqs = DOMAIN p.rfqs \cup {r}
        /\ q.rfqs[r] = NewRow(event)
        /\ \A other \in DOMAIN p.rfqs \ {r} : q.rfqs[other] = p.rfqs[other]
    BY <2>1 DEF Tables, With
  <2> HIDE DEF q
  <2>4. Tables(q)
    BY <2>2, <2>3 DEF Tables
  <2>5. QED
    BY <1>2, <2>3, <2>4 DEF q
<1>3. CASE event.eventName = "Claimed"
  BY <1>3, ClaimIsApart DEF Tables
<1>4. QED
  BY <1>1, <1>2, <1>3 DEF Concerns

LEMMA QuotersFollow ==
  ASSUME NEW p, RowsFit(p), NEW event \in Events, Ingestible(p, event)
  PROVE  SeatsAreCounted(Applied(p, event))
<1> DEFINE q == Applied(p, event)
           r == event.rfqId
<1>1. /\ Tables(p) /\ SeatsAreCounted(p) /\ SeatsFit(p) /\ Accepts(p, event)
      /\ DOMAIN q.rfqs = IF event.eventName = "RfqCreated" THEN DOMAIN p.rfqs \cup {r}
                         ELSE DOMAIN p.rfqs
  BY TablesStay DEF RowsFit, FitsSchema, Ingestible
<1> HIDE DEF q
<1>2. CASE event.eventName = "QuoteSubmitted"
  <2> DEFINE a == event.provider
  <2>1. /\ q.providers = With(p.providers, <<r, a>>, p.rfqs[r].providerCount)
        /\ <<r, a>> \notin DOMAIN p.providers
    BY <1>1, <1>2, SeatsFollow DEF Accepts, q
  <2>2. DOMAIN q.providers = DOMAIN p.providers \cup {<<r, a>>}
    BY <2>1 DEF With
  <2>3. /\ r \in DOMAIN p.rfqs
        /\ \A other \in DOMAIN p.rfqs \ {r} : q.rfqs[other] = p.rfqs[other]
        /\ q.rfqs[r].providerCount = p.rfqs[r].providerCount + 1
    BY <1>1, <1>2, RequestFollows DEF Concerns, CountAfter, q
  <2>4. IsFiniteSet(DOMAIN q.providers)
    <3>1. IsFiniteSet(DOMAIN p.providers)
      BY <1>1 DEF SeatsAreCounted
    <3>2. IsFiniteSet(DOMAIN p.providers \cup {<<r, a>>})
      BY <3>1, FS_AddElement
    <3>3. QED
      BY <2>2, <3>2
  <2>5. QuotersOf(q, r) = QuotersOf(p, r) \cup {a} /\ a \notin QuotersOf(p, r)
    BY <1>1, <2>1, <2>2 DEF QuotersOf, SeatsAreCounted
  <2>6. \A other \in DOMAIN p.rfqs \ {r} : QuotersOf(q, other) = QuotersOf(p, other)
    BY <2>2 DEF QuotersOf
  <2>7. IsFiniteSet(QuotersOf(q, r)) /\ Cardinality(QuotersOf(q, r)) = q.rfqs[r].providerCount
    <3>1. IsFiniteSet(QuotersOf(p, r))
          /\ Cardinality(QuotersOf(p, r)) = p.rfqs[r].providerCount
      BY <1>1, <2>3 DEF SeatsAreCounted
    <3>2. /\ IsFiniteSet(QuotersOf(p, r) \cup {a})
          /\ Cardinality(QuotersOf(p, r) \cup {a}) = Cardinality(QuotersOf(p, r)) + 1
      BY <2>5, <3>1, FS_AddElement
    <3>3. QED
      BY <2>3, <2>5, <3>1, <3>2
  <2>8. \A other \in DOMAIN p.rfqs \ {r} :
          /\ IsFiniteSet(QuotersOf(q, other))
          /\ Cardinality(QuotersOf(q, other)) = q.rfqs[other].providerCount
    BY <1>1, <2>3, <2>6 DEF SeatsAreCounted
  <2>9. \A k \in DOMAIN q.providers : k = <<k[1], k[2]>>
    BY <1>1, <2>2 DEF SeatsAreCounted
  <2>10. DOMAIN q.rfqs = DOMAIN p.rfqs
    BY <1>1, <1>2
  <2>11. QED
    BY <2>4, <2>7, <2>8, <2>9, <2>10 DEF SeatsAreCounted, q
<1>3. CASE event.eventName # "QuoteSubmitted"
  <2>1. q.providers = p.providers
    BY <1>1, <1>3, SeatsFollow DEF q
  <2>2. \A other : QuotersOf(q, other) = QuotersOf(p, other)
    BY <2>1 DEF QuotersOf
  <2>3. \A other \in DOMAIN p.rfqs :
          /\ other \in DOMAIN q.rfqs
          /\ q.rfqs[other].providerCount = p.rfqs[other].providerCount
    <3>1. CASE Concerns(event)
      BY <1>1, <1>3, <3>1, RequestFollows DEF CountAfter, q
    <3>2. CASE event.eventName = "RfqCreated"
      <4>1. q = [p EXCEPT !.rfqs = With(p.rfqs, r, NewRow(event))] /\ r \notin DOMAIN p.rfqs
        BY <1>1, <3>2, RequestAppears DEF q, Accepts
      <4>2. QED
        BY <1>1, <4>1 DEF Tables, With
    <3>3. CASE event.eventName = "Claimed"
      BY <1>1, <3>3, ClaimIsApart DEF q
    <3>4. QED
      BY <3>1, <3>2, <3>3 DEF Concerns
  <2>4. CASE event.eventName = "RfqCreated"
    <3>1. q = [p EXCEPT !.rfqs = With(p.rfqs, r, NewRow(event))] /\ r \notin DOMAIN p.rfqs
      BY <1>1, <2>4, RequestAppears DEF q, Accepts
    <3>2. q.rfqs[r].providerCount = 0 /\ DOMAIN q.rfqs = DOMAIN p.rfqs \cup {r}
      BY <1>1, <3>1 DEF Tables, With, NewRow
    <3>3. QuotersOf(p, r) = {}
      <4>1. \A k \in DOMAIN p.providers : k[1] # r
        BY <1>1, <3>1 DEF SeatsFit
      <4>2. QED
        BY <4>1 DEF QuotersOf
    <3>4. QED
      BY <1>1, <2>1, <2>2, <2>3, <3>2, <3>3, FS_EmptySet DEF SeatsAreCounted, q
  <2>5. CASE event.eventName # "RfqCreated"
    <3>1. DOMAIN q.rfqs = DOMAIN p.rfqs
      BY <1>1, <2>5
    <3>2. QED
      BY <1>1, <2>1, <2>2, <2>3, <3>1 DEF SeatsAreCounted, q
  <2>6. QED
    BY <2>4, <2>5
<1>4. QED
  BY <1>2, <1>3

LEMMA WinnersFollow ==
  ASSUME NEW p, RowsFit(p), NEW event \in Events, Ingestible(p, event), CapIsKept(p, event)
  PROVE  SettledHaveWinners(Applied(p, event)) /\ WinnersQuoted(Applied(p, event))
<1> DEFINE q == Applied(p, event)
           r == event.rfqId
<1>1. /\ Tables(p) /\ SettledHaveWinners(p) /\ WinnersQuoted(p) /\ Accepts(p, event)
      /\ OutcomesFit(p)
      /\ DOMAIN q.rfqs = IF event.eventName = "RfqCreated" THEN DOMAIN p.rfqs \cup {r}
                         ELSE DOMAIN p.rfqs
  BY TablesStay DEF RowsFit, FitsSchema, Ingestible
<1>2. /\ q.providers = IF event.eventName = "QuoteSubmitted"
                       THEN With(p.providers, <<r, event.provider>>, p.rfqs[r].providerCount)
                       ELSE p.providers
      /\ q.outcomes = IF event.eventName = "RfqFinalized"
                      THEN With(p.outcomes, r, OutcomeOf(event)) ELSE p.outcomes
  BY <1>1, SeatsFollow, OutcomesFollow
<1> HIDE DEF q
<1>3. DOMAIN p.providers \subseteq DOMAIN q.providers
  BY <1>2 DEF With
<1>4. \A other \in DOMAIN p.outcomes : other \in DOMAIN p.rfqs
  BY <1>1 DEF OutcomesFit
<1>5. CASE event.eventName = "RfqFinalized"
  <2>1. /\ r \in DOMAIN p.rfqs /\ DOMAIN q.rfqs = DOMAIN p.rfqs
        /\ \A other \in DOMAIN p.rfqs \ {r} : q.rfqs[other] = p.rfqs[other]
        /\ q.rfqs[r].quoteCap = p.rfqs[r].quoteCap
        /\ q.rfqs[r].status = ResultStatus[event.status]
    BY <1>1, <1>5, RequestFollows DEF Concerns, SameTerms, StatusAfter, q
  <2>2. /\ DOMAIN q.outcomes = DOMAIN p.outcomes \cup {r}
        /\ q.outcomes[r].winner = WinnerOf(event)
        /\ \A other \in DOMAIN p.outcomes \ {r} : q.outcomes[other] = p.outcomes[other]
    BY <1>2, <1>5 DEF With, OutcomeOf
  <2>3. ResultStatus[event.status] = "SETTLED" => WinnerOf(event) # None
    <3>1. [provider |-> event.winningProvider, quote |-> event.winningQuote] # None
      BY DEF None
    <3>2. QED
      BY <3>1 DEF WinnerOf, ResultOf
  <2>4. WinnerOf(event) # None =>
          /\ WinnerOf(event).quote \in Nat
          /\ WinnerOf(event).quote <= p.rfqs[r].quoteCap
          /\ <<r, WinnerOf(event).provider>> \in DOMAIN p.providers
    <3>1. ASSUME WinnerOf(event) # None
          PROVE  /\ WinnerOf(event) = [provider |-> event.winningProvider,
                                       quote |-> event.winningQuote]
                 /\ ResultOf(event.status) = "TRADE"
      BY <3>1 DEF WinnerOf
    <3>2. event.winningQuote \in Nat
      BY <1>5, EventsAreDecoded
    <3>3. ResultOf(event.status) = "TRADE" => <<r, event.winningProvider>> \in DOMAIN p.providers
      BY <1>1, <1>5 DEF Accepts
    <3>4. event.winningQuote <= p.rfqs[r].quoteCap
      BY <1>5, <2>1 DEF CapIsKept
    <3>5. QED
      BY <3>1, <3>2, <3>3, <3>4
  <2>5. SettledHaveWinners(q)
    BY <1>1, <2>1, <2>2, <2>3 DEF SettledHaveWinners
  <2>6. WinnersQuoted(q)
    BY <1>1, <1>3, <1>4, <2>1, <2>2, <2>4 DEF WinnersQuoted
  <2>7. QED
    BY <2>5, <2>6 DEF q
<1>6. CASE event.eventName # "RfqFinalized"
  <2>1. q.outcomes = p.outcomes
    BY <1>2, <1>6
  <2>2. \A other \in DOMAIN p.rfqs :
          /\ other \in DOMAIN q.rfqs /\ q.rfqs[other].quoteCap = p.rfqs[other].quoteCap
          /\ q.rfqs[other].status = "SETTLED" => p.rfqs[other].status = "SETTLED"
    <3>1. CASE Concerns(event)
      <4>1. /\ \A other \in DOMAIN p.rfqs \ {r} : q.rfqs[other] = p.rfqs[other]
            /\ q.rfqs[r].quoteCap = p.rfqs[r].quoteCap /\ p.rfqs[r].status = "OPEN"
            /\ q.rfqs[r].status = StatusAfter(p.rfqs[r], event)
            /\ DOMAIN q.rfqs = DOMAIN p.rfqs
        BY <1>1, <3>1, RequestFollows DEF SameTerms, q
      <4>2. StatusAfter(p.rfqs[r], event) # "SETTLED"
        BY <1>6, <3>1, <4>1, EventsAreDecoded DEF StatusAfter, Concerns, ActivityKinds
      <4>3. QED
        BY <4>1, <4>2
    <3>2. CASE event.eventName = "RfqCreated"
      <4>1. q = [p EXCEPT !.rfqs = With(p.rfqs, r, NewRow(event))] /\ r \notin DOMAIN p.rfqs
        BY <1>1, <3>2, RequestAppears DEF q, Accepts
      <4>2. QED
        BY <1>1, <4>1 DEF Tables, With
    <3>3. CASE event.eventName = "Claimed"
      BY <1>1, <3>3, ClaimIsApart DEF q
    <3>4. QED
      BY <3>1, <3>2, <3>3 DEF Concerns
  <2>3. \A new \in DOMAIN q.rfqs : new \notin DOMAIN p.rfqs => q.rfqs[new].status # "SETTLED"
    <3>1. ASSUME NEW new \in DOMAIN q.rfqs, new \notin DOMAIN p.rfqs
          PROVE  q.rfqs[new].status = "OPEN"
      <4>1. event.eventName = "RfqCreated" /\ new = r
        BY <1>1, <3>1
      <4>2. q = [p EXCEPT !.rfqs = With(p.rfqs, r, NewRow(event))]
        BY <1>1, <4>1, RequestAppears DEF q
      <4>3. QED
        BY <1>1, <4>1, <4>2 DEF Tables, With, NewRow
    <3>2. QED
      BY <3>1
  <2>4. SettledHaveWinners(q)
    BY <1>1, <2>1, <2>2, <2>3 DEF SettledHaveWinners
  <2>5. WinnersQuoted(q)
    BY <1>1, <1>3, <1>4, <2>1, <2>2 DEF WinnersQuoted
  <2>6. QED
    BY <2>4, <2>5 DEF q
<1>7. QED
  BY <1>5, <1>6

\* What is ingested leaves rows as they should be.
LEMMA RowsStayFit ==
  ASSUME NEW p, RowsFit(p), NEW event \in Events, Ingestible(p, event), CapIsKept(p, event)
  PROVE  RowsFit(Applied(p, event))
<1>1. Tables(p) /\ Accepts(p, event) /\ IsFiniteSet(DOMAIN p.rfqs)
  BY DEF RowsFit, Ingestible
<1>2. IsFiniteSet(DOMAIN Applied(p, event).rfqs)
  <2>1. IsFiniteSet(DOMAIN p.rfqs \cup {event.rfqId})
    BY <1>1, FS_AddElement
  <2>2. QED
    BY <1>1, <2>1, TablesStay
<1>3. QED
  BY <1>1, <1>2, TablesStay, QuotersFollow, WinnersFollow DEF RowsFit, Ingestible

-----------------------------------------------------------------------------
(* What the rows are like, the DTOs accept *)

\* The winner of a request with one.
LEMMA WinnerRowIs ==
  ASSUME NEW p, RowsFit(p), NEW r \in DOMAIN p.rfqs, WinnerRow(p, r) # None
  PROVE  /\ r \in DOMAIN p.outcomes /\ p.outcomes[r].winner # None
         /\ WinnerRow(p, r) = p.outcomes[r].winner
         /\ WinnerRow(p, r).quote \in Nat \ {0}
         /\ p.rfqs[r].quoteCap - WinnerRow(p, r).quote \in Nat
         /\ WinnerRow(p, r).provider \in QuotersOf(p, r)
<1>1. r \in DOMAIN p.outcomes /\ WinnerRow(p, r) = p.outcomes[r].winner
  BY DEF WinnerRow
<1>2. /\ p.outcomes[r].winner.quote \in Nat
      /\ p.outcomes[r].winner.quote <= p.rfqs[r].quoteCap
      /\ <<r, p.outcomes[r].winner.provider>> \in DOMAIN p.providers
  BY <1>1 DEF RowsFit, WinnersQuoted
<1>3. p.outcomes[r].winner.quote > 0
  BY <1>1 DEF RowsFit, FitsSchema, OutcomesFit
<1>4. p.rfqs[r].quoteCap \in Nat
  BY DEF RowsFit, FitsSchema, RequestsFit
<1>5. p.outcomes[r].winner.provider \in QuotersOf(p, r)
  <2> DEFINE k == <<r, p.outcomes[r].winner.provider>>
  <2>1. k \in DOMAIN p.providers /\ k[1] = r /\ k[2] = p.outcomes[r].winner.provider
    BY <1>2
  <2> HIDE DEF k
  <2>2. QED
    BY <2>1 DEF QuotersOf
<1>6. QED
  BY <1>1, <1>2, <1>3, <1>4, <1>5

LEMMA SummariesFit ==
  ASSUME NEW p, RowsFit(p), NEW r \in DOMAIN p.rfqs
  PROVE  SummaryFits(SummaryRow(p, r)) /\ ProofFits(SummaryRow(p, r))
<1> DEFINE s == SummaryRow(p, r)
<1>1. /\ s.row = p.rfqs[r] /\ s.winner = WinnerRow(p, r)
      /\ s.resultType = IF r \in DOMAIN p.outcomes THEN p.outcomes[r].resultType ELSE "none"
  BY DEF SummaryRow
<1> HIDE DEF s
<1>2. /\ {p.rfqs[r].lotAmount, p.rfqs[r].quoteCap, p.rfqs[r].quoteDeadline} \subseteq Nat \ {0}
      /\ p.rfqs[r].resolutionDeadline > p.rfqs[r].quoteDeadline
  BY DEF RowsFit, FitsSchema, RequestsFit
<1>3. /\ p.rfqs[r].resolutionDeadline \in Nat /\ p.rfqs[r].status \in RfqStatuses
      /\ p.rfqs[r].providerCount \in Nat
  BY DEF RowsFit, Tables, RowIsTyped
<1>4. s.winner # None => s.winner.quote \in Nat \ {0}
  BY <1>1, WinnerRowIs
<1>5. p.rfqs[r].resolutionDeadline \in Nat \ {0}
  BY <1>2, <1>3
<1>6. SummaryFits(s)
  BY <1>1, <1>2, <1>3, <1>4, <1>5 DEF SummaryFits
<1>7. r \in DOMAIN p.outcomes => ((s.resultType = "TRADE") = (s.winner # None))
  BY <1>1 DEF RowsFit, FitsSchema, OutcomesFit, WinnerRow
<1>8. ProofFits(s)
  BY <1>1, <1>4, <1>7 DEF ProofFits
<1>9. QED
  BY <1>6, <1>8 DEF s

LEMMA PortfoliosFit ==
  ASSUME NEW p, RowsFit(p), NEW r \in DOMAIN p.rfqs, NEW f
  PROVE  ItemFits(p, r, f)
<1> DEFINE row == p.rfqs[r]
           winner == WinnerRow(p, r)
<1>1. row.lotAmount \in Nat /\ row.quoteCap \in Nat
  BY DEF RowsFit, FitsSchema, RequestsFit
<1>2. row.status = "SETTLED" => winner # None
  BY DEF RowsFit, SettledHaveWinners, WinnerRow
<1>3. winner # None => winner.quote \in Nat /\ row.quoteCap - winner.quote \in Nat
  BY WinnerRowIs
<1> HIDE DEF row, winner
<1>4. ASSUME NEW isSeller \in BOOLEAN, NEW account
      PROVE  ClaimableFits(AmountsAfter(row, winner, isSeller, account))
  BY <1>1, <1>2, <1>3 DEF ClaimableFits, AmountsAfter
<1>5. ASSUME NEW account PROVE ClaimableFits(ClaimShown(p, r, account).amounts)
  <2>1. CASE <<r, account>> \in DOMAIN p.claims
    <3>1. {p.claims[<<r, account>>].fxrp, p.claims[<<r, account>>].usdt0} \subseteq Nat
      BY <2>1 DEF RowsFit, FitsSchema, ClaimsFit
    <3>2. ClaimShown(p, r, account).amounts = p.claims[<<r, account>>]
      BY <2>1 DEF ClaimShown
    <3>3. QED
      BY <3>1, <3>2 DEF ClaimableFits
  <2>2. CASE <<r, account>> \notin DOMAIN p.claims
    <3>1. ClaimShown(p, r, account).amounts
            = AmountsAfter(row, winner, row.seller = account, account)
      BY <2>2 DEF ClaimShown, row, winner
    <3>2. QED
      BY <1>4, <3>1
  <2>3. QED
    BY <2>1, <2>2
<1>6. QED
  BY <1>5, SummariesFit DEF ItemFits

\* A sum over a finite set is a natural.
LEMMA SumIsNatural ==
  ASSUME NEW S, IsFiniteSet(S), NEW f \in [S -> Nat]
  PROVE  SumOf(f) \in Nat
<1> DEFINE share == [x \in S |-> {x} \X (1..f[x])]
           T == {{x} \X (1..f[x]) : x \in S}
<1>1. share \in Surjection(S, T)
  BY DEF Surjection
<1>2. IsFiniteSet(T)
  <2> HIDE DEF share, T
  <2>1. QED
    BY <1>1, FS_Surjection
<1>3. ASSUME NEW x \in S PROVE IsFiniteSet({x} \X (1..f[x]))
  <2>1. f[x] \in Nat /\ IsFiniteSet({x})
    BY FS_Singleton
  <2>2. IsFiniteSet(1..f[x])
    BY <2>1, FS_Interval
  <2>3. QED
    BY <2>1, <2>2, FS_Product
<1>4. \A t \in T : IsFiniteSet(t)
  BY <1>3
<1>5. IsFiniteSet(UNION T)
  <2> HIDE DEF T
  <2>1. QED
    BY <1>2, <1>4, FS_UNION
<1>6. Units(f) = UNION T
  BY DEF Units
<1>7. QED
  BY <1>5, <1>6, FS_CardinalityType DEF SumOf

LEMMA CountsFit ==
  ASSUME NEW p, RowsFit(p), NEW state, state # None => state.indexed \in Nat
  PROVE  StatsFit([rfqs |-> Cardinality(DOMAIN p.rfqs), stats |-> Stats(p)], state)
<1> DEFINE lots == [r \in DOMAIN p.rfqs |-> p.rfqs[r].lotAmount]
           quotes == [r \in Settled(p) |-> p.outcomes[r].winner.quote]
<1>1. IsFiniteSet(DOMAIN p.rfqs) /\ IsFiniteSet(DOMAIN p.providers)
  BY DEF RowsFit, SeatsAreCounted
<1>2. /\ IsFiniteSet({r \in DOMAIN p.rfqs : p.rfqs[r].status = "OPEN"})
      /\ IsFiniteSet(Settled(p))
  <2>1. Settled(p) \in SUBSET DOMAIN p.rfqs
    BY DEF Settled
  <2>2. {r \in DOMAIN p.rfqs : p.rfqs[r].status = "OPEN"} \in SUBSET DOMAIN p.rfqs
    OBVIOUS
  <2>3. QED
    BY <1>1, <2>1, <2>2, FS_Subset
<1>3. lots \in [DOMAIN p.rfqs -> Nat]
  BY DEF RowsFit, FitsSchema, RequestsFit
<1>4. quotes \in [Settled(p) -> Nat]
  BY DEF RowsFit, SettledHaveWinners, WinnersQuoted, Settled
<1> HIDE DEF lots, quotes
<1>5. SumOf(lots) \in Nat /\ SumOf(quotes) \in Nat
  BY <1>1, <1>2, <1>3, <1>4, SumIsNatural
<1>6. /\ Cardinality(DOMAIN p.rfqs) \in Nat /\ Cardinality(DOMAIN p.providers) \in Nat
      /\ Cardinality({r \in DOMAIN p.rfqs : p.rfqs[r].status = "OPEN"}) \in Nat
  BY <1>1, <1>2, FS_CardinalityType
<1>7. QED
  BY <1>5, <1>6 DEF StatsFit, Stats, lots, quotes

-----------------------------------------------------------------------------
(* The log *)

\* What the events of a request tell is what its row says.
QuotesIn(events, r) ==
  {i \in DOMAIN events : events[i].rfqId = r /\ events[i].eventName = "QuoteSubmitted"}
EventsTell(events, p) ==
  /\ \A i \in DOMAIN events : events[i].rfqId \in DOMAIN p.rfqs
  /\ \A r \in DOMAIN p.rfqs :
       /\ IsFiniteSet(QuotesIn(events, r))
       /\ Cardinality(QuotesIn(events, r)) = p.rfqs[r].providerCount
       /\ p.rfqs[r].status # "OPEN" =>
            \E i \in DOMAIN events :
              events[i].rfqId = r /\ ClosesAs(events[i], p.rfqs[r].status)

\* A log whose rows were fit, and what its events told, after each of them.
EndIsFit(events) == RowsFit(RowsOf(events)) /\ EventsTell(events, RowsOf(events))
LogIsFit(events) ==
  /\ events \in Seq(Events)
  /\ \A k \in 0..Len(events) : EndIsFit(SubSeq(events, 1, k))

LEMMA LogEndsFit ==
  ASSUME NEW events, LogIsFit(events)
  PROVE  EndIsFit(events) /\ events \in Seq(Events)
<1>1. events \in Seq(Events) /\ Len(events) \in 0..Len(events)
  BY LenProperties DEF LogIsFit
<1>2. SubSeq(events, 1, Len(events)) = events
  BY <1>1, SubSeqFull
<1>3. EndIsFit(SubSeq(events, 1, Len(events)))
  BY <1>1 DEF LogIsFit
<1>4. QED
  BY <1>1, <1>2, <1>3

LEMMA EmptyLogIsFit == LogIsFit(<<>>)
<1>1. <<>> \in Seq(Events) /\ Len(<<>>) = 0 /\ DOMAIN <<>> = {}
  BY EmptySeq
<1>2. SubSeq(<<>>, 1, 0) = <<>>
  BY SubSeqEmpty
<1>3. \A k \in 0..0 : k = 0
  OBVIOUS
<1>4. EndIsFit(<<>>)
  <2>1. DOMAIN EmptyProjection.rfqs = {}
    BY DEF EmptyProjection
  <2>2. EventsTell(<<>>, EmptyProjection)
    BY <1>1, <2>1 DEF EventsTell
  <2>3. QED
    BY <2>2, EmptyRowsFit, RowsOfNone DEF EndIsFit
<1>5. QED
  BY <1>1, <1>2, <1>3, <1>4 DEF LogIsFit

\* One event more is told as it is projected.
LEMMA EventsStillTell ==
  ASSUME NEW events \in Seq(Events), NEW p, RowsFit(p), EventsTell(events, p),
         NEW event \in Events, Accepts(p, event)
  PROVE  EventsTell(Append(events, event), Applied(p, event))
<1> DEFINE longer == Append(events, event)
           n == Len(events)
           q == Applied(p, event)
           r == event.rfqId
<1>1. /\ n \in Nat /\ DOMAIN events = 1..n
      /\ DOMAIN longer = 1..n \cup {n + 1} /\ n + 1 \notin 1..n
      /\ \A i \in 1..n : longer[i] = events[i]
      /\ longer[n + 1] = event
  <2>1. /\ n \in Nat /\ DOMAIN events = 1..n
        /\ longer \in Seq(Events) /\ Len(longer) = n + 1 /\ longer[n + 1] = event
        /\ \A i \in 1..n : longer[i] = events[i]
    BY AppendProperties, LenProperties
  <2>2. DOMAIN longer = 1..(n + 1)
    BY <2>1, LenProperties
  <2>3. 1..(n + 1) = 1..n \cup {n + 1} /\ n + 1 \notin 1..n
    BY <2>1
  <2>4. QED
    BY <2>1, <2>2, <2>3
<1>2. /\ Tables(p) /\ Tables(q)
      /\ DOMAIN q.rfqs = IF event.eventName = "RfqCreated" THEN DOMAIN p.rfqs \cup {r}
                         ELSE DOMAIN p.rfqs
  BY TablesStay DEF RowsFit
<1> HIDE DEF longer, n, q
<1>3. r \in DOMAIN q.rfqs
  BY <1>2, EventsAreDecoded DEF Accepts, IsOpenRow, ActivityKinds
<1>4. \A i \in DOMAIN longer : longer[i].rfqId \in DOMAIN q.rfqs
  BY <1>1, <1>2, <1>3 DEF EventsTell
<1>5. ASSUME NEW other \in DOMAIN q.rfqs, other # r
      PROVE  /\ other \in DOMAIN p.rfqs /\ q.rfqs[other] = p.rfqs[other]
             /\ QuotesIn(longer, other) = QuotesIn(events, other)
  <2>1. other \in DOMAIN p.rfqs
    BY <1>2, <1>5
  <2>2. q.rfqs[other] = p.rfqs[other]
    <3>1. CASE Concerns(event)
      BY <1>2, <1>5, <2>1, <3>1, RequestFollows DEF q
    <3>2. CASE event.eventName = "RfqCreated"
      <4>1. q = [p EXCEPT !.rfqs = With(p.rfqs, r, NewRow(event))]
        BY <1>2, <3>2, RequestAppears DEF q
      <4>2. QED
        BY <1>2, <1>5, <2>1, <4>1 DEF Tables, With
    <3>3. CASE event.eventName = "Claimed"
      BY <1>2, <3>3, ClaimIsApart DEF q
    <3>4. QED
      BY <3>1, <3>2, <3>3 DEF Concerns
  <2>3. QuotesIn(longer, other) = QuotesIn(events, other)
    BY <1>1, <1>5 DEF QuotesIn
  <2>4. QED
    BY <2>1, <2>2, <2>3
<1>6. QuotesIn(longer, r) = IF event.eventName = "QuoteSubmitted"
                            THEN QuotesIn(events, r) \cup {n + 1} ELSE QuotesIn(events, r)
  BY <1>1 DEF QuotesIn
<1>7. n + 1 \notin QuotesIn(events, r)
  BY <1>1 DEF QuotesIn
<1> DEFINE Told(x) ==
      /\ IsFiniteSet(QuotesIn(longer, x))
      /\ Cardinality(QuotesIn(longer, x)) = q.rfqs[x].providerCount
      /\ q.rfqs[x].status # "OPEN" =>
           \E i \in DOMAIN longer : longer[i].rfqId = x /\ ClosesAs(longer[i], q.rfqs[x].status)
<1>8. ASSUME NEW x \in DOMAIN p.rfqs, p.rfqs[x].status # "OPEN",
             q.rfqs[x].status = p.rfqs[x].status
      PROVE  \E i \in DOMAIN longer : longer[i].rfqId = x /\ ClosesAs(longer[i], q.rfqs[x].status)
  <2>1. PICK i \in DOMAIN events :
          events[i].rfqId = x /\ ClosesAs(events[i], p.rfqs[x].status)
    BY <1>8 DEF EventsTell
  <2>2. i \in DOMAIN longer /\ longer[i] = events[i]
    BY <1>1
  <2>3. QED
    BY <1>8, <2>1, <2>2
<1>9. ASSUME NEW other \in DOMAIN q.rfqs, other # r PROVE Told(other)
  <2>1. /\ other \in DOMAIN p.rfqs /\ q.rfqs[other] = p.rfqs[other]
        /\ QuotesIn(longer, other) = QuotesIn(events, other)
    BY <1>5, <1>9
  <2>2. q.rfqs[other].status # "OPEN" =>
          \E i \in DOMAIN longer :
            longer[i].rfqId = other /\ ClosesAs(longer[i], q.rfqs[other].status)
    BY <1>8, <2>1
  <2>3. QED
    BY <2>1, <2>2 DEF EventsTell
<1>10. Told(r)
  <2>1. CASE Concerns(event)
    <3>1. /\ r \in DOMAIN p.rfqs /\ p.rfqs[r].status = "OPEN"
          /\ q.rfqs[r].status = StatusAfter(p.rfqs[r], event)
          /\ q.rfqs[r].providerCount = CountAfter(p.rfqs[r], event)
      BY <1>2, <2>1, RequestFollows DEF q
    <3>2. /\ IsFiniteSet(QuotesIn(events, r))
          /\ Cardinality(QuotesIn(events, r)) = p.rfqs[r].providerCount
      BY <3>1 DEF EventsTell
    <3>3. IsFiniteSet(QuotesIn(events, r) \cup {n + 1})
          /\ Cardinality(QuotesIn(events, r) \cup {n + 1}) = p.rfqs[r].providerCount + 1
      BY <1>7, <3>2, FS_AddElement
    <3>4. /\ IsFiniteSet(QuotesIn(longer, r))
          /\ Cardinality(QuotesIn(longer, r)) = q.rfqs[r].providerCount
      BY <1>6, <3>1, <3>2, <3>3 DEF CountAfter
    <3>5. StatusAfter(p.rfqs[r], event) # "OPEN" =>
            ClosesAs(event, StatusAfter(p.rfqs[r], event))
      BY <2>1, <3>1, EventsAreDecoded DEF StatusAfter, ClosesAs, Concerns, ActivityKinds
    <3>6. QED
      BY <1>1, <3>1, <3>4, <3>5
  <2>2. CASE event.eventName = "RfqCreated"
    <3>1. q = [p EXCEPT !.rfqs = With(p.rfqs, r, NewRow(event))] /\ r \notin DOMAIN p.rfqs
      BY <1>2, <2>2, RequestAppears DEF q, Accepts
    <3>2. q.rfqs[r].providerCount = 0 /\ q.rfqs[r].status = "OPEN"
      BY <1>2, <3>1 DEF Tables, With, NewRow
    <3>3. QuotesIn(longer, r) = {}
      BY <1>6, <2>2, <3>1 DEF QuotesIn, EventsTell
    <3>4. QED
      BY <3>2, <3>3, FS_EmptySet
  <2>3. CASE event.eventName = "Claimed"
    <3>1. q.rfqs = p.rfqs /\ r \in DOMAIN p.rfqs
      BY <1>2, <1>3, <2>3, ClaimIsApart DEF q
    <3>2. QuotesIn(longer, r) = QuotesIn(events, r)
      BY <1>6, <2>3
    <3>3. q.rfqs[r].status # "OPEN" =>
            \E i \in DOMAIN longer :
              longer[i].rfqId = r /\ ClosesAs(longer[i], q.rfqs[r].status)
      BY <1>8, <3>1
    <3>4. QED
      BY <3>1, <3>2, <3>3 DEF EventsTell
  <2>4. QED
    BY <2>1, <2>2, <2>3 DEF Concerns
<1>11. \A x \in DOMAIN q.rfqs : Told(x)
  BY <1>9, <1>10
<1>12. QED
  BY <1>4, <1>11 DEF EventsTell, longer, q

LEMMA LogGrowsFit ==
  ASSUME NEW events, LogIsFit(events), NEW event \in Events,
         Ingestible(RowsOf(events), event), CapIsKept(RowsOf(events), event)
  PROVE  LogIsFit(Append(events, event))
<1> DEFINE longer == Append(events, event)
           n == Len(events)
<1>1. /\ events \in Seq(Events) /\ n \in Nat
      /\ longer \in Seq(Events) /\ Len(longer) = n + 1
      /\ \A i \in 1..n : longer[i] = events[i]
  BY AppendProperties, LenProperties DEF LogIsFit
<1>2. EndIsFit(longer)
  <2>1. RowsOf(longer) = Applied(RowsOf(events), event)
    BY <1>1, RowsOfOneMore
  <2>2. RowsFit(RowsOf(events)) /\ EventsTell(events, RowsOf(events))
    BY LogEndsFit DEF EndIsFit
  <2>3. RowsFit(Applied(RowsOf(events), event))
    BY <2>2, RowsStayFit
  <2>4. EventsTell(longer, Applied(RowsOf(events), event))
    BY <1>1, <2>2, EventsStillTell DEF Ingestible
  <2>5. QED
    BY <2>1, <2>3, <2>4 DEF EndIsFit
<1> HIDE DEF longer, n
<1>3. SubSeq(longer, 1, n + 1) = longer
  BY <1>1, SubSeqFull
<1>4. ASSUME NEW k \in 0..n PROVE SubSeq(longer, 1, k) = SubSeq(events, 1, k)
  BY <1>1, <1>4 DEF n
<1>5. ASSUME NEW k \in 0..(n + 1) PROVE EndIsFit(SubSeq(longer, 1, k))
  <2>1. CASE k = n + 1
    BY <1>2, <1>3, <2>1
  <2>2. CASE k # n + 1
    <3>1. k \in 0..n
      BY <1>1, <2>2
    <3>2. QED
      BY <1>4, <3>1 DEF LogIsFit, n
  <2>3. QED
    BY <2>1, <2>2
<1>6. QED
  BY <1>1, <1>5 DEF LogIsFit, longer

LEMMA LogIsCutFit ==
  ASSUME NEW events, LogIsFit(events), NEW k \in 0..Len(events)
  PROVE  LogIsFit(SubSeq(events, 1, k)) /\ Len(SubSeq(events, 1, k)) = k
<1> DEFINE shorter == SubSeq(events, 1, k)
<1>1. events \in Seq(Events) /\ Len(events) \in Nat
  BY LenProperties DEF LogIsFit
<1>2. k \in Nat /\ \A i \in 1..k : i \in 1..Len(events) /\ events[i] \in Events
  BY <1>1, LenProperties
<1>3. shorter \in Seq(Events) /\ Len(shorter) = k
  BY <1>2, SubSeqProperties
<1>4. ASSUME NEW j \in 0..k PROVE SubSeq(shorter, 1, j) = SubSeq(events, 1, j)
  BY <1>1, <1>2, <1>4
<1> HIDE DEF shorter
<1>5. \A j \in 0..k : j \in 0..Len(events)
  BY <1>1, <1>2
<1>6. LogIsFit(shorter)
  BY <1>3, <1>4, <1>5 DEF LogIsFit
<1>7. QED
  BY <1>3, <1>6 DEF shorter

-----------------------------------------------------------------------------
(* Pages *)

\* A request's rank: older requests rank behind it.
LEMMA RanksAreOrdered ==
  ASSUME NEW ids \in SUBSET Nat, IsFiniteSet(ids), NEW r \in ids
  PROVE  /\ Rank(ids, r) \in 1..Cardinality(ids)
         /\ \A q \in ids : q < r => Rank(ids, r) < Rank(ids, q)
<1> DEFINE Newer(q) == {x \in ids : x >= q}
<1>1. ASSUME NEW q \in ids PROVE IsFiniteSet(Newer(q)) /\ Cardinality(Newer(q)) \in Nat
  <2>1. Newer(q) \in SUBSET ids
    OBVIOUS
  <2>2. QED
    BY <2>1, FS_Subset, FS_CardinalityType
<1>2. Cardinality(Newer(r)) <= Cardinality(ids) /\ Cardinality(ids) \in Nat
  <2>1. Newer(r) \in SUBSET ids
    OBVIOUS
  <2>2. QED
    BY <2>1, FS_Subset, FS_CardinalityType
<1>3. Cardinality(Newer(r)) # 0
  <2>1. r \in Newer(r)
    OBVIOUS
  <2>2. QED
    BY <1>1, <2>1, FS_EmptySet
<1>4. ASSUME NEW q \in ids, q < r PROVE Cardinality(Newer(r)) < Cardinality(Newer(q))
  <2>1. Newer(r) \in SUBSET Newer(q)
    <3>1. \A x \in ids : x >= r => x >= q
      BY <1>4
    <3>2. QED
      BY <3>1
  <2>2. q \in Newer(q) /\ q \notin Newer(r)
    BY <1>4
  <2>3. /\ Cardinality(Newer(r)) <= Cardinality(Newer(q))
        /\ Cardinality(Newer(q)) = Cardinality(Newer(r)) => Newer(q) = Newer(r)
    BY <1>1, <2>1, FS_Subset
  <2>4. QED
    BY <1>1, <2>2, <2>3
<1>5. \A q \in ids : Rank(ids, q) = Cardinality(Newer(q))
  BY DEF Rank
<1> HIDE DEF Newer
<1>6. QED
  BY <1>1, <1>2, <1>3, <1>4, <1>5

LEMMA RanksDiffer ==
  ASSUME NEW ids \in SUBSET Nat, IsFiniteSet(ids), NEW q \in ids, NEW r \in ids,
         Rank(ids, q) = Rank(ids, r)
  PROVE  q = r
<1>1. Cardinality(ids) \in Nat /\ Rank(ids, q) \in Nat /\ Rank(ids, r) \in Nat
  BY RanksAreOrdered, FS_CardinalityType
<1>2. ~(q < r) /\ ~(r < q)
  BY <1>1, RanksAreOrdered
<1>3. q \in Nat /\ r \in Nat
  OBVIOUS
<1>4. QED
  BY <1>2, <1>3

\* Every rank is someone's.
LEMMA RanksAreTaken ==
  ASSUME NEW ids \in SUBSET Nat, IsFiniteSet(ids), NEW i \in 1..Cardinality(ids)
  PROVE  \E r \in ids : Rank(ids, r) = i
<1> DEFINE n == Cardinality(ids)
           f == [r \in ids |-> Rank(ids, r)]
<1>1. n \in Nat
  BY FS_CardinalityType
<1>2. f \in [ids -> 1..n]
  BY RanksAreOrdered
<1>3. \A q, r \in ids : f[q] = f[r] => q = r
  BY RanksDiffer
<1> HIDE DEF f
<1>4. f \in Injection(ids, 1..n)
  BY <1>2, <1>3 DEF Injection, IsInjective
<1>5. IsFiniteSet(1..n) /\ Cardinality(1..n) = n
  BY <1>1, FS_Interval
<1>6. f \in Surjection(ids, 1..n)
  BY <1>4, <1>5, FS_Injection
<1>7. \E r \in ids : f[r] = i
  BY <1>6 DEF Surjection
<1>8. QED
  BY <1>7 DEF f

\* What a page shows: the newest, in order, and all that are at least as new as its last.
LEMMA PageIs ==
  ASSUME NEW ids \in SUBSET (Nat \ {0}), IsFiniteSet(ids)
  PROVE  LET page == PageRows(ids)
             n == Cardinality(ids)
         IN  /\ page \in Seq(Nat \ {0})
             /\ n <= PageLimit => Len(page) = n
             /\ n > PageLimit => Len(page) = PageLimit
             /\ \A i \in 1..Len(page) : page[i] \in ids
             /\ \A i, j \in 1..Len(page) : i < j => page[i] > page[j]
             /\ \A r \in ids, i \in 1..Len(page) :
                  r >= page[i] => \E j \in 1..Len(page) : r = page[j]
             /\ n <= PageLimit => \A r \in ids : \E j \in 1..Len(page) : r = page[j]
<1> DEFINE page == PageRows(ids)
           n == Cardinality(ids)
           m == IF n < PageLimit THEN n ELSE PageLimit
<1>1. n \in Nat /\ PageLimit \in Nat \ {0} /\ m \in Nat /\ m <= n /\ ids \in SUBSET Nat
  BY FS_CardinalityType, LimitsArePositive
<1>2. page = [i \in 1..m |-> CHOOSE r \in ids : Rank(ids, r) = i]
  BY DEF PageRows
<1>3. ASSUME NEW i \in 1..m PROVE page[i] \in ids /\ Rank(ids, page[i]) = i
  <2>1. i \in 1..n
    BY <1>1
  <2>2. PICK r \in ids : Rank(ids, r) = i
    BY <1>1, <2>1, RanksAreTaken
  <2>3. page[i] = CHOOSE x \in ids : Rank(ids, x) = i
    BY <1>2
  <2>4. QED
    BY <2>2, <2>3
<1>4. page \in [1..m -> Nat \ {0}]
  <2>1. page = [i \in 1..m |-> page[i]]
    BY <1>2
  <2> HIDE DEF page, m
  <2>2. QED
    BY <1>3, <2>1
<1> HIDE DEF page, m, n
<1>5. page \in Seq(Nat \ {0}) /\ Len(page) = m
  BY <1>1, <1>4
<1>6. \A r \in ids : Rank(ids, r) \in 1..n
  BY <1>1, RanksAreOrdered DEF n
<1>7. ASSUME NEW i \in 1..m, NEW j \in 1..m, i < j PROVE page[i] > page[j]
  <2>1. /\ page[i] \in ids /\ page[j] \in ids
        /\ Rank(ids, page[i]) = i /\ Rank(ids, page[j]) = j
    BY <1>3
  <2>2. page[i] # page[j] /\ i \in Nat /\ j \in Nat
    BY <1>1, <1>7, <2>1
  <2>3. ~(page[i] < page[j])
    <3>1. \A q \in ids : q < page[j] => Rank(ids, page[j]) < Rank(ids, q)
      BY <1>1, <2>1, RanksAreOrdered
    <3>2. page[i] < page[j] => j < i
      BY <2>1, <3>1
    <3>3. QED
      BY <1>7, <2>2, <3>2
  <2>4. page[i] \in Nat /\ page[j] \in Nat
    BY <2>1
  <2>5. QED
    BY <2>2, <2>3, <2>4
<1>8. ASSUME NEW r \in ids, Rank(ids, r) <= m PROVE \E j \in 1..m : r = page[j]
  <2>1. Rank(ids, r) \in 1..m
    BY <1>1, <1>6, <1>8
  <2>2. Rank(ids, page[Rank(ids, r)]) = Rank(ids, r) /\ page[Rank(ids, r)] \in ids
    BY <1>3, <2>1
  <2>3. \A x \in ids : Rank(ids, x) = Rank(ids, r) => x = r
    BY <1>1, RanksDiffer
  <2>4. QED
    BY <2>1, <2>2, <2>3
<1>9. ASSUME NEW r \in ids, NEW i \in 1..m, r >= page[i] PROVE \E j \in 1..m : r = page[j]
  <2>1. page[i] \in ids /\ Rank(ids, page[i]) = i /\ i \in Nat /\ i <= m
    BY <1>1, <1>3
  <2>2. CASE r = page[i]
    BY <2>2
  <2>3. CASE r # page[i]
    <3>1. page[i] < r
      <4>1. r \in Nat /\ page[i] \in Nat
        BY <2>1
      <4>2. QED
        BY <1>9, <2>3, <4>1
    <3>2. Rank(ids, r) < i
      BY <1>1, <2>1, <3>1, RanksAreOrdered
    <3>3. Rank(ids, r) <= m
      BY <1>1, <1>6, <2>1, <3>2
    <3>4. QED
      BY <1>8, <3>3
  <2>4. QED
    BY <2>2, <2>3
<1>10. /\ n <= PageLimit => m = n
       /\ n > PageLimit => m = PageLimit
  BY <1>1 DEF m
<1>11. n <= PageLimit => \A r \in ids : \E j \in 1..m : r = page[j]
  BY <1>1, <1>6, <1>8, <1>10
<1>12. QED
  BY <1>3, <1>5, <1>7, <1>9, <1>10, <1>11 DEF page, n

\* Paging on after a cursor.
Decreasing(items) == \A i, j \in DOMAIN items : i < j => items[i] > items[j]
PageGoesOn(listed, items, cursor) ==
  LET found == {r \in listed : AfterCursor(cursor, r)}
      page == PageRows(found)
      all == items \o page
      hasMore == Cardinality(found) > PageLimit
  IN  /\ found \in SUBSET listed
      /\ page \in Seq(Nat \ {0}) /\ all \in Seq(Nat \ {0}) /\ Decreasing(all)
      /\ \A i \in DOMAIN page : page[i] \in found
      /\ Range(all) = Range(items) \cup Range(page)
      /\ hasMore => page # <<>> /\ all # <<>> /\ Last(page) = all[Len(all)]
      /\ \A r \in listed : r \in Range(page) \/ ~AfterCursor(cursor, r)
                             \/ (hasMore /\ r < Last(page))
LEMMA PageAdds ==
  ASSUME NEW listed \in SUBSET (Nat \ {0}), IsFiniteSet(listed),
         NEW items \in Seq(Nat \ {0}), Decreasing(items), NEW cursor \in Nat,
         cursor = IF items = <<>> THEN 0 ELSE items[Len(items)]
  PROVE  PageGoesOn(listed, items, cursor)
<1> DEFINE found == {r \in listed : AfterCursor(cursor, r)}
           page == PageRows(found)
           all == items \o page
           n == Cardinality(found)
<1>1. found \in SUBSET listed /\ found \in SUBSET (Nat \ {0}) /\ IsFiniteSet(found)
  BY FS_Subset
<1>2. \A r \in found : cursor = 0 \/ r < cursor
  BY DEF AfterCursor
<1>3. n \in Nat /\ PageLimit \in Nat \ {0}
  BY <1>1, FS_CardinalityType, LimitsArePositive
<1>4. /\ page \in Seq(Nat \ {0})
      /\ n <= PageLimit => Len(page) = n
      /\ n > PageLimit => Len(page) = PageLimit
      /\ \A i \in 1..Len(page) : page[i] \in found
      /\ \A i, j \in 1..Len(page) : i < j => page[i] > page[j]
      /\ \A r \in found, i \in 1..Len(page) :
           r >= page[i] => \E j \in 1..Len(page) : r = page[j]
      /\ n <= PageLimit => \A r \in found : \E j \in 1..Len(page) : r = page[j]
  <2> HIDE DEF found
  <2>1. QED
    BY <1>1, PageIs DEF page, n
<1>5. \A r \in listed : r \in found \/ ~AfterCursor(cursor, r)
  OBVIOUS
<1> HIDE DEF found, page, n
<1>6. /\ Len(page) \in Nat /\ DOMAIN page = 1..Len(page)
      /\ Len(items) \in Nat /\ DOMAIN items = 1..Len(items)
      /\ all \in Seq(Nat \ {0}) /\ Len(all) = Len(items) + Len(page)
      /\ DOMAIN all = 1..Len(all)
      /\ \A i \in 1..Len(items) : all[i] = items[i]
      /\ \A i \in 1..Len(page) : all[Len(items) + i] = page[i]
  <2>1. all \in Seq(Nat \ {0}) /\ Len(all) = Len(items) + Len(page)
        /\ \A i \in 1..Len(items) + Len(page) :
             all[i] = IF i <= Len(items) THEN items[i] ELSE page[i - Len(items)]
    BY <1>4, ConcatProperties
  <2>2. Len(page) \in Nat /\ DOMAIN page = 1..Len(page)
        /\ Len(items) \in Nat /\ DOMAIN items = 1..Len(items) /\ DOMAIN all = 1..Len(all)
    BY <1>4, <2>1, LenProperties
  <2> HIDE DEF all
  <2>3. \A i \in 1..Len(items) : all[i] = items[i]
    BY <2>1, <2>2
  <2>4. ASSUME NEW i \in 1..Len(page) PROVE all[Len(items) + i] = page[i]
    <3>1. /\ Len(items) + i \in 1..Len(items) + Len(page)
          /\ ~(Len(items) + i <= Len(items)) /\ (Len(items) + i) - Len(items) = i
      BY <2>2
    <3>2. QED
      BY <2>1, <3>1
  <2>5. QED
    BY <2>1, <2>2, <2>3, <2>4
<1> HIDE DEF all
<1>7. ASSUME NEW i \in DOMAIN all
      PROVE  \/ i \in 1..Len(items) /\ all[i] = items[i]
             \/ /\ i - Len(items) \in 1..Len(page) /\ i > Len(items)
                /\ all[i] = page[i - Len(items)]
  <2>1. CASE i <= Len(items)
    BY <1>6, <2>1
  <2>2. CASE i > Len(items)
    <3>1. i - Len(items) \in 1..Len(page) /\ i = Len(items) + (i - Len(items))
      BY <1>6, <2>2
    <3>2. QED
      BY <1>6, <2>2, <3>1
  <2>3. QED
    BY <1>6, <2>1, <2>2
<1>8. Range(all) = Range(items) \cup Range(page)
  <2>1. Range(all) \subseteq Range(items) \cup Range(page)
    BY <1>6, <1>7 DEF Range
  <2>2. Range(items) \subseteq Range(all)
    <3>1. \A i \in 1..Len(items) : i \in DOMAIN all
      BY <1>6
    <3>2. QED
      BY <1>6, <3>1 DEF Range
  <2>3. Range(page) \subseteq Range(all)
    <3>1. ASSUME NEW i \in 1..Len(page) PROVE Len(items) + i \in DOMAIN all
      <4>1. Len(items) + i \in 1..(Len(items) + Len(page))
        BY <1>6
      <4>2. QED
        BY <1>6, <4>1
    <3>2. QED
      BY <1>6, <3>1 DEF Range
  <2>4. QED
    BY <2>1, <2>2, <2>3
<1>9. ASSUME NEW i \in 1..Len(items), NEW j \in 1..Len(page) PROVE items[i] > page[j]
  <2>1. items # <<>> /\ Len(items) \in 1..Len(items) /\ cursor = items[Len(items)]
    BY <1>6
  <2>2. items[Len(items)] \in Nat \ {0} /\ items[i] \in Nat /\ page[j] \in Nat
    BY <1>4, <1>6, <2>1, LenProperties
  <2>3. page[j] < cursor
    BY <1>2, <1>4, <2>1, <2>2
  <2>4. items[i] >= items[Len(items)]
    <3>1. CASE i = Len(items)
      BY <2>2, <3>1
    <3>2. CASE i # Len(items)
      <4>1. i < Len(items) /\ i \in DOMAIN items /\ Len(items) \in DOMAIN items
        BY <1>6, <2>1, <3>2
      <4>2. items[i] > items[Len(items)]
        BY <4>1 DEF Decreasing
      <4>3. QED
        BY <2>2, <4>2
    <3>3. QED
      BY <3>1, <3>2
  <2>5. QED
    BY <2>1, <2>2, <2>3, <2>4
<1>10. Decreasing(all)
  <2> SUFFICES ASSUME NEW i \in DOMAIN all, NEW j \in DOMAIN all, i < j PROVE all[i] > all[j]
    BY DEF Decreasing
  <2>1. i \in Nat /\ j \in Nat
    BY <1>6
  <2>2. CASE j \in 1..Len(items) /\ all[j] = items[j]
    <3>1. i \in 1..Len(items) /\ all[i] = items[i]
      BY <1>6, <2>1, <2>2
    <3>2. i \in DOMAIN items /\ j \in DOMAIN items
      BY <1>6, <2>2, <3>1
    <3>3. QED
      BY <2>2, <3>1, <3>2 DEF Decreasing
  <2>3. CASE j - Len(items) \in 1..Len(page) /\ all[j] = page[j - Len(items)]
    <3>1. CASE i \in 1..Len(items) /\ all[i] = items[i]
      BY <1>9, <2>3, <3>1
    <3>2. CASE i - Len(items) \in 1..Len(page) /\ all[i] = page[i - Len(items)]
      <4>1. i - Len(items) < j - Len(items)
        BY <1>6, <2>1
      <4>2. QED
        BY <1>4, <2>3, <3>2, <4>1
    <3>3. QED
      BY <1>7, <3>1, <3>2
  <2>4. QED
    BY <1>7, <2>2, <2>3
<1>11. ASSUME n > PageLimit PROVE page # <<>> /\ all # <<>> /\ Last(page) = all[Len(all)]
  <2>1. Len(page) = PageLimit /\ Len(page) \in 1..Len(page)
    BY <1>3, <1>4, <1>11
  <2>2. all[Len(items) + Len(page)] = page[Len(page)]
    BY <1>6, <2>1
  <2>3. Len(page) # 0 /\ Len(all) # 0
    BY <1>3, <1>6, <2>1
  <2>4. page # <<>> /\ all # <<>>
    BY <2>3, EmptySeq
  <2>5. QED
    BY <1>6, <2>2, <2>4 DEF Last
<1>12. ASSUME NEW r \in found
       PROVE  r \in Range(page) \/ (n > PageLimit /\ r < Last(page))
  <2>1. CASE n <= PageLimit
    BY <1>4, <1>6, <2>1 DEF Range
  <2>2. CASE n > PageLimit
    <3>1. Last(page) = page[Len(page)] /\ Len(page) \in 1..Len(page)
      BY <1>3, <1>4, <2>2 DEF Last
    <3>2. r \in Nat /\ page[Len(page)] \in Nat
      BY <1>1, <1>4, <3>1
    <3>3. r >= page[Len(page)] => r \in Range(page)
      BY <1>4, <1>6, <3>1 DEF Range
    <3>4. QED
      BY <2>2, <3>1, <3>2, <3>3
  <2>3. QED
    BY <1>3, <2>1, <2>2
<1>13. \A i \in DOMAIN page : page[i] \in found
  BY <1>4, <1>6
<1>14. QED
  BY <1>1, <1>4, <1>5, <1>6, <1>8, <1>10, <1>11, <1>12, <1>13 DEF found, page, all, n, PageGoesOn

-----------------------------------------------------------------------------
(* The invariant *)

WalkIsFit(w, rows) ==
  /\ DOMAIN w = {"filter", "cursor", "items", "done", "always", "ever"}
  /\ w.items \in Seq(Nat \ {0}) /\ Decreasing(w.items) /\ Range(w.items) \subseteq w.ever
  /\ w.done => w.always \subseteq Range(w.items)
  /\ ~w.done =>
       /\ w.cursor = IF w.items = <<>> THEN 0 ELSE w.items[Len(w.items)]
       /\ w.always \subseteq Listing(rows, w.filter) /\ Listing(rows, w.filter) \subseteq w.ever
       /\ \A r \in w.always : w.items # <<>> /\ r >= w.cursor => r \in Range(w.items)

\* The health row tells where the log ends.
HealthIsFit ==
  /\ health = None => log = <<>>
  /\ health # None =>
       /\ DOMAIN health = {"status", "detailCode", "indexed", "mode", "source"}
       /\ health.detailCode \in DetailCodes /\ health.indexed = Len(log)
       /\ health.mode \in {"fixture", "live"}

\* What a first query told, the rows still know.
StillTold(summary, rows, r) ==
  /\ r \in DOMAIN rows.rfqs
  /\ summary.row.providerCount <= rows.rfqs[r].providerCount
  /\ summary.winner # None => summary.winner.provider \in QuotersOf(rows, r)
  /\ summary.row.status # "OPEN" => rows.rfqs[r].status = summary.row.status

\* The providers that were read, between the first query and what the rows know.
Covers(results, rows, r) ==
  /\ IsFiniteSet(DOMAIN results.providers)
  /\ Cardinality(DOMAIN results.providers) >= results.summary.row.providerCount
  /\ results.summary.winner # None =>
       results.summary.winner.provider \in DOMAIN results.providers
  /\ Cardinality(DOMAIN results.providers) <= rows.rfqs[r].providerCount

\* What is known of the results of the queries before the next one.
Known(path, r, next, results, disturbed, rows) ==
  /\ path \in {"detail", "proof"} /\ next > 1 =>
       /\ results.summary.row.providerCount \in Nat
       /\ ProofFits(results.summary)
       /\ ~disturbed => StillTold(results.summary, rows, r)
  /\ path = "detail" /\ next > 2 /\ ~disturbed => results.sellerCiphertext # None
  /\ path = "detail" /\ next > 3 =>
       /\ ProvidersFit(results.providers)
       /\ ~disturbed => Covers(results, rows, r)
  /\ path = "stats" /\ next > 1 =>
       /\ StatsFit(results.counts, None)
       /\ ~disturbed => results.counts.rfqs <= Cardinality(DOMAIN rows.rfqs)

ReadIsFit(rd, rows) ==
  /\ DOMAIN rd = {"request", "next", "results", "disturbed"}
  /\ rd.request \in Requests
  /\ rd.disturbed \in BOOLEAN
  /\ rd.next \in 1..Len(Queries[rd.request.path])
  /\ DOMAIN rd.results = {Queries[rd.request.path][i] : i \in 1..(rd.next - 1)}
  /\ Known(rd.request.path, rd.request.rfqId, rd.next, rd.results, rd.disturbed, rows)

ServiceInv ==
  /\ environment \in Environments
  /\ LogIsFit(log)
  /\ HealthIsFit
  /\ walk # None => WalkIsFit(walk, Rows)
  /\ reading # None => ReadIsFit(reading, Rows)
  /\ InternalErrorsHaveACause
  /\ AnswersCohere

-----------------------------------------------------------------------------
(* Walks *)

\* A walk goes on while the rows change.
LEMMA WatchedIsFit ==
  ASSUME NEW w, NEW before, w # None => WalkIsFit(w, before), NEW rows,
         Watched(w, rows) # None
  PROVE  WalkIsFit(Watched(w, rows), rows)
<1> DEFINE now == Listing(rows, w.filter)
<1>1. w # None /\ ~w.done
  BY DEF Watched, Unfinished
<1>2. Watched(w, rows) = [w EXCEPT !.always = @ \cap now, !.ever = @ \cup now]
  BY <1>1 DEF Watched, Unfinished
<1> HIDE DEF now
<1> DEFINE v == [w EXCEPT !.always = @ \cap now, !.ever = @ \cup now]
<1>3. WalkIsFit(w, before)
  BY <1>1
<1>4. /\ DOMAIN v = DOMAIN w /\ v.filter = w.filter /\ v.cursor = w.cursor
      /\ v.items = w.items /\ v.done = w.done
      /\ v.always = w.always \cap now /\ v.ever = w.ever \cup now
  BY <1>3 DEF WalkIsFit
<1> HIDE DEF v
<1>5. WalkIsFit(v, rows)
  BY <1>1, <1>3, <1>4 DEF WalkIsFit, now
<1>6. QED
  BY <1>2, <1>5 DEF v

LEMMA UnfinishedIsFit ==
  ASSUME NEW w, NEW rows, w # None => WalkIsFit(w, rows), Unfinished(w) # None
  PROVE  WalkIsFit(Unfinished(w), rows)
BY DEF Unfinished

\* Listings list requests.
LEMMA ListingIs ==
  ASSUME NEW p, RowsFit(p), NEW f
  PROVE  /\ Listing(p, f) \in SUBSET DOMAIN p.rfqs
         /\ Listing(p, f) \in SUBSET (Nat \ {0}) /\ IsFiniteSet(Listing(p, f))
<1>1. Listing(p, f) \in SUBSET DOMAIN p.rfqs
  BY DEF Listing, PortfolioOf
<1>2. DOMAIN p.rfqs \in SUBSET (Nat \ {0})
  BY DEF RowsFit, FitsSchema, RequestsFit
<1>3. IsFiniteSet(DOMAIN p.rfqs)
  BY DEF RowsFit
<1>4. IsFiniteSet(Listing(p, f))
  BY <1>1, <1>3, FS_Subset
<1>5. QED
  BY <1>1, <1>2, <1>4

\* A page more.
LEMMA PagedIsFit ==
  ASSUME NEW p, RowsFit(p), NEW w, WalkIsFit(w, p), ~w.done,
         NEW found, found = {r \in Listing(p, w.filter) : AfterCursor(w.cursor, r)},
         NEW hasMore \in BOOLEAN, hasMore <=> Cardinality(found) > PageLimit,
         NEW v, v = [w EXCEPT !.items = @ \o PageRows(found),
                              !.cursor = IF hasMore THEN Last(PageRows(found)) ELSE 0,
                              !.done = ~hasMore]
  PROVE  /\ WalkIsFit(v, p)
         /\ \A i \in DOMAIN PageRows(found) : PageRows(found)[i] \in DOMAIN p.rfqs
<1> DEFINE listed == Listing(p, w.filter)
           page == PageRows(found)
           all == w.items \o page
<1>1. /\ listed \in SUBSET DOMAIN p.rfqs /\ listed \in SUBSET (Nat \ {0})
      /\ IsFiniteSet(listed)
  BY ListingIs
<1>2. /\ DOMAIN w = {"filter", "cursor", "items", "done", "always", "ever"}
      /\ w.items \in Seq(Nat \ {0}) /\ Decreasing(w.items) /\ Range(w.items) \subseteq w.ever
      /\ w.cursor = IF w.items = <<>> THEN 0 ELSE w.items[Len(w.items)]
      /\ w.always \subseteq listed /\ listed \subseteq w.ever
      /\ \A r \in w.always : w.items # <<>> /\ r >= w.cursor => r \in Range(w.items)
  BY DEF WalkIsFit
<1>3. w.cursor \in Nat /\ (w.items # <<>> => w.cursor # 0)
  <2>1. CASE w.items = <<>>
    BY <1>2, <2>1
  <2>2. CASE w.items # <<>>
    <3>1. Len(w.items) \in 1..Len(w.items)
      BY <1>2, <2>2, EmptySeq, LenProperties
    <3>2. w.items[Len(w.items)] \in Nat \ {0}
      BY <1>2, <3>1, LenProperties
    <3>3. QED
      BY <1>2, <2>2, <3>2
  <2>3. QED
    BY <2>1, <2>2
<1>4. found = {r \in listed : AfterCursor(w.cursor, r)}
  OBVIOUS
<1> HIDE DEF listed
<1>5. /\ found \in SUBSET listed
      /\ page \in Seq(Nat \ {0}) /\ all \in Seq(Nat \ {0}) /\ Decreasing(all)
      /\ \A i \in DOMAIN page : page[i] \in found
      /\ Range(all) = Range(w.items) \cup Range(page)
      /\ hasMore => page # <<>> /\ all # <<>> /\ Last(page) = all[Len(all)]
      /\ \A r \in listed : r \in Range(page) \/ ~AfterCursor(w.cursor, r)
                             \/ (hasMore /\ r < Last(page))
  <2> DEFINE ids == {r \in listed : AfterCursor(w.cursor, r)}
             some == PageRows(ids)
             seen == w.items \o some
             more == Cardinality(ids) > PageLimit
  <2>1. PageGoesOn(listed, w.items, w.cursor)
    BY <1>1, <1>2, <1>3, PageAdds
  <2>2. ids = found /\ some = page /\ seen = all /\ (more <=> hasMore)
    BY <1>4
  <2>3. /\ ids \in SUBSET listed
        /\ some \in Seq(Nat \ {0}) /\ seen \in Seq(Nat \ {0}) /\ Decreasing(seen)
        /\ \A i \in DOMAIN some : some[i] \in ids
        /\ Range(seen) = Range(w.items) \cup Range(some)
        /\ more => some # <<>> /\ seen # <<>> /\ Last(some) = seen[Len(seen)]
        /\ \A r \in listed : r \in Range(some) \/ ~AfterCursor(w.cursor, r)
                               \/ (more /\ r < Last(some))
    BY <2>1 DEF PageGoesOn
  <2> HIDE DEF ids, some, seen, more, page, all
  <2>4. QED
    BY <2>2, <2>3
<1>6. /\ DOMAIN v = DOMAIN w /\ v.filter = w.filter /\ v.always = w.always /\ v.ever = w.ever
      /\ v.items = all /\ v.cursor = (IF hasMore THEN Last(page) ELSE 0)
      /\ v.done = ~hasMore
  BY <1>2
<1> HIDE DEF page, all
<1>7. Range(page) \subseteq listed
  BY <1>5 DEF Range
<1>8. Range(all) \subseteq w.ever
  BY <1>2, <1>5, <1>7
<1>9. ASSUME NEW r \in w.always
      PROVE  r \in Range(all) \/ (hasMore /\ r < Last(page))
  <2>1. r \in listed /\ r \in Nat
    BY <1>1, <1>2
  <2>2. ~AfterCursor(w.cursor, r) => w.items # <<>> /\ r >= w.cursor
    BY <1>2, <1>3, <2>1 DEF AfterCursor
  <2>3. ~AfterCursor(w.cursor, r) => r \in Range(w.items)
    BY <1>2, <2>2
  <2>4. QED
    BY <1>5, <2>1, <2>3
<1>10. hasMore => Last(page) \in Nat
  <2>1. hasMore => Len(page) \in DOMAIN page
    BY <1>5, EmptySeq, LenProperties
  <2>2. hasMore => Last(page) \in listed
    BY <1>5, <2>1 DEF Last
  <2>3. QED
    BY <1>1, <2>2
<1>11. ASSUME NEW r \in w.always, hasMore, r >= Last(page) PROVE r \in Range(all)
  <2>1. r \in Nat
    BY <1>1, <1>2
  <2>2. QED
    BY <1>9, <1>10, <1>11, <2>1
<1>12. WalkIsFit(v, p)
  <2>1. v.done => v.always \subseteq Range(v.items)
    BY <1>6, <1>9
  <2>2. ~v.done => v.cursor = IF v.items = <<>> THEN 0 ELSE v.items[Len(v.items)]
    BY <1>5, <1>6
  <2>3. v.always \subseteq Listing(p, v.filter) /\ Listing(p, v.filter) \subseteq v.ever
    BY <1>2, <1>6 DEF listed
  <2>4. ~v.done => \A r \in v.always : v.items # <<>> /\ r >= v.cursor => r \in Range(v.items)
    BY <1>6, <1>11
  <2>5. QED
    BY <1>2, <1>5, <1>6, <1>8, <2>1, <2>2, <2>3, <2>4 DEF WalkIsFit
<1>13. \A i \in DOMAIN page : page[i] \in DOMAIN p.rfqs
  BY <1>1, <1>5
<1>14. QED
  BY <1>12, <1>13 DEF page

-----------------------------------------------------------------------------
(* Answers put together *)

\* Rows that know all that others knew.
KnowMore(q, p) ==
  /\ DOMAIN p.rfqs \subseteq DOMAIN q.rfqs
  /\ Cardinality(DOMAIN p.rfqs) <= Cardinality(DOMAIN q.rfqs)
  /\ \A r \in DOMAIN p.rfqs :
       /\ p.rfqs[r].providerCount <= q.rfqs[r].providerCount
       /\ QuotersOf(p, r) \subseteq QuotersOf(q, r)
       /\ p.rfqs[r].status # "OPEN" => q.rfqs[r].status = p.rfqs[r].status

LEMMA RowsKnowMore ==
  ASSUME NEW p, RowsFit(p), NEW event \in Events, Ingestible(p, event)
  PROVE  KnowMore(Applied(p, event), p)
<1> DEFINE q == Applied(p, event)
           r == event.rfqId
<1>1. /\ Tables(p) /\ Tables(q) /\ Accepts(p, event) /\ IsFiniteSet(DOMAIN p.rfqs)
      /\ DOMAIN q.rfqs = IF event.eventName = "RfqCreated" THEN DOMAIN p.rfqs \cup {r}
                         ELSE DOMAIN p.rfqs
  BY TablesStay DEF RowsFit, Ingestible
<1>2. q.providers = IF event.eventName = "QuoteSubmitted"
                    THEN With(p.providers, <<r, event.provider>>, p.rfqs[r].providerCount)
                    ELSE p.providers
  BY <1>1, SeatsFollow
<1> HIDE DEF q
<1>3. DOMAIN p.providers \subseteq DOMAIN q.providers
  BY <1>2 DEF With
<1>4. \A x : QuotersOf(p, x) \subseteq QuotersOf(q, x)
  BY <1>3 DEF QuotersOf
<1>5. DOMAIN p.rfqs \subseteq DOMAIN q.rfqs
  BY <1>1
<1>6. Cardinality(DOMAIN p.rfqs) <= Cardinality(DOMAIN q.rfqs)
  <2>1. IsFiniteSet(DOMAIN p.rfqs \cup {r})
    BY <1>1, FS_AddElement
  <2>2. IsFiniteSet(DOMAIN q.rfqs)
    BY <1>1, <2>1
  <2>3. QED
    BY <1>5, <2>2, FS_Subset
<1>7. ASSUME NEW x \in DOMAIN p.rfqs
      PROVE  /\ p.rfqs[x].providerCount <= q.rfqs[x].providerCount
             /\ p.rfqs[x].status # "OPEN" => q.rfqs[x].status = p.rfqs[x].status
  <2>1. p.rfqs[x].providerCount \in Nat
    BY <1>1 DEF Tables, RowIsTyped
  <2>2. CASE Concerns(event)
    <3>1. /\ r \in DOMAIN p.rfqs /\ p.rfqs[r].status = "OPEN"
          /\ \A other \in DOMAIN p.rfqs \ {r} : q.rfqs[other] = p.rfqs[other]
          /\ q.rfqs[r].providerCount = CountAfter(p.rfqs[r], event)
      BY <1>1, <2>2, RequestFollows DEF q
    <3>2. CASE x = r
      BY <2>1, <3>1, <3>2 DEF CountAfter
    <3>3. CASE x # r
      BY <2>1, <3>1, <3>3
    <3>4. QED
      BY <3>2, <3>3
  <2>3. CASE event.eventName = "RfqCreated"
    <3>1. q = [p EXCEPT !.rfqs = With(p.rfqs, r, NewRow(event))] /\ r \notin DOMAIN p.rfqs
      BY <1>1, <2>3, RequestAppears DEF q, Accepts
    <3>2. q.rfqs[x] = p.rfqs[x]
      BY <1>1, <3>1 DEF Tables, With
    <3>3. QED
      BY <2>1, <3>2
  <2>4. CASE event.eventName = "Claimed"
    <3>1. q.rfqs = p.rfqs
      BY <1>1, <2>4, ClaimIsApart DEF q
    <3>2. QED
      BY <2>1, <3>1
  <2>5. QED
    BY <2>2, <2>3, <2>4 DEF Concerns
<1>8. QED
  BY <1>4, <1>5, <1>6, <1>7 DEF KnowMore, q

\* What a reader knows stays known while the rows know more, and nothing holds it to a log
\* that was rolled back.
LEMMA KnownStays ==
  ASSUME NEW p, RowsFit(p), NEW q, RowsFit(q), KnowMore(q, p),
         NEW path, NEW r, NEW next \in Nat, NEW results, NEW disturbed,
         Known(path, r, next, results, disturbed, p)
  PROVE  Known(path, r, next, results, disturbed, q)
<1>1. /\ \A x \in DOMAIN p.rfqs : p.rfqs[x].providerCount \in Nat
      /\ \A x \in DOMAIN q.rfqs : q.rfqs[x].providerCount \in Nat
      /\ \A x \in DOMAIN q.rfqs : Cardinality(QuotersOf(q, x)) \in Nat
      /\ Cardinality(DOMAIN p.rfqs) \in Nat /\ Cardinality(DOMAIN q.rfqs) \in Nat
  BY FS_CardinalityType DEF RowsFit, Tables, RowIsTyped, SeatsAreCounted
<1>2. ASSUME path \in {"detail", "proof"}, next > 1, ~disturbed
      PROVE  StillTold(results.summary, q, r)
  <2>1. StillTold(results.summary, p, r) /\ results.summary.row.providerCount \in Nat
    BY <1>2 DEF Known
  <2>2. r \in DOMAIN p.rfqs /\ r \in DOMAIN q.rfqs
    BY <2>1 DEF StillTold, KnowMore
  <2>3. /\ results.summary.row.providerCount <= p.rfqs[r].providerCount
        /\ p.rfqs[r].providerCount <= q.rfqs[r].providerCount
        /\ p.rfqs[r].providerCount \in Nat /\ q.rfqs[r].providerCount \in Nat
    BY <1>1, <2>1, <2>2 DEF StillTold, KnowMore
  <2>4. results.summary.row.providerCount <= q.rfqs[r].providerCount
    BY <2>1, <2>3
  <2>5. QED
    BY <2>1, <2>2, <2>4 DEF StillTold, KnowMore
<1>3. ASSUME path = "detail", next > 3, ~disturbed
      PROVE  Covers(results, q, r)
  <2>1. Covers(results, p, r) /\ StillTold(results.summary, p, r)
    <3>1. next > 1
      BY <1>3
    <3>2. QED
      BY <1>3, <3>1 DEF Known
  <2>2. r \in DOMAIN p.rfqs /\ r \in DOMAIN q.rfqs
    BY <2>1 DEF StillTold, KnowMore
  <2>3. /\ Cardinality(DOMAIN results.providers) <= p.rfqs[r].providerCount
        /\ p.rfqs[r].providerCount <= q.rfqs[r].providerCount
        /\ p.rfqs[r].providerCount \in Nat /\ q.rfqs[r].providerCount \in Nat
        /\ Cardinality(DOMAIN results.providers) \in Nat
    BY <1>1, <2>1, <2>2, FS_CardinalityType DEF Covers, KnowMore
  <2>4. QED
    BY <2>1, <2>3 DEF Covers
<1>4. ASSUME path = "stats", next > 1, ~disturbed
      PROVE  results.counts.rfqs <= Cardinality(DOMAIN q.rfqs)
  <2>1. /\ results.counts.rfqs \in Nat
        /\ results.counts.rfqs <= Cardinality(DOMAIN p.rfqs)
        /\ Cardinality(DOMAIN p.rfqs) <= Cardinality(DOMAIN q.rfqs)
    BY <1>4 DEF Known, KnowMore, StatsFit
  <2>2. QED
    BY <1>1, <2>1
<1>5. QED
  BY <1>2, <1>3, <1>4 DEF Known

\* The queries, one by one.
LEMMA SummaryRead ==
  ASSUME NEW p, RowsFit(p), NEW r \in DOMAIN p.rfqs,
         NEW results, results.summary = SummaryRow(p, r), NEW disturbed,
         NEW path \in {"detail", "proof"}
  PROVE  SummaryFits(results.summary) /\ Known(path, r, 2, results, disturbed, p)
<1>1. SummaryFits(SummaryRow(p, r)) /\ ProofFits(SummaryRow(p, r))
  BY SummariesFit
<1>2. SummaryRow(p, r).row = p.rfqs[r] /\ SummaryRow(p, r).winner = WinnerRow(p, r)
  BY DEF SummaryRow
<1>3. p.rfqs[r].providerCount \in Nat
  BY DEF RowsFit, Tables, RowIsTyped
<1>4. WinnerRow(p, r) # None => WinnerRow(p, r).provider \in QuotersOf(p, r)
  BY WinnerRowIs
<1>5. StillTold(results.summary, p, r)
  BY <1>2, <1>3, <1>4 DEF StillTold
<1>6. QED
  BY <1>1, <1>2, <1>3, <1>5 DEF Known

LEMMA ProvidersRead ==
  ASSUME NEW p, RowsFit(p), NEW r, NEW results,
         results.providers = [a \in QuotersOf(p, r) |-> p.providers[<<r, a>>]]
  PROVE  /\ ProvidersFit(results.providers)
         /\ StillTold(results.summary, p, r) => Covers(results, p, r)
<1>1. ASSUME NEW a \in QuotersOf(p, r) PROVE p.providers[<<r, a>>] \in Nat
  <2>1. PICK k \in DOMAIN p.providers : k[1] = r /\ k[2] = a
    BY DEF QuotersOf
  <2>2. k = <<k[1], k[2]>>
    BY DEF RowsFit, SeatsAreCounted
  <2>3. p.providers[k] \in Nat
    BY DEF RowsFit, FitsSchema, SeatsFit
  <2>4. QED
    BY <2>1, <2>2, <2>3
<1>2. DOMAIN results.providers = QuotersOf(p, r)
  OBVIOUS
<1>3. ProvidersFit(results.providers)
  BY <1>1, <1>2 DEF ProvidersFit
<1>4. ASSUME StillTold(results.summary, p, r) PROVE Covers(results, p, r)
  <2>1. r \in DOMAIN p.rfqs
    BY <1>4 DEF StillTold
  <2>2. /\ IsFiniteSet(QuotersOf(p, r))
        /\ Cardinality(QuotersOf(p, r)) = p.rfqs[r].providerCount
        /\ p.rfqs[r].providerCount \in Nat
    BY <2>1 DEF RowsFit, SeatsAreCounted, Tables, RowIsTyped
  <2>3. QED
    BY <1>2, <1>4, <2>2 DEF StillTold, Covers
<1>5. QED
  BY <1>3, <1>4

AllIsTold(results) ==
  /\ Cardinality(QuotesTold(results.activity)) >= Cardinality(DOMAIN results.providers)
  /\ results.summary.row.status # "OPEN" =>
       \E i \in DOMAIN results.activity :
         ClosesAs(results.activity[i], results.summary.row.status)
LEMMA ActivityRead ==
  ASSUME NEW events \in Seq(Events), NEW p, RowsFit(p), EventsTell(events, p), NEW r, NEW results,
         results.activity = ActivityOf(events, r)
  PROVE  /\ ActivityFits(results.activity)
         /\ StillTold(results.summary, p, r) /\ Covers(results, p, r) => AllIsTold(results)
<1>1. /\ DOMAIN results.activity = {i \in DOMAIN events : events[i].rfqId = r}
      /\ \A i \in DOMAIN results.activity : results.activity[i] = events[i]
  BY DEF ActivityOf
<1>2. \A i \in DOMAIN events : events[i] \in Events
  BY LenProperties
<1>3. ActivityFits(results.activity)
  BY <1>1, <1>2, EventsAreDecoded DEF ActivityFits
<1>4. QuotesTold(results.activity) = QuotesIn(events, r)
  BY <1>1 DEF QuotesTold, QuotesIn
<1>5. ASSUME StillTold(results.summary, p, r), Covers(results, p, r)
      PROVE  AllIsTold(results)
  <2>1. r \in DOMAIN p.rfqs
    BY <1>5 DEF StillTold
  <2>2. /\ Cardinality(QuotesIn(events, r)) = p.rfqs[r].providerCount
        /\ Cardinality(DOMAIN results.providers) <= p.rfqs[r].providerCount
        /\ p.rfqs[r].status # "OPEN" =>
             \E i \in DOMAIN events :
               events[i].rfqId = r /\ ClosesAs(events[i], p.rfqs[r].status)
    BY <1>5, <2>1 DEF EventsTell, Covers
  <2>3. p.rfqs[r].providerCount \in Nat /\ Cardinality(DOMAIN results.providers) \in Nat
    BY <1>5, <2>1, FS_CardinalityType DEF RowsFit, Tables, RowIsTyped, Covers
  <2>4. ASSUME results.summary.row.status # "OPEN"
        PROVE  \E i \in DOMAIN results.activity :
                 ClosesAs(results.activity[i], results.summary.row.status)
    <3>1. p.rfqs[r].status = results.summary.row.status
      BY <1>5, <2>4 DEF StillTold
    <3>2. PICK i \in DOMAIN events : events[i].rfqId = r /\ ClosesAs(events[i], p.rfqs[r].status)
      BY <2>2, <2>4, <3>1
    <3>3. i \in DOMAIN results.activity /\ results.activity[i] = events[i]
      BY <1>1, <3>2
    <3>4. QED
      BY <3>1, <3>2, <3>3
  <2>5. QED
    BY <1>4, <2>2, <2>3, <2>4 DEF AllIsTold
<1>6. QED
  BY <1>3, <1>5

\* Why an answer may be an internal error, and what a good one says.
Caused(path, results, disturbed) ==
  \/ path = "detail" /\ disturbed
  \/ path = "health" /\ results.health = None
  \/ path \in {"proofCenter", "metadata"}
       /\ (results.metadata = None \/ results.metadata.source \notin PlainSources)
Coheres(path, results, logs) ==
  /\ path \in {"detail", "proof"} =>
       /\ Cardinality(DOMAIN results.providers) >= results.summary.row.providerCount
       /\ results.summary.winner # None =>
            results.summary.winner.provider \in DOMAIN results.providers
  /\ path = "detail" => AllIsTold(results)
  /\ path = "stats" =>
       results.counts.rfqs <=
         Cardinality(DOMAIN RowsOf(SubSeq(logs, 1,
           IF results.health = None THEN 0 ELSE results.health.indexed)).rfqs)

\* What a query leads to: no row, an internal error with its cause, more queries with what
\* is known now, or a good answer.
Leads(path, r, next, results, disturbed, rows, logs) ==
  LET query == Queries[path][next]
  IN  \/ query \in {"summary", "exists"} /\ results[query] = None
      \/ ~Parses(path, query, results) /\ Caused(path, results, disturbed)
           /\ query = Last(Queries[path])
      \/ /\ Parses(path, query, results) /\ query # Last(Queries[path])
         /\ next < Len(Queries[path]) /\ Known(path, r, next + 1, results, disturbed, rows)
      \/ /\ Parses(path, query, results) /\ query = Last(Queries[path])
         /\ ~disturbed => Coheres(path, results, logs)

LEMMA QueriesAre ==
  /\ DOMAIN Queries = {"detail", "proof", "proofCenter", "stats", "health", "metadata"}
  /\ Queries["detail"] = <<"summary", "sellerCiphertext", "providers", "activity">>
  /\ Queries["proof"] = <<"summary", "providers">>
  /\ Queries["proofCenter"] = <<"exists", "metadata">>
  /\ Queries["stats"] = <<"counts", "health">>
  /\ Queries["health"] = <<"health">> /\ Queries["metadata"] = <<"metadata">>
BY DEF Queries

LEMMA LastQueriesAre ==
  /\ Len(Queries["detail"]) = 4 /\ Last(Queries["detail"]) = "activity"
  /\ Len(Queries["proof"]) = 2 /\ Last(Queries["proof"]) = "providers"
  /\ Len(Queries["proofCenter"]) = 2 /\ Last(Queries["proofCenter"]) = "metadata"
  /\ Len(Queries["stats"]) = 2 /\ Last(Queries["stats"]) = "health"
  /\ Len(Queries["health"]) = 1 /\ Last(Queries["health"]) = "health"
  /\ Len(Queries["metadata"]) = 1 /\ Last(Queries["metadata"]) = "metadata"
<1>1. Len(Queries["detail"]) = 4 /\ Len(Queries["proof"]) = 2
      /\ Len(Queries["proofCenter"]) = 2 /\ Len(Queries["stats"]) = 2
      /\ Len(Queries["health"]) = 1 /\ Len(Queries["metadata"]) = 1
  BY QueriesAre
<1>2. QED
  BY <1>1, QueriesAre DEF Last

LEMMA EachPathsQueries ==
  ASSUME NEW path \in DOMAIN Queries, NEW next \in 1..Len(Queries[path])
  PROVE  \/ path = "detail" /\ next \in {1, 2, 3, 4}
         \/ path = "proof" /\ next \in {1, 2}
         \/ path = "proofCenter" /\ next \in {1, 2}
         \/ path = "stats" /\ next \in {1, 2}
         \/ path = "health" /\ next = 1
         \/ path = "metadata" /\ next = 1
<1>1. path \in {"detail", "proof", "proofCenter", "stats", "health", "metadata"}
  BY QueriesAre
<1>2. CASE path = "detail"
  <2>1. Len(Queries[path]) = 4
    BY <1>2, LastQueriesAre
  <2>2. QED
    BY <1>2, <2>1
<1>3. CASE path \in {"proof", "proofCenter", "stats"}
  <2>1. Len(Queries[path]) = 2
    BY <1>3, LastQueriesAre
  <2>2. QED
    BY <1>3, <2>1
<1>4. CASE path \in {"health", "metadata"}
  <2>1. Len(Queries[path]) = 1
    BY <1>4, LastQueriesAre
  <2>2. QED
    BY <1>4, <2>1
<1>5. QED
  BY <1>1, <1>2, <1>3, <1>4

LEMMA QueryLeads ==
  ASSUME ServiceInv, reading # None,
         NEW path, path = reading.request.path, NEW r, r = reading.request.rfqId,
         NEW query, query = Queries[path][reading.next],
         NEW results, results = With(reading.results, query, Result(query, r))
  PROVE  Leads(path, r, reading.next, results, reading.disturbed, Rows, log)
<1> DEFINE next == reading.next
           old == reading.results
           disturbed == reading.disturbed
           p == Rows
<1>1. /\ reading.request \in Requests /\ path \in DOMAIN Queries
      /\ disturbed \in BOOLEAN /\ next \in 1..Len(Queries[path])
      /\ DOMAIN old = {Queries[path][i] : i \in 1..(next - 1)}
      /\ Known(path, r, next, old, disturbed, p)
  BY RequestsAreRouted DEF ServiceInv, ReadIsFit
<1>2. /\ RowsFit(p) /\ EventsTell(log, p) /\ log \in Seq(Events) /\ p = RowsOf(log)
      /\ Len(log) \in Nat
  BY LogEndsFit, LenProperties DEF ServiceInv, EndIsFit, Rows
<1>3. /\ health = None => log = <<>>
      /\ health # None =>
           /\ health.detailCode \in DetailCodes /\ health.indexed = Len(log)
           /\ health.mode \in {"fixture", "live"}
  BY DEF ServiceInv, HealthIsFit
<1>4. /\ results[query] = Result(query, r)
      /\ \A other \in DOMAIN old \ {query} : results[other] = old[other]
  BY DEF With
<1> HIDE DEF next, old, disturbed
<1>5. \/ path = "detail" /\ next \in {1, 2, 3, 4}
      \/ path = "proof" /\ next \in {1, 2}
      \/ path = "proofCenter" /\ next \in {1, 2}
      \/ path = "stats" /\ next \in {1, 2}
      \/ path = "health" /\ next = 1
      \/ path = "metadata" /\ next = 1
  BY <1>1, EachPathsQueries
<1>6. CASE path \in {"detail", "proof"} /\ next = 1
  <2>1. query = "summary" /\ query # Last(Queries[path]) /\ 1 < Len(Queries[path])
    <3>1. CASE path = "detail"
      BY <1>6, <3>1, QueriesAre, LastQueriesAre DEF next
    <3>2. CASE path = "proof"
      BY <1>6, <3>2, QueriesAre, LastQueriesAre DEF next
    <3>3. QED
      BY <1>6, <3>1, <3>2
  <2>2. CASE r \notin DOMAIN p.rfqs
    <3>1. results[query] = None
      BY <1>4, <2>1, <2>2 DEF Result
    <3>2. QED
      BY <2>1, <3>1 DEF Leads
  <2>3. CASE r \in DOMAIN p.rfqs
    <3>1. results.summary = SummaryRow(p, r)
      BY <1>4, <2>1, <2>3 DEF Result
    <3>2. SummaryFits(results.summary) /\ Known(path, r, 2, results, disturbed, p)
      BY <1>2, <1>6, <2>3, <3>1, SummaryRead
    <3>3. Parses(path, query, results)
      BY <2>1, <3>2 DEF Parses
    <3>4. next = 1 /\ 1 + 1 = 2
      BY <1>6
    <3>5. QED
      BY <2>1, <3>2, <3>3, <3>4 DEF Leads, next, disturbed
  <2>4. QED
    BY <2>2, <2>3
<1>7. CASE path = "detail" /\ next = 2
  <2>1. /\ query = "sellerCiphertext" /\ query # Last(Queries[path]) /\ 2 < Len(Queries[path])
        /\ Queries[path][1] = "summary"
    BY <1>7, QueriesAre, LastQueriesAre DEF next
  <2>2. results.summary = old.summary
    BY <1>1, <1>4, <1>7, <2>1
  <2>3. results.sellerCiphertext = Result("sellerCiphertext", r)
    BY <1>4, <2>1
  <2>4. ~disturbed => results.sellerCiphertext # None
    <3>1. ~disturbed => r \in DOMAIN p.rfqs
      BY <1>1, <1>7 DEF Known, StillTold
    <3>2. r \in DOMAIN p.rfqs => Result("sellerCiphertext", r) = [rfqId |-> r]
      BY DEF Result
    <3>3. [rfqId |-> r] # None
      BY DEF None
    <3>4. QED
      BY <2>3, <3>1, <3>2, <3>3
  <2>5. Known(path, r, 3, results, disturbed, p)
    BY <1>1, <1>7, <2>2, <2>4 DEF Known
  <2>6. Parses(path, query, results)
    BY <2>1 DEF Parses
  <2>7. QED
    BY <1>7, <2>1, <2>5, <2>6 DEF Leads, next, disturbed
<1>8. CASE path = "detail" /\ next = 3
  <2>1. /\ query = "providers" /\ query # Last(Queries[path]) /\ 3 < Len(Queries[path])
        /\ Queries[path][1] = "summary" /\ Queries[path][2] = "sellerCiphertext"
    BY <1>8, QueriesAre, LastQueriesAre DEF next
  <2>2. results.summary = old.summary /\ results.sellerCiphertext = old.sellerCiphertext
    BY <1>1, <1>4, <1>8, <2>1
  <2>3. results.providers = [a \in QuotersOf(p, r) |-> p.providers[<<r, a>>]]
    BY <1>4, <2>1 DEF Result, QuotersOf
  <2>4. /\ ProvidersFit(results.providers)
        /\ StillTold(results.summary, p, r) => Covers(results, p, r)
    <3>1. RowsFit(p)
      BY <1>2
    <3>2. QED
      BY <2>3, <3>1, ProvidersRead
  <2>5. Known(path, r, 4, results, disturbed, p)
    BY <1>1, <1>8, <2>2, <2>4 DEF Known
  <2>6. Parses(path, query, results)
    BY <2>1 DEF Parses
  <2>7. QED
    BY <1>8, <2>1, <2>5, <2>6 DEF Leads, next, disturbed
<1>9. CASE path = "detail" /\ next = 4
  <2>1. /\ query = "activity" /\ query = Last(Queries[path])
        /\ Queries[path][1] = "summary" /\ Queries[path][2] = "sellerCiphertext"
        /\ Queries[path][3] = "providers"
    BY <1>9, QueriesAre, LastQueriesAre DEF next
  <2>2. /\ results.summary = old.summary /\ results.sellerCiphertext = old.sellerCiphertext
        /\ results.providers = old.providers
    BY <1>1, <1>4, <1>9, <2>1
  <2>3. results.activity = ActivityOf(log, r)
    BY <1>4, <2>1 DEF Result
  <2>4. /\ ActivityFits(results.activity)
        /\ StillTold(results.summary, p, r) /\ Covers(results, p, r) => AllIsTold(results)
    BY <1>2, <2>3, ActivityRead
  <2>5. /\ ProvidersFit(results.providers)
        /\ ~disturbed => /\ results.sellerCiphertext # None
                         /\ StillTold(results.summary, p, r) /\ Covers(results, p, r)
    BY <1>1, <1>9, <2>2 DEF Known, Covers
  <2>6. ~disturbed => Coheres(path, results, log)
    BY <1>9, <2>4, <2>5 DEF Coheres, Covers
  <2>7. Parses(path, query, results) <=> results.sellerCiphertext # None
    BY <1>9, <2>1, <2>4, <2>5 DEF Parses, FitsDto
  <2>8. QED
    BY <1>1, <1>9, <2>1, <2>5, <2>6, <2>7 DEF Leads, Caused, next, disturbed
<1>10. CASE path = "proof" /\ next = 2
  <2>1. /\ query = "providers" /\ query = Last(Queries[path]) /\ Queries[path][1] = "summary"
    BY <1>10, QueriesAre, LastQueriesAre DEF next
  <2>2. results.summary = old.summary
    BY <1>1, <1>4, <1>10, <2>1
  <2>3. results.providers = [a \in QuotersOf(p, r) |-> p.providers[<<r, a>>]]
    BY <1>4, <2>1 DEF Result, QuotersOf
  <2>4. /\ ProvidersFit(results.providers)
        /\ StillTold(results.summary, p, r) => Covers(results, p, r)
    <3>1. RowsFit(p)
      BY <1>2
    <3>2. QED
      BY <2>3, <3>1, ProvidersRead
  <2>5. /\ ProofFits(results.summary)
        /\ ~disturbed => StillTold(results.summary, p, r)
    <3>1. ProofFits(old.summary) /\ (~disturbed => StillTold(old.summary, p, r))
      BY <1>1, <1>10 DEF Known
    <3>2. QED
      BY <2>2, <3>1
  <2>6. ~disturbed => Coheres(path, results, log)
    BY <1>10, <2>4, <2>5 DEF Coheres, Covers
  <2>7. Parses(path, query, results)
    BY <1>10, <2>1, <2>5 DEF Parses, FitsDto
  <2>8. QED
    BY <2>1, <2>6, <2>7 DEF Leads, disturbed
<1>11. CASE path = "proofCenter" /\ next = 1
  <2>1. query = "exists" /\ query # Last(Queries[path]) /\ 1 < Len(Queries[path])
    BY <1>11, QueriesAre, LastQueriesAre DEF next
  <2>2. Known(path, r, 2, results, disturbed, p)
    BY <1>11 DEF Known
  <2>3. Parses(path, query, results)
    BY <1>11, <2>1 DEF Parses
  <2>4. QED
    BY <1>11, <2>1, <2>2, <2>3 DEF Leads, next, disturbed
<1>12. CASE (path = "proofCenter" /\ next = 2) \/ (path = "metadata" /\ next = 1)
  <2>1. query = "metadata" /\ query = Last(Queries[path])
    BY <1>12, QueriesAre, LastQueriesAre DEF next
  <2>2. results.metadata = health
    BY <1>4, <2>1 DEF Result
  <2>3. Parses(path, query, results) <=> HasProvenance(health)
    BY <1>12, <2>1, <2>2 DEF Parses, FitsDto
  <2>4. HasProvenance(health) \/ health = None \/ health.source \notin PlainSources
    BY <1>3 DEF HasProvenance, ProvenanceFits
  <2>5. Coheres(path, results, log)
    BY <1>12 DEF Coheres
  <2>6. QED
    BY <1>12, <2>1, <2>2, <2>3, <2>4, <2>5 DEF Leads, Caused
<1>13. CASE path = "stats" /\ next = 1
  <2>1. query = "counts" /\ query # Last(Queries[path]) /\ 1 < Len(Queries[path])
    BY <1>13, QueriesAre, LastQueriesAre DEF next
  <2>2. results.counts = [rfqs |-> Cardinality(DOMAIN p.rfqs), stats |-> Stats(p)]
    BY <1>4, <2>1 DEF Result
  <2>3. StatsFit(results.counts, None)
    BY <1>2, <2>2, CountsFit
  <2>4. results.counts.rfqs <= Cardinality(DOMAIN p.rfqs)
    <3>1. Cardinality(DOMAIN p.rfqs) \in Nat
      BY <1>2, FS_CardinalityType DEF RowsFit
    <3>2. QED
      BY <2>2, <3>1
  <2>5. Known(path, r, 2, results, disturbed, p)
    BY <1>13, <2>3, <2>4 DEF Known
  <2>6. Parses(path, query, results)
    BY <1>13, <2>1 DEF Parses
  <2>7. QED
    BY <1>13, <2>1, <2>5, <2>6 DEF Leads, next, disturbed
<1>14. CASE path = "stats" /\ next = 2
  <2>1. query = "health" /\ query = Last(Queries[path]) /\ Queries[path][1] = "counts"
    BY <1>14, QueriesAre, LastQueriesAre DEF next
  <2>2. results.counts = old.counts /\ results.health = health
    <3>1. results.health = health
      BY <1>4, <2>1 DEF Result
    <3>2. results.counts = old.counts
      BY <1>1, <1>4, <1>14, <2>1
    <3>3. QED
      BY <3>1, <3>2
  <2>3. /\ StatsFit(results.counts, None)
        /\ ~disturbed => results.counts.rfqs <= Cardinality(DOMAIN p.rfqs)
    BY <1>1, <1>14, <2>2 DEF Known
  <2>4. StatsFit(results.counts, results.health)
    BY <1>2, <1>3, <2>2, <2>3 DEF StatsFit
  <2>5. SubSeq(log, 1, IF results.health = None THEN 0 ELSE results.health.indexed) = log
    <3>1. CASE health = None
      BY <1>3, <2>2, <3>1, SubSeqEmpty
    <3>2. CASE health # None
      BY <1>2, <1>3, <2>2, <3>2, SubSeqFull
    <3>3. QED
      BY <3>1, <3>2
  <2>6. ~disturbed => Coheres(path, results, log)
    BY <1>2, <1>14, <2>3, <2>5 DEF Coheres
  <2>7. Parses(path, query, results)
    BY <1>14, <2>1, <2>4 DEF Parses, FitsDto
  <2>8. QED
    BY <2>1, <2>6, <2>7 DEF Leads, disturbed
<1>15. CASE path = "health"
  <2>1. query = "health" /\ query = Last(Queries[path])
    BY <1>1, <1>15, QueriesAre, LastQueriesAre DEF next
  <2>2. results.health = health
    BY <1>4, <2>1 DEF Result
  <2>3. Parses(path, query, results) <=> health # None
    BY <1>2, <1>3, <1>15, <2>1, <2>2 DEF Parses, FitsDto, HealthFits
  <2>4. Coheres(path, results, log)
    BY <1>15 DEF Coheres
  <2>5. QED
    BY <1>15, <2>1, <2>2, <2>3, <2>4 DEF Leads, Caused
<1>16. QED
  BY <1>5, <1>6, <1>7, <1>8, <1>9, <1>10, <1>11, <1>12, <1>13, <1>14, <1>15

-----------------------------------------------------------------------------
(* The steps of the service *)

LEMMA ServiceStartsFit ==
  ASSUME ServiceInit
  PROVE  ServiceInv
BY EmptyLogIsFit
   DEF ServiceInit, StartInit, ServiceInv, HealthIsFit, InternalErrorsHaveACause, AnswersCohere

LEMMA NothingAnswered ==
  ASSUME answer' = None
  PROVE  InternalErrorsHaveACause' /\ AnswersCohere'
BY DEF InternalErrorsHaveACause, AnswersCohere

LEMMA StoreUntouched ==
  ASSUME ServiceInv, UNCHANGED <<environment, log, health>>
  PROVE  environment' \in Environments /\ LogIsFit(log') /\ HealthIsFit' /\ Rows' = Rows
BY DEF ServiceInv, HealthIsFit, Rows

LEMMA HealthWritten ==
  ASSUME ServiceInv, NEW status, NEW detailCode \in DetailCodes,
         health' = HealthRow(status, detailCode, Len(log'))
  PROVE  HealthIsFit'
<1>1. environment.mode \in {"fixture", "live"}
  BY ModesAreTwo DEF ServiceInv
<1>2. health' # None
  BY DEF HealthRow, None
<1>3. QED
  BY <1>1, <1>2 DEF HealthRow, HealthIsFit

LEMMA RowsAreFit ==
  ASSUME ServiceInv
  PROVE  RowsFit(Rows) /\ log \in Seq(Events) /\ Len(log) \in Nat
BY LogEndsFit, LenProperties DEF ServiceInv, EndIsFit, Rows

\* What a request's answer is put together from, while rows are added or taken away.
LEMMA ReadStays ==
  ASSUME NEW p, RowsFit(p), NEW q, RowsFit(q), KnowMore(q, p), NEW rd, ReadIsFit(rd, p)
  PROVE  ReadIsFit(rd, q)
<1>1. rd.next \in Nat
  BY DEF ReadIsFit
<1>2. Known(rd.request.path, rd.request.rfqId, rd.next, rd.results, rd.disturbed, q)
  BY <1>1, KnownStays DEF ReadIsFit
<1>3. QED
  BY <1>2 DEF ReadIsFit

LEMMA ReadIsDisturbed ==
  ASSUME NEW p, NEW q, NEW rd, ReadIsFit(rd, p)
  PROVE  ReadIsFit([rd EXCEPT !.disturbed = TRUE], q)
<1> DEFINE after == [rd EXCEPT !.disturbed = TRUE]
<1>1. /\ DOMAIN after = DOMAIN rd /\ after.request = rd.request /\ after.next = rd.next
      /\ after.results = rd.results /\ after.disturbed = TRUE
  BY DEF ReadIsFit
<1> HIDE DEF after
<1>2. Known(rd.request.path, rd.request.rfqId, rd.next, rd.results, TRUE, q)
  BY DEF ReadIsFit, Known
<1>3. Known(after.request.path, after.request.rfqId, after.next, after.results,
            after.disturbed, q)
  BY <1>1, <1>2, Zenon
<1>4. /\ DOMAIN after = {"request", "next", "results", "disturbed"}
      /\ after.request \in Requests /\ after.disturbed \in BOOLEAN
      /\ after.next \in 1..Len(Queries[after.request.path])
      /\ DOMAIN after.results = {Queries[after.request.path][i] : i \in 1..(after.next - 1)}
  <2>1. /\ DOMAIN rd = {"request", "next", "results", "disturbed"}
        /\ rd.request \in Requests /\ rd.next \in 1..Len(Queries[rd.request.path])
        /\ DOMAIN rd.results = {Queries[rd.request.path][i] : i \in 1..(rd.next - 1)}
    BY Zenon DEF ReadIsFit
  <2>2. after.disturbed \in BOOLEAN
    BY <1>1
  <2>3. DOMAIN after = {"request", "next", "results", "disturbed"}
    BY <1>1, <2>1
  <2>4. after.request \in Requests /\ after.next \in 1..Len(Queries[after.request.path])
    BY <1>1, <2>1
  <2>5. DOMAIN after.results = {Queries[after.request.path][i] : i \in 1..(after.next - 1)}
    BY <1>1, <2>1
  <2>6. QED
    BY <2>2, <2>3, <2>4, <2>5
<1>5. ReadIsFit(after, q)
  BY <1>3, <1>4, Zenon DEF ReadIsFit
<1>6. QED
  BY <1>5 DEF after

LEMMA CommitBatchKeeps ==
  ASSUME ServiceInv, NEW event \in Events, CommitBatch(event)
  PROVE  ServiceInv'
<1>1. /\ log' = Append(log, event) /\ walk' = Watched(walk, RowsOf(log'))
      /\ health' = HealthRow("healthy", "none", Len(log) + 1)
      /\ answer' = None /\ reading' = reading /\ environment' = environment
      /\ Ingestible(Rows, event) /\ CapIsKept(Rows, event)
  BY DEF CommitBatch, Stores, NextOnChain, CapIsKept, startVars
<1>2. RowsFit(Rows) /\ log \in Seq(Events) /\ Len(log) \in Nat
  BY RowsAreFit
<1>3. LogIsFit(log') /\ Len(log') = Len(log) + 1
  <2>1. LogIsFit(Append(log, event))
    BY <1>1, LogGrowsFit DEF ServiceInv, Rows
  <2>2. Len(Append(log, event)) = Len(log) + 1
    BY <1>2, AppendProperties
  <2>3. QED
    BY <1>1, <2>1, <2>2
<1>4. Rows' = RowsOf(log') /\ RowsOf(log') = Applied(Rows, event)
  <2>1. RowsOf(Append(log, event)) = Applied(RowsOf(log), event)
    BY <1>2, RowsOfOneMore
  <2>2. QED
    BY <1>1, <2>1 DEF Rows
<1>5. RowsFit(RowsOf(log'))
  BY <1>3, LogEndsFit DEF EndIsFit
<1>6. HealthIsFit'
  BY <1>1, <1>3, HealthWritten DEF DetailCodes
<1>7. walk' # None => WalkIsFit(walk', RowsOf(log'))
  BY <1>1, WatchedIsFit DEF ServiceInv
<1>8. reading' # None => ReadIsFit(reading', RowsOf(log'))
  <2>1. KnowMore(RowsOf(log'), Rows)
    BY <1>1, <1>2, <1>4, RowsKnowMore
  <2>2. QED
    BY <1>1, <1>2, <1>5, <2>1, ReadStays DEF ServiceInv
<1>9. environment' \in Environments
  BY <1>1 DEF ServiceInv
<1>10. QED
  BY <1>1, <1>3, <1>4, <1>6, <1>7, <1>8, <1>9, NothingAnswered DEF ServiceInv

LEMMA RollbackKeeps ==
  ASSUME ServiceInv, NEW k \in 0..(Len(log) - 1), Rollback(k)
  PROVE  ServiceInv'
<1>1. /\ log' = SubSeq(log, 1, k) /\ walk' = Watched(walk, RowsOf(log'))
      /\ health' = [health EXCEPT !.status = "degraded", !.detailCode = "INDEXER_LAGGING",
                                  !.indexed = k]
      /\ reading' = IF reading = None THEN None ELSE [reading EXCEPT !.disturbed = TRUE]
      /\ answer' = None /\ environment' = environment
  BY DEF Rollback, Stores, startVars
<1>2. log \in Seq(Events) /\ Len(log) \in Nat /\ k \in 0..Len(log) /\ log # <<>>
  <2>1. log \in Seq(Events) /\ Len(log) \in Nat
    BY RowsAreFit
  <2>2. Len(log) # 0 /\ k \in 0..Len(log)
    BY <2>1
  <2>3. QED
    BY <2>1, <2>2, EmptySeq
<1>3. LogIsFit(log') /\ Len(log') = k
  <2>1. LogIsFit(SubSeq(log, 1, k)) /\ Len(SubSeq(log, 1, k)) = k
    BY <1>2, LogIsCutFit DEF ServiceInv
  <2>2. QED
    BY <1>1, <2>1
<1>4. HealthIsFit'
  <2>1. /\ health # None
        /\ DOMAIN health = {"status", "detailCode", "indexed", "mode", "source"}
        /\ health.mode \in {"fixture", "live"}
    BY <1>2 DEF ServiceInv, HealthIsFit
  <2>2. /\ DOMAIN health' = DOMAIN health /\ health'.mode = health.mode
        /\ health'.detailCode = "INDEXER_LAGGING" /\ health'.indexed = k
    BY <1>1, <2>1
  <2>3. health' # None
    <3>1. DOMAIN None = {}
      BY EmptySeq DEF None
    <3>2. QED
      BY <2>1, <2>2, <3>1
  <2>4. QED
    BY <1>3, <2>1, <2>2, <2>3 DEF HealthIsFit, DetailCodes
<1>5. walk' # None => WalkIsFit(walk', RowsOf(log'))
  BY <1>1, WatchedIsFit DEF ServiceInv
<1>6. reading' # None => ReadIsFit(reading', RowsOf(log'))
  BY <1>1, ReadIsDisturbed DEF ServiceInv
<1>7. environment' \in Environments /\ Rows' = RowsOf(log')
  BY <1>1 DEF ServiceInv, Rows
<1>8. QED
  BY <1>1, <1>3, <1>4, <1>5, <1>6, <1>7, NothingAnswered DEF ServiceInv

LEMMA OtherWorkKeeps ==
  ASSUME ServiceInv,
         \/ \E event \in Events : RejectBatch(event)
         \/ BlockReplaced
         \/ \E m \in {<<"healthy", "none">>, <<"degraded", "RPC_UNAVAILABLE">>,
                      <<"degraded", "REORG_REPLAY_REQUIRED">>} : MarkHealth(m[1], m[2])
  PROVE  ServiceInv'
<1>1. /\ log' = log /\ reading' = reading /\ answer' = None /\ walk' = Unfinished(walk)
      /\ environment' = environment
  BY DEF RejectBatch, BlockReplaced, MarkHealth, startVars
<1>2. HealthIsFit'
  <2>1. CASE \E m \in {<<"healthy", "none">>, <<"degraded", "RPC_UNAVAILABLE">>,
                       <<"degraded", "REORG_REPLAY_REQUIRED">>} : MarkHealth(m[1], m[2])
    <3>1. PICK m \in {<<"healthy", "none">>, <<"degraded", "RPC_UNAVAILABLE">>,
                      <<"degraded", "REORG_REPLAY_REQUIRED">>} : MarkHealth(m[1], m[2])
      BY <2>1
    <3>2. m[2] \in DetailCodes
      BY DEF DetailCodes
    <3>3. health' = HealthRow(m[1], m[2], Len(log'))
      BY <1>1, <3>1 DEF MarkHealth
    <3>4. QED
      BY <3>2, <3>3, HealthWritten
  <2>2. CASE BlockReplaced \/ \E event \in Events : RejectBatch(event)
    BY <1>1, <2>2 DEF RejectBatch, BlockReplaced, ServiceInv, HealthIsFit
  <2>3. QED
    BY <2>1, <2>2
<1>3. walk' # None => WalkIsFit(walk', Rows)
  BY <1>1, UnfinishedIsFit DEF ServiceInv
<1>4. environment' \in Environments /\ Rows' = Rows /\ LogIsFit(log')
  BY <1>1 DEF ServiceInv, Rows
<1>5. reading' # None => ReadIsFit(reading', Rows)
  BY <1>1 DEF ServiceInv
<1>6. QED
  BY <1>1, <1>2, <1>3, <1>4, <1>5, NothingAnswered DEF ServiceInv

LEMMA ReceiveKeeps ==
  ASSUME ServiceInv, NEW request \in Requests, Receive(request)
  PROVE  ServiceInv'
<1>1. /\ reading' = [request |-> request, next |-> 1, results |-> <<>>, disturbed |-> FALSE]
      /\ answer' = None /\ walk' = None /\ UNCHANGED <<environment, log, health>>
  BY DEF Receive, startVars, storeVars
<1>2. request.path \in DOMAIN Queries
  BY RequestsAreRouted
<1>3. 1 \in 1..Len(Queries[request.path])
  <2>1. Len(Queries[request.path]) \in {1, 2, 4}
    BY <1>2, QueriesAre, LastQueriesAre
  <2>2. 1 \in 1..1 /\ 1 \in 1..2 /\ 1 \in 1..4
    OBVIOUS
  <2>3. QED
    BY <2>1, <2>2, Zenon
<1>4. DOMAIN reading'.results = {Queries[request.path][i] : i \in 1..(1 - 1)}
  <2>1. DOMAIN reading'.results = {}
    BY <1>1, EmptySeq
  <2>2. 1..(1 - 1) = {}
    OBVIOUS
  <2>3. QED
    BY <2>1, <2>2
<1>5. Known(request.path, request.rfqId, 1, reading'.results, FALSE, Rows)
  BY DEF Known
<1>6. ReadIsFit(reading', Rows)
  <2>1. /\ DOMAIN reading' = {"request", "next", "results", "disturbed"}
        /\ reading'.request = request /\ reading'.next = 1 /\ reading'.disturbed = FALSE
    BY <1>1
  <2>2. QED
    BY <1>3, <1>4, <1>5, <2>1 DEF ReadIsFit
<1>7. environment' \in Environments /\ LogIsFit(log') /\ HealthIsFit' /\ Rows' = Rows
  BY <1>1, StoreUntouched
<1>8. QED
  BY <1>1, <1>6, <1>7, NothingAnswered DEF ServiceInv

\* An answer leaves the rest fit.
LEMMA AnsweredKeeps ==
  ASSUME ServiceInv, UNCHANGED <<environment, log, health>>,
         walk' = walk \/ walk' = None,
         NEW request, NEW status, NEW results, NEW disturbed,
         Answered(request, status, results, disturbed),
         status = 500 => request \in NotARequest \/ Caused(request.path, results, disturbed),
         status = 200 /\ ~disturbed => Coheres(request.path, results, log)
  PROVE  ServiceInv'
<1>1. /\ answer' = [request |-> request, status |-> status, results |-> results,
                    disturbed |-> disturbed,
                    logs |-> IF request.path = "stats" THEN log ELSE <<>>]
      /\ reading' = None
  BY DEF Answered
<1>2. /\ answer'.request = request /\ answer'.status = status /\ answer'.results = results
      /\ answer'.disturbed = disturbed
      /\ request.path = "stats" => answer'.logs = log
  BY <1>1
<1>3. InternalErrorsHaveACause'
  BY <1>2 DEF InternalErrorsHaveACause, Caused
<1>4. AnswersCohere'
  BY <1>2 DEF AnswersCohere, Coheres, AllIsTold
<1>5. environment' \in Environments /\ LogIsFit(log') /\ HealthIsFit' /\ Rows' = Rows
  BY StoreUntouched
<1>6. walk' # None => WalkIsFit(walk', Rows)
  BY DEF ServiceInv
<1>7. QED
  BY <1>1, <1>3, <1>4, <1>5, <1>6 DEF ServiceInv

\* A refusal is an internal error only for what the server could make no Request of, and a
\* good answer only with the deployment, which is no query's result.
LEMMA RefusalsAre ==
  ASSUME NEW request \in Unserved
  PROVE  /\ RefusalStatus(request) = 500 => request \in NotARequest
         /\ RefusalStatus(request) = 200 => request.path = "deployment"
<1>1. ASSUME request \notin NotARequest
      PROVE  RefusalStatus(request) = 405
               \/ /\ request.path \in DOMAIN RoutedStatus
                  /\ RefusalStatus(request) = RoutedStatus[request.path]
  BY <1>1 DEF Unserved, NotARequest, RefusalStatus
<1>2. \A path \in DOMAIN RoutedStatus :
        /\ RoutedStatus[path] # 500
        /\ RoutedStatus[path] = 200 => path = "deployment"
  BY DEF RoutedStatus
<1>3. request \in NotARequest => RefusalStatus(request) = 500
  BY DEF RefusalStatus
<1>4. QED
  BY <1>1, <1>2, <1>3

LEMMA RefuseKeeps ==
  ASSUME ServiceInv, NEW request \in Unserved, Refuse(request)
  PROVE  ServiceInv'
<1> DEFINE status == RefusalStatus(request)
<1>1. /\ Answered(request, status, <<>>, FALSE) /\ walk' = None
      /\ UNCHANGED <<environment, log, health>>
  BY DEF Refuse, startVars, storeVars
<1>2. status = 500 => request \in NotARequest
  BY RefusalsAre
<1>3. status = 200 => Coheres(request.path, <<>>, log)
  BY RefusalsAre DEF Coheres
<1> HIDE DEF status
<1>4. QED
  BY <1>1, <1>2, <1>3, AnsweredKeeps, Zenon

LEMMA QueryFailsKeeps ==
  ASSUME ServiceInv, QueryFails
  PROVE  ServiceInv'
<1>1. /\ Answered(reading.request, 503, <<>>, reading.disturbed) /\ walk' = walk
      /\ UNCHANGED <<environment, log, health>>
  BY DEF QueryFails, startVars, storeVars
<1>2. 503 # 500 /\ 503 # 200
  OBVIOUS
<1>3. QED
  BY <1>1, <1>2, AnsweredKeeps

LEMMA QueryKeeps ==
  ASSUME ServiceInv, Query
  PROVE  ServiceInv'
<1> DEFINE request == reading.request
           path == request.path
           query == Queries[path][reading.next]
           results == With(reading.results, query, Result(query, request.rfqId))
           next == reading.next
           disturbed == reading.disturbed
<1>1. reading # None /\ walk' = walk /\ UNCHANGED <<environment, log, health>>
  BY DEF Query, startVars, storeVars
<1>2. IF query \in {"summary", "exists"} /\ results[query] = None
      THEN Answered(request, 404, results, disturbed)
      ELSE IF ~Parses(path, query, results)
      THEN Answered(request, 500, results, disturbed)
      ELSE IF query # Last(Queries[path])
      THEN /\ reading' = [reading EXCEPT !.results = results, !.next = @ + 1]
           /\ answer' = None
      ELSE Answered(request, 200, results, disturbed)
  BY Zenon DEF Query
<1>3. Leads(path, request.rfqId, next, results, disturbed, Rows, log)
  BY <1>1, QueryLeads
<1>4. /\ DOMAIN reading = {"request", "next", "results", "disturbed"}
      /\ request \in Requests /\ disturbed \in BOOLEAN
      /\ next \in 1..Len(Queries[path])
      /\ DOMAIN reading.results = {Queries[path][i] : i \in 1..(next - 1)}
  BY <1>1 DEF ServiceInv, ReadIsFit
<1>5. DOMAIN results = DOMAIN reading.results \cup {query}
  BY DEF With
<1>6. query = Queries[path][next]
  OBVIOUS
<1> HIDE DEF query, results, next, disturbed
<1>7. CASE query \in {"summary", "exists"} /\ results[query] = None
  <2>1. Answered(request, 404, results, disturbed)
    BY <1>2, <1>7
  <2>2. 404 # 500 /\ 404 # 200
    OBVIOUS
  <2> HIDE DEF request, path
  <2>3. QED
    BY <1>1, <2>1, <2>2, AnsweredKeeps
<1>8. ASSUME ~(query \in {"summary", "exists"} /\ results[query] = None),
             ~Parses(path, query, results)
      PROVE  ServiceInv'
  <2>1. Answered(request, 500, results, disturbed)
    BY <1>2, <1>8
  <2>2. Caused(path, results, disturbed)
    BY <1>3, <1>6, <1>8 DEF Leads
  <2>3. 500 # 200
    OBVIOUS
  <2> HIDE DEF request
  <2>4. QED
    BY <1>1, <2>1, <2>2, <2>3, AnsweredKeeps
<1>9. ASSUME ~(query \in {"summary", "exists"} /\ results[query] = None),
             Parses(path, query, results), query # Last(Queries[path])
      PROVE  ServiceInv'
  <2>1. reading' = [reading EXCEPT !.results = results, !.next = @ + 1] /\ answer' = None
    BY <1>2, <1>9
  <2>2. next < Len(Queries[path])
        /\ Known(path, request.rfqId, next + 1, results, disturbed, Rows)
    BY <1>3, <1>6, <1>9 DEF Leads
  <2>3. /\ DOMAIN reading' = DOMAIN reading /\ reading'.request = request
        /\ reading'.disturbed = disturbed
        /\ reading'.results = results /\ reading'.next = next + 1
    BY <1>4, <2>1 DEF next, disturbed
  <2>4. next + 1 \in 1..Len(Queries[path]) /\ (next + 1) - 1 = next
        /\ 1..next = 1..(next - 1) \cup {next}
    <3>1. Len(Queries[path]) \in {1, 2, 4}
      BY <1>4, RequestsAreRouted, QueriesAre, LastQueriesAre
    <3>2. QED
      BY <1>4, <2>2, <3>1
  <2>5. DOMAIN results = {Queries[path][i] : i \in 1..((next + 1) - 1)}
    BY <1>4, <1>5, <1>6, <2>4
  <2>6. ReadIsFit(reading', Rows)
    BY <1>4, <2>2, <2>3, <2>4, <2>5 DEF ReadIsFit
  <2>7. environment' \in Environments /\ LogIsFit(log') /\ HealthIsFit' /\ Rows' = Rows
    BY <1>1, StoreUntouched
  <2>8. walk' # None => WalkIsFit(walk', Rows)
    BY <1>1 DEF ServiceInv
  <2>9. QED
    BY <2>1, <2>6, <2>7, <2>8, NothingAnswered DEF ServiceInv
<1>10. ASSUME ~(query \in {"summary", "exists"} /\ results[query] = None),
              Parses(path, query, results), query = Last(Queries[path])
       PROVE  ServiceInv'
  <2>1. Answered(request, 200, results, disturbed)
    BY <1>2, <1>10
  <2>2. ~disturbed => Coheres(path, results, log)
    BY <1>3, <1>6, <1>10 DEF Leads
  <2>3. 500 # 200
    OBVIOUS
  <2> HIDE DEF request
  <2>4. QED
    BY <1>1, <2>1, <2>2, <2>3, AnsweredKeeps
<1>11. QED
  BY <1>7, <1>8, <1>9, <1>10

LEMMA StartWalkKeeps ==
  ASSUME ServiceInv, NEW f \in Filters, StartWalk(f)
  PROVE  ServiceInv'
<1>1. /\ walk' = [filter |-> f, cursor |-> 0, items |-> <<>>, done |-> FALSE,
                  always |-> Listing(Rows, f), ever |-> Listing(Rows, f)]
      /\ answer' = None /\ reading' = reading /\ UNCHANGED <<environment, log, health>>
  BY DEF StartWalk, startVars, storeVars
<1> DEFINE now == Listing(Rows, f)
<1>2. /\ DOMAIN walk' = {"filter", "cursor", "items", "done", "always", "ever"}
      /\ walk'.filter = f /\ walk'.cursor = 0 /\ walk'.items = <<>> /\ walk'.done = FALSE
      /\ walk'.always = now /\ walk'.ever = now
  BY <1>1
<1>3. <<>> \in Seq(Nat \ {0}) /\ DOMAIN <<>> = {} /\ Range(<<>>) = {} /\ Decreasing(<<>>)
  BY EmptySeq DEF Range, Decreasing
<1>4. WalkIsFit(walk', Rows)
  BY <1>2, <1>3 DEF WalkIsFit
<1>5. environment' \in Environments /\ LogIsFit(log') /\ HealthIsFit' /\ Rows' = Rows
  BY <1>1, StoreUntouched
<1>6. reading' # None => ReadIsFit(reading', Rows)
  BY <1>1 DEF ServiceInv
<1>7. QED
  BY <1>1, <1>4, <1>5, <1>6, NothingAnswered DEF ServiceInv

LEMMA FetchPageKeeps ==
  ASSUME ServiceInv, FetchPage
  PROVE  ServiceInv'
<1> DEFINE found == {r \in Listing(Rows, walk.filter) : AfterCursor(walk.cursor, r)}
           hasMore == Cardinality(found) > PageLimit
           items == PageRows(found)
           paged == [walk EXCEPT !.items = @ \o items,
                                 !.cursor = IF hasMore THEN Last(items) ELSE 0,
                                 !.done = ~hasMore]
<1>1. walk # None /\ ~walk.done /\ UNCHANGED <<environment, log, health>>
  BY DEF FetchPage, startVars, storeVars
<1>2. IF \A i \in DOMAIN items : ItemFits(Rows, items[i], walk.filter)
      THEN walk' = paged /\ answer' = None /\ UNCHANGED reading
      ELSE walk' = None /\ Answered(walk.filter, 500, <<>>, FALSE)
  BY Zenon DEF FetchPage
<1>3. WalkIsFit(walk, Rows) /\ RowsFit(Rows)
  BY <1>1, RowsAreFit DEF ServiceInv
<1>4. hasMore \in BOOLEAN
  OBVIOUS
<1>5. WalkIsFit(paged, Rows) /\ \A i \in DOMAIN items : items[i] \in DOMAIN Rows.rfqs
  BY <1>1, <1>3, <1>4, PagedIsFit
<1> HIDE DEF found, hasMore, items, paged
<1>6. \A i \in DOMAIN items : ItemFits(Rows, items[i], walk.filter)
  BY <1>3, <1>5, PortfoliosFit
<1>7. walk' = paged /\ answer' = None /\ reading' = reading
  BY <1>2, <1>6
<1>8. environment' \in Environments /\ LogIsFit(log') /\ HealthIsFit' /\ Rows' = Rows
  BY <1>1, StoreUntouched
<1>9. reading' # None => ReadIsFit(reading', Rows)
  BY <1>7 DEF ServiceInv
<1>10. QED
  BY <1>5, <1>7, <1>8, <1>9, NothingAnswered DEF ServiceInv

LEMMA RestartApiKeeps ==
  ASSUME ServiceInv, RestartApi
  PROVE  ServiceInv'
<1>1. /\ reading' = None /\ answer' = None /\ walk' = walk
      /\ UNCHANGED <<environment, log, health>>
  BY DEF RestartApi, startVars, storeVars
<1>2. environment' \in Environments /\ LogIsFit(log') /\ HealthIsFit' /\ Rows' = Rows
  BY <1>1, StoreUntouched
<1>3. walk' # None => WalkIsFit(walk', Rows)
  BY <1>1 DEF ServiceInv
<1>4. QED
  BY <1>1, <1>2, <1>3, NothingAnswered DEF ServiceInv

\* The processes start while nothing is answered or stored.
LEMMA StandStillKeeps ==
  ASSUME ServiceInv, UNCHANGED environment, UNCHANGED storeVars, UNCHANGED clientVars
  PROVE  ServiceInv'
<1>1. UNCHANGED <<environment, log, health, reading, answer, walk>>
  BY DEF storeVars, clientVars
<1>2. environment' \in Environments /\ LogIsFit(log') /\ HealthIsFit' /\ Rows' = Rows
  BY <1>1, StoreUntouched
<1>3. InternalErrorsHaveACause' /\ AnswersCohere'
  BY <1>1 DEF ServiceInv, InternalErrorsHaveACause, AnswersCohere
<1>4. /\ walk' # None => WalkIsFit(walk', Rows)
      /\ reading' # None => ReadIsFit(reading', Rows)
  BY <1>1 DEF ServiceInv
<1>5. QED
  BY <1>2, <1>3, <1>4 DEF ServiceInv

LEMMA ServiceStep ==
  ASSUME ServiceInv, [ServiceNext]_serviceVars
  PROVE  ServiceInv'
<1>1. CASE UNCHANGED serviceVars
  BY <1>1, StandStillKeeps DEF serviceVars, startVars
<1>2. CASE StartNext /\ UNCHANGED <<storeVars, clientVars>>
  <2>1. UNCHANGED environment
    BY <1>2 DEF StartNext, Launch, Starts, Connect, AcquireLock, Discover, ApplyMigration,
      RecordMigration, CommitMigrations, EndPool, StatementFails, Crash
  <2>2. QED
    BY <1>2, <2>1, StandStillKeeps
<1>3. CASE Works
  BY <1>3, CommitBatchKeeps, RollbackKeeps, OtherWorkKeeps DEF Works
<1>4. CASE Serves
  BY <1>4, ReceiveKeeps, RefuseKeeps, QueryKeeps, QueryFailsKeeps, StartWalkKeeps,
     FetchPageKeeps DEF Serves
<1>5. QED
  BY <1>1, <1>2, <1>3, <1>4, RestartApiKeeps DEF ServiceNext

LEMMA ServiceInvHolds == ServiceSpec => []ServiceInv
BY ServiceStartsFit, ServiceStep, PTL DEF ServiceSpec

-----------------------------------------------------------------------------

\* The API answers with an internal error only when the server can make no Request of what
\* arrived, after a rollback of what it was reading, before the worker's first health row, or
\* for a source identity that the DTO refuses: what the worker stores, the DTOs accept
\* (server.ts; repository.ts against read-api.ts).
THEOREM InternalErrorsCorrect == ServiceSpec => []InternalErrorsHaveACause
<1>1. ServiceInv => InternalErrorsHaveACause
  BY DEF ServiceInv
<1>2. QED
  BY <1>1, ServiceInvHolds, PTL

\* A client that follows nextCursor sees whatever matched all along once, newest first, and
\* nothing that never matched (listRfqs, getPortfolio).
THEOREM WalksCorrect == ServiceSpec => []WalksAreExact
<1>1. ServiceInv => WalksAreExact
  BY DEF ServiceInv, WalkIsFit, WalksAreExact, Decreasing
<1>2. QED
  BY <1>1, ServiceInvHolds, PTL

\* The later parts of an answer know what its first part tells, unless a rollback comes in
\* between (getRfqDetail, getRfqProof, getStats).
THEOREM AnswersCorrect == ServiceSpec => []AnswersCohere
<1>1. ServiceInv => AnswersCohere
  BY DEF ServiceInv
<1>2. QED
  BY <1>1, ServiceInvHolds, PTL
=============================================================================
