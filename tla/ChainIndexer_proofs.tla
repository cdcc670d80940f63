-------------------------- MODULE ChainIndexer_proofs --------------------------
(***************************************************************************)
(* Proofs about the chain indexer, for any number of overlapping runs, any  *)
(* chunk size and any chain: no transfer is skipped, nothing is stored that *)
(* is not final, the cursor never goes back, no batch is refused, and the   *)
(* balances are the contract's owners at one finalized block, which only    *)
(* moves forward.                                                           *)
(*                                                                          *)
(* The first part is about the cursor and the journal, the second about the *)
(* balances: what an address has is the badges it got less those it gave,   *)
(* and the badges of disjoint sets of transfers add up.                     *)
(***************************************************************************)
EXTENDS Holdings, NaturalSets, SequenceTheorems

\* The journal and the runs speak of a transfer by its place in the chain, and
\* a badge of an event moves only once the event is registered.
IChain ==
  /\ chain \in Seq(Seq(Transfers))
  /\ finalized \in 0..Len(chain)
  /\ tracked \subseteq EventTokens
  /\ \A b \in 1..Len(chain) : \A i \in 1..Len(chain[b]) :
       /\ chain[b][i].block = b /\ chain[b][i].sub = i
       /\ chain[b][i].token \in EventTokens => chain[b][i].token \in tracked

ICursor == next \in 1..finalized + 1 /\ seen \in 0..finalized

\* A run works on a cursor at or behind the current one.  As long as it is the
\* current one, the finalized block it read is no older than the recorded one.
RunOK(p) ==
  /\ p.at \in {"started", "ranged", "fetched"} => p.from \in 1..next
  /\ p.at \in {"ranged", "fetched"} =>
       /\ p.to \in Nat /\ p.fin \in Nat
       /\ p.from <= p.to /\ p.to <= p.fin /\ p.fin <= finalized
       /\ p.from = next => p.fin >= seen
  /\ p.at = "fetched" =>
       \A x \in LogsOf(p.from, p.to) : x.token \in EventTokens => x.token \in p.tokens

IRuns == \A r \in Runs : RunOK(run[r])

IJournal == NothingSkipped /\ OnlyFinalStored

IInv == IChain /\ ICursor /\ IRuns /\ IJournal

IRunType == run \in [Runs -> RunStates]
------------------------------------------------------------------------------
\* The logs of a range are the transfers of its blocks.
LEMMA LogMember ==
  ASSUME NEW f, NEW t, NEW x
  PROVE  x \in LogsOf(f, t) <=> \E b \in f..t : \E i \in 1..Len(chain[b]) : x = chain[b][i]
BY DEF LogsOf

\* A longer chain has the same logs in its old blocks.
LEMMA LogsStay ==
  ASSUME NEW f \in Nat \ {0}, NEW t \in Nat, t <= Len(chain),
         Len(chain) \in Nat,
         \A b \in 1..Len(chain) : chain'[b] = chain[b]
  PROVE  LogsOf(f, t)' = LogsOf(f, t)
<1>1. \A b \in f..t : chain'[b] = chain[b]
  OBVIOUS
<1>2. \A x : x \in LogsOf(f, t)' <=>
               \E b \in f..t : \E i \in 1..Len(chain'[b]) : x = chain'[b][i]
  BY DEF LogsOf
<1>3. \A x : x \in LogsOf(f, t) <=>
               \E b \in f..t : \E i \in 1..Len(chain[b]) : x = chain[b][i]
  BY LogMember
<1>4. \A x : x \in LogsOf(f, t)' <=> x \in LogsOf(f, t)
  BY <1>1, <1>2, <1>3
<1> QED
  BY <1>4

\* An empty chain, no registered token and no run: the invariant holds of the
\* database before the first run of the cron.
THEOREM Initially == Init => IInv /\ IRunType
<1> SUFFICES ASSUME Init PROVE IInv /\ IRunType
  OBVIOUS
<1>1. IChain /\ ICursor
  BY DEF Init, IChain, ICursor
<1>2. IRuns /\ IRunType
  BY DEF Init, IRuns, RunOK, IRunType, RunStates, Idle
<1>3. IJournal
  BY DEF Init, IJournal, NothingSkipped, OnlyFinalStored, LogsOf
<1> QED
  BY <1>1, <1>2, <1>3 DEF IInv
------------------------------------------------------------------------------
(* Steps of a run that change nothing but what the run has read.             *)

LEMMA RunStep ==
  ASSUME IInv, IRunType, NEW r \in Runs, NEW p \in RunStates, RunOK(p),
         Step(r, p), UNCHANGED chainVars, UNCHANGED dbVars, UNCHANGED tracked
  PROVE  IInv' /\ IRunType'
<1>1. run' = [run EXCEPT ![r] = p] /\ run \in [Runs -> RunStates]
  BY DEF Step, IRunType
<1>2. IRunType'
  BY <1>1 DEF IRunType, RunStates, Idle
<1>3. \A q : RunOK(q) => RunOK(q)'
  BY DEF RunOK, LogsOf, chainVars, dbVars
<1>4. \A q \in Runs : RunOK(run'[q])
  BY <1>1 DEF IInv, IRuns
<1>5. IRuns'
  BY <1>3, <1>4 DEF IRuns
<1>6. IChain' /\ ICursor' /\ IJournal'
  <2>1. IChain'
    BY DEF IInv, IChain, chainVars
  <2>2. ICursor'
    BY DEF IInv, ICursor, chainVars, dbVars
  <2>3. IJournal'
    BY DEF IInv, IJournal, NothingSkipped, OnlyFinalStored, LogsOf, chainVars, dbVars
  <2> QED
    BY <2>1, <2>2, <2>3
<1> QED
  BY <1>2, <1>5, <1>6 DEF IInv

LEMMA IdleOK == RunOK(Idle) /\ Idle \in RunStates
BY DEF RunOK, Idle, RunStates

LEMMA StartKeeps ==
  ASSUME IInv, IRunType, NEW r \in Runs, Start(r)
  PROVE  IInv' /\ IRunType'
<1> DEFINE p == [at |-> "started", from |-> next, left |-> MaxChunks]
<1>1. p \in RunStates
  BY IndexerAssumption DEF IInv, ICursor, IChain, RunStates
<1>2. RunOK(p)
  BY DEF RunOK, IInv, ICursor, IChain
<1>3. Step(r, p) /\ UNCHANGED chainVars /\ UNCHANGED dbVars /\ UNCHANGED tracked
  BY DEF Start
<1> QED
  BY <1>1, <1>2, <1>3, RunStep

LEMMA ReadFinalizedKeeps ==
  ASSUME IInv, IRunType, NEW r \in Runs, ReadFinalized(r)
  PROVE  IInv' /\ IRunType'
<1> DEFINE p == run[r]
           q == Ranged(p)
<1>1. p \in RunStates /\ p.at = "started" /\ RunOK(p)
  BY DEF ReadFinalized, IRunType, IInv, IRuns
<1>2. p.from \in Nat /\ p.left \in Nat
  BY <1>1 DEF RunStates, Idle
<1>3. UNCHANGED chainVars /\ UNCHANGED dbVars /\ UNCHANGED tracked
  BY DEF ReadFinalized
<1>4. CASE p.from > finalized
  <2>1. Step(r, Idle)
    BY <1>4 DEF ReadFinalized
  <2> QED
    BY <1>3, <2>1, IdleOK, RunStep
<1>5. CASE ~(p.from > finalized)
  <2>1. Step(r, q)
    BY <1>5 DEF ReadFinalized
  <2>2. finalized \in Nat /\ seen \in Nat /\ seen <= finalized
    BY DEF IInv, IChain, ICursor
  <2>3. q.at = "ranged" /\ q.from = p.from /\ q.fin = finalized /\ q.left = p.left
    BY DEF Ranged
  <2>4. q.to \in Nat /\ p.from <= q.to /\ q.to <= finalized
    BY <1>2, <1>5, <2>2, IndexerAssumption DEF Ranged, Least
  <2>5. q \in RunStates
    BY <1>2, <2>2, <2>4 DEF Ranged, RunStates
  <2>6. p.from \in 1..next
    BY <1>1 DEF RunOK
  <2>7. RunOK(q)
    BY <2>2, <2>3, <2>4, <2>6 DEF RunOK
  <2> QED
    BY <1>3, <2>1, <2>5, <2>7, RunStep
<1> QED
  BY <1>4, <1>5

LEMMA ReadLogsKeeps ==
  ASSUME IInv, IRunType, NEW r \in Runs, ReadLogs(r)
  PROVE  IInv' /\ IRunType'
<1> DEFINE p == run[r]
           q == [at |-> "fetched", from |-> p.from, to |-> p.to, fin |-> p.fin,
                 left |-> p.left, tokens |-> tracked]
<1>1. p \in RunStates /\ p.at = "ranged" /\ RunOK(p)
  BY DEF ReadLogs, IRunType, IInv, IRuns
<1>2. /\ p.from \in Nat /\ p.to \in Nat /\ p.fin \in Nat /\ p.left \in Nat
      /\ p.from \in 1..next /\ p.from <= p.to /\ p.to <= p.fin /\ p.fin <= finalized
      /\ p.from = next => p.fin >= seen
  BY <1>1 DEF RunStates, Idle, RunOK
<1>3. UNCHANGED chainVars /\ UNCHANGED dbVars /\ UNCHANGED tracked
  BY DEF ReadLogs
<1>4. q \in RunStates
  <2>1. tracked \in SUBSET Tokens
    BY IndexerAssumption DEF IInv, IChain
  <2> QED
    BY <1>2, <2>1 DEF RunStates
<1>5. \A x \in LogsOf(p.from, p.to) : x.token \in EventTokens => x.token \in tracked
  <2> SUFFICES ASSUME NEW x \in LogsOf(p.from, p.to), x.token \in EventTokens
               PROVE  x.token \in tracked
    OBVIOUS
  <2>1. \E b \in p.from..p.to : \E i \in 1..Len(chain[b]) : x = chain[b][i]
    BY LogMember
  <2>2. \A b \in p.from..p.to : b \in 1..Len(chain)
    BY SMTT(30), <1>2, LenProperties DEF IInv, IChain, ICursor
  <2> QED
    BY <2>1, <2>2 DEF IInv, IChain
<1>6. RunOK(q)
  BY <1>2, <1>5 DEF RunOK
<1>7. Step(r, Idle) \/ Step(r, q)
  BY DEF ReadLogs
<1> QED
  BY <1>3, <1>4, <1>6, <1>7, IdleOK, RunStep

LEMMA FailKeeps ==
  ASSUME IInv, IRunType, NEW r \in Runs, Fail(r)
  PROVE  IInv' /\ IRunType'
BY IdleOK, RunStep DEF Fail
------------------------------------------------------------------------------
(* Steps of the chain and of the issuer.                                     *)

\* What a run may rely on survives a longer chain and a later final block.
LEMMA RunsSurvive ==
  ASSUME IInv, IRunType, Len(chain)' \in Nat, Len(chain) <= Len(chain)',
         \A b \in 1..Len(chain) : chain'[b] = chain[b],
         finalized' \in Nat, finalized <= finalized',
         UNCHANGED dbVars, UNCHANGED run
  PROVE  IRuns' /\ IJournal' /\ IRunType'
<1>1. /\ Len(chain) \in Nat /\ finalized \in 0..Len(chain)
      /\ next \in 1..finalized + 1 /\ seen \in 0..finalized
  BY LenProperties DEF IInv, IChain, ICursor
<1>2. ASSUME NEW r \in Runs PROVE RunOK(run[r])'
  <2> DEFINE p == run[r]
  <2>1. p \in RunStates /\ RunOK(p)
    BY DEF IRunType, IInv, IRuns
  <2>2. CASE p.at = "fetched"
    <3>1. p.from \in Nat \ {0} /\ p.to \in Nat /\ p.to <= Len(chain)
      BY SMTT(30), <1>1, <2>1, <2>2 DEF RunOK, RunStates, Idle
    <3>2. LogsOf(p.from, p.to)' = LogsOf(p.from, p.to)
      BY <1>1, <3>1, LogsStay
    <3> QED
      BY <1>1, <2>1, <2>2, <3>1, <3>2 DEF RunOK, dbVars
  <2>3. CASE p.at # "fetched"
    BY <1>1, <2>1, <2>3 DEF RunOK, dbVars, RunStates, Idle
  <2> QED
    BY <2>2, <2>3
<1>3. NothingSkipped'
  <2>1. CASE next = 1
    BY <2>1 DEF NothingSkipped, LogsOf, dbVars
  <2>2. CASE next # 1
    <3>1. next - 1 \in Nat /\ next - 1 <= Len(chain)
      BY <1>1
    <3>2. LogsOf(1, next - 1)' = LogsOf(1, next - 1)
      <4> DEFINE n == next - 1
      <4>1. n \in Nat /\ n <= Len(chain)
        BY <3>1
      <4>2. next' - 1 = n
        BY DEF dbVars
      <4> HIDE DEF n
      <4>3. LogsOf(1, n)' = LogsOf(1, n)
        <5>1. n' = n
          BY <4>2 DEF n
        <5>2. \A x : x \in LogsOf(1, n)' <=>
                  \E b \in 1..n : \E i \in 1..Len(chain'[b]) : x = chain'[b][i]
          BY <5>1 DEF LogsOf
        <5>3. \A x : x \in LogsOf(1, n) <=>
                  \E b \in 1..n : \E i \in 1..Len(chain[b]) : x = chain[b][i]
          BY DEF LogsOf
        <5>4. \A b \in 1..n : chain'[b] = chain[b]
          BY <1>1, <4>1
        <5>5. \A x : x \in LogsOf(1, n)' <=> x \in LogsOf(1, n)
          BY <5>2, <5>3, <5>4
        <5> QED
          BY <5>5
      <4> QED
        BY <4>3 DEF n
    <3> QED
      BY <3>2 DEF IInv, IJournal, NothingSkipped, dbVars
  <2> QED
    BY <2>1, <2>2
<1>4. OnlyFinalStored'
  <2> SUFFICES ASSUME NEW x \in journal PROVE x \in LogsOf(1, finalized)'
    BY DEF OnlyFinalStored, dbVars
  <2>1. PICK b \in 1..finalized : \E i \in 1..Len(chain[b]) : x = chain[b][i]
    BY LogMember DEF IInv, IJournal, OnlyFinalStored
  <2>2. b \in 1..finalized' /\ chain'[b] = chain[b]
    BY <1>1
  <2> QED
    BY <2>1, <2>2 DEF LogsOf
<1> QED
  BY <1>2, <1>3, <1>4 DEF IRuns, IJournal, IRunType

LEMMA CursorStays ==
  ASSUME NEW f \in Nat, NEW g \in Nat, f <= g
  PROVE  /\ \A c \in 1..f + 1 : c \in 1..g + 1
         /\ \A c \in 0..f : c \in 0..g
OBVIOUS

LEMMA FinalizeKeeps ==
  ASSUME IInv, IRunType, Finalize
  PROVE  IInv' /\ IRunType'
<1>1. /\ finalized' \in finalized + 1 .. Len(chain) /\ UNCHANGED <<chain, tracked, run>>
      /\ UNCHANGED dbVars
  BY DEF Finalize
<1>2. Len(chain) \in Nat /\ finalized \in 0..Len(chain)
  BY LenProperties DEF IInv, IChain
<1>3. finalized' \in 0..Len(chain)' /\ finalized' \in Nat /\ finalized <= finalized'
  BY <1>1, <1>2
<1>4. IChain'
  BY <1>1, <1>3 DEF IInv, IChain
<1>5. ICursor'
  <2>1. next \in 1..finalized + 1 /\ seen \in 0..finalized
    BY DEF IInv, ICursor
  <2>2. next' = next /\ seen' = seen
    BY <1>1 DEF dbVars
  <2>3. next \in 1..finalized' + 1 /\ seen \in 0..finalized'
    <3>1. finalized \in Nat
      BY <1>2
    <3>2. finalized' \in Nat /\ finalized <= finalized'
      BY <1>3
    <3> QED
      BY <2>1, <3>1, <3>2, CursorStays
  <2> QED
    BY <2>2, <2>3 DEF ICursor
<1>6. Len(chain)' \in Nat /\ Len(chain) <= Len(chain)'
  BY <1>1, <1>2
<1>7. IRuns' /\ IJournal' /\ IRunType'
  BY <1>1, <1>3, <1>6, RunsSurvive
<1> QED
  BY <1>4, <1>5, <1>7 DEF IInv

LEMMA RegisterKeeps ==
  ASSUME IInv, IRunType, NEW t \in EventTokens, Register(t)
  PROVE  IInv' /\ IRunType'
<1>1. /\ UNCHANGED chain /\ UNCHANGED finalized /\ UNCHANGED dbVars /\ UNCHANGED run
      /\ tracked' = tracked \cup {t}
  BY DEF Register, chainVars
<1>2. Len(chain) \in Nat /\ finalized \in Nat
  BY LenProperties DEF IInv, IChain
<1>3. IChain'
  BY <1>1 DEF IInv, IChain
<1>4. ICursor'
  BY <1>1 DEF IInv, ICursor, dbVars
<1>5. IRuns' /\ IJournal' /\ IRunType'
  BY <1>1, <1>2, RunsSurvive
<1> QED
  BY <1>3, <1>4, <1>5 DEF IInv

LEMMA BlockKeeps ==
  ASSUME IInv, IRunType, NEW from \in Wallets \cup {Zero}, NEW to \in Wallets \cup {Zero},
         NEW items \in Seq([token : Circulating, n : 0..MaxAmount]), AddBlock(from, to, items)
  PROVE  IInv' /\ IRunType'
<1> DEFINE k == Len(items)
           c == Len(chain) + 1
           block == [i \in 1..k |->
                       [block |-> c, sub |-> i, token |-> items[i].token,
                        from |-> from, to |-> to, n |-> items[i].n]]
           Placed(x, b, i) == /\ x.block = b /\ x.sub = i
                              /\ x.token \in EventTokens => x.token \in tracked
<1>1. chain' = Append(chain, block) /\ UNCHANGED <<finalized, tracked, run>> /\ UNCHANGED dbVars
  BY DEF AddBlock
<1>2. k \in Nat /\ c \in Nat /\ Len(chain) \in Nat
  BY LenProperties DEF IInv, IChain
<1>3. \A i \in 1..k : items[i].token \in Circulating /\ items[i].n \in 0..MaxAmount
  <2>1. \A i \in 1..k : items[i] \in [token : Circulating, n : 0..MaxAmount]
    BY ElementOfSeq
  <2> QED
    BY <2>1
<1>4. \A i \in 1..k : block[i] \in Transfers
  <2>1. Circulating \subseteq Tokens
    BY IndexerAssumption DEF Circulating, IInv, IChain
  <2> SUFFICES ASSUME NEW i \in 1..k PROVE block[i] \in Transfers
    OBVIOUS
  <2>2. items[i].token \in Tokens /\ items[i].n \in 0..MaxAmount
    BY <1>3, <2>1
  <2>3. i \in Nat
    BY <1>2
  <2> QED
    BY <1>2, <2>2, <2>3 DEF Transfers
<1>5. block \in Seq(Transfers) /\ Len(block) = k
  <2>1. block \in [1..k -> Transfers]
    BY <1>4
  <2>2. block \in Seq(Transfers) /\ DOMAIN block = 1..k
    BY <1>2, <2>1, SeqDef
  <2> QED
    BY <1>2, <2>2, LenProperties
<1>6. \A i \in 1..k : Placed(block[i], c, i)
  BY <1>3 DEF Circulating
<1> HIDE DEF block, k, c, Placed
<1>7. /\ chain' \in Seq(Seq(Transfers)) /\ Len(chain') = c
      /\ \A b \in 1..Len(chain) : chain'[b] = chain[b]
      /\ chain'[c] = block
  BY <1>1, <1>5, AppendProperties DEF IInv, IChain, c
<1>8. IChain'
  <2>1. finalized' \in 0..Len(chain')
    BY <1>1, <1>2, <1>7 DEF IInv, IChain
  <2>2. ASSUME NEW b \in 1..Len(chain'), NEW i \in 1..Len(chain'[b])
        PROVE  Placed(chain'[b][i], b, i)
    <3>1. CASE b = c
      <4>1. chain'[b] = block /\ i \in 1..k
        BY <1>5, <1>7, <2>2, <3>1
      <4> QED
        BY <1>6, <3>1, <4>1
    <3>2. CASE b # c
      <4>1. b \in 1..Len(chain) /\ chain'[b] = chain[b]
        BY <1>2, <1>7, <3>2 DEF c
      <4> QED
        BY <2>2, <4>1 DEF IInv, IChain, Placed
    <3> QED
      BY <3>1, <3>2
  <2> QED
    BY <1>1, <1>7, <2>1, <2>2 DEF IInv, IChain, Placed
<1>9. ICursor'
  BY <1>1 DEF IInv, ICursor, dbVars
<1>10. finalized \in Nat
  BY <1>2 DEF IInv, IChain
<1>11. IRuns' /\ IJournal' /\ IRunType'
  BY <1>1, <1>2, <1>7, <1>10, RunsSurvive
<1> QED
  BY <1>8, <1>9, <1>11 DEF IInv
------------------------------------------------------------------------------
(* The batch.                                                                *)

\* Two transfers of the chain with one key are one transfer.
LEMMA OneKeyEach ==
  ASSUME IChain, NEW f \in Nat, f <= Len(chain),
         NEW x \in LogsOf(1, f), NEW y \in LogsOf(1, f), Key(x) = Key(y)
  PROVE  x = y
<1>1. PICK b \in 1..f : \E i \in 1..Len(chain[b]) : x = chain[b][i]
  BY LogMember
<1>2. PICK i \in 1..Len(chain[b]) : x = chain[b][i]
  BY <1>1
<1>3. PICK c \in 1..f : \E j \in 1..Len(chain[c]) : y = chain[c][j]
  BY LogMember
<1>4. PICK j \in 1..Len(chain[c]) : y = chain[c][j]
  BY <1>3
<1>5. b \in 1..Len(chain) /\ c \in 1..Len(chain)
  BY LenProperties DEF IChain
<1>6. x.block = b /\ x.sub = i /\ y.block = c /\ y.sub = j
  BY <1>2, <1>4, <1>5 DEF IChain
<1>7. x.block = y.block /\ x.sub = y.sub
  BY DEF Key
<1> QED
  BY <1>2, <1>4, <1>6, <1>7

LEMMA KeyIdentifies ==
  ASSUME IChain, NEW x \in LogsOf(1, finalized), NEW y \in LogsOf(1, finalized), Key(x) = Key(y)
  PROVE  x = y
<1>1. finalized \in Nat /\ finalized <= Len(chain)
  BY LenProperties DEF IChain
<1> QED
  BY <1>1, OneKeyEach

\* Whatever a batch fetched, with a positive value, is stored after it.
LEMMA BatchStores ==
  ASSUME IInv, NEW r \in Runs, Commit(r), NEW x \in LogsOf(run[r].from, run[r].to),
         x \in LogsOf(1, finalized), x.token \in EventTokens, x.n > 0
  PROVE  x \in journal'
<1>1. run[r].at = "fetched" /\ RunOK(run[r])
  BY DEF Commit, IInv, IRuns
<1>2. x \in Decoded(run[r].from, run[r].to, run[r].tokens)
  BY <1>1 DEF RunOK, Decoded
<1>3. journal' = journal \cup {y \in Decoded(run[r].from, run[r].to, run[r].tokens) : Fresh(y)}
  BY DEF Commit, NewRows
<1>4. CASE Fresh(x)
  BY <1>2, <1>3, <1>4
<1>5. CASE ~Fresh(x)
  <2>1. PICK y \in journal : Key(x) = Key(y)
    BY <1>5 DEF Fresh
  <2>2. y \in LogsOf(1, finalized)
    BY DEF IInv, IJournal, OnlyFinalStored
  <2>3. x = y
    BY <2>1, <2>2, KeyIdentifies DEF IInv
  <2> QED
    BY <1>3, <2>1, <2>3
<1> QED
  BY <1>4, <1>5

\* What a batch does to the cursor, and what the run held before it.
LEMMA CommitCursor ==
  ASSUME IInv, IRunType, NEW r \in Runs, Commit(r), NEW p, p = run[r]
  PROVE  /\ p.from \in 1..next /\ p.to \in Nat /\ p.fin \in Nat /\ p.left \in Nat
         /\ p.from <= p.to /\ p.to <= p.fin /\ p.fin <= finalized
         /\ finalized \in Nat /\ next \in Nat /\ seen \in Nat
         /\ \/ next = p.from /\ next' = p.to + 1 /\ seen' = p.fin /\ seen <= p.fin
            \/ next # p.from /\ next' = next /\ seen' = seen
         /\ UNCHANGED <<chain, finalized, tracked>>
<1>1. p \in RunStates /\ p.at = "fetched" /\ RunOK(p)
  BY DEF Commit, IRunType, IInv, IRuns
<1>2. finalized \in Nat /\ next \in 1..finalized + 1 /\ seen \in 0..finalized
  BY LenProperties DEF IInv, IChain, ICursor
<1>3. p.from \in 1..next /\ p.to \in Nat /\ p.fin \in Nat /\ p.left \in Nat
  BY <1>1 DEF RunOK, RunStates, Idle
<1>4. /\ p.from <= p.to /\ p.to <= p.fin /\ p.fin <= finalized
      /\ p.from = next => p.fin >= seen
  BY <1>1 DEF RunOK
<1>5. MoveCursor(p) /\ UNCHANGED <<chain, finalized, tracked>>
  BY DEF Commit, chainVars
<1>6. \/ next = p.from /\ next' = p.to + 1 /\ seen' = p.fin
      \/ next # p.from /\ next' = next /\ seen' = seen
  BY <1>5 DEF MoveCursor, CursorIs
<1> QED
  BY <1>2, <1>3, <1>4, <1>5, <1>6

LEMMA CommitMovesForward ==
  ASSUME IInv, IRunType, NEW r \in Runs, Commit(r)
  PROVE  next' >= next /\ seen' >= seen /\ next' > run[r].from
<1> DEFINE p == run[r]
<1>1. /\ p.from \in 1..next /\ p.to \in Nat /\ p.from <= p.to /\ p.fin \in Nat
      /\ next \in Nat /\ seen \in Nat
      /\ \/ next = p.from /\ next' = p.to + 1 /\ seen' = p.fin /\ seen <= p.fin
         \/ next # p.from /\ next' = next /\ seen' = seen
  BY CommitCursor
<1> QED
  BY <1>1

LEMMA CommitKeeps ==
  ASSUME IInv, IRunType, NEW r \in Runs, Commit(r)
  PROVE  IInv' /\ IRunType'
<1> DEFINE p == run[r]
<1>1. /\ p.from \in 1..next /\ p.to \in Nat /\ p.fin \in Nat /\ p.left \in Nat
      /\ p.from <= p.to /\ p.to <= p.fin /\ p.fin <= finalized
      /\ finalized \in Nat /\ next \in Nat /\ seen \in Nat
      /\ \/ next = p.from /\ next' = p.to + 1 /\ seen' = p.fin /\ seen <= p.fin
         \/ next' = next /\ seen' = seen
      /\ UNCHANGED <<chain, finalized, tracked>>
  BY CommitCursor
<1>2. run' = [run EXCEPT ![r] = Following(p)] /\ p.at = "fetched"
  BY DEF Commit, Step
<1>3. journal' = journal \cup {y \in Decoded(p.from, p.to, p.tokens) : Fresh(y)}
  BY DEF Commit, NewRows
<1>4. IChain'
  <2>1. UNCHANGED <<chain, finalized, tracked>>
    BY <1>1
  <2> QED
    BY <2>1 DEF IInv, IChain
<1>5. ICursor'
  <2>1. next \in 1..finalized + 1 /\ seen \in 0..finalized
    BY DEF IInv, ICursor
  <2>2. next' \in 1..finalized + 1 /\ seen' \in 0..finalized
    BY <1>1, <2>1
  <2> QED
    BY <1>1, <2>2 DEF ICursor
<1>6. \A f, t : LogsOf(f, t)' = LogsOf(f, t)
  BY <1>1 DEF LogsOf
<1>7. \/ Following(p) = Idle
      \/ /\ Following(p) = [at |-> "started", from |-> p.to + 1, left |-> p.left - 1]
         /\ p.left > 1 /\ next' = p.to + 1
  BY DEF Following, MoveCursor, Commit
<1>8. Following(p) \in RunStates
  BY <1>1, <1>7 DEF RunStates
<1>9. IRunType'
  BY <1>2, <1>8 DEF IRunType, RunStates, Idle
<1>10. ASSUME NEW o, o \in RunStates, RunOK(o) PROVE RunOK(o)'
  <2>1. o.at # "idle" => o.from \in 1..next /\ o.from \in 1..next'
    <3>1. o.at # "idle" => o.from \in 1..next
      BY <1>10 DEF RunOK, RunStates, Idle
    <3> QED
      BY <1>1, <3>1
  <2>2. o.at # "idle" /\ o.from = next' => next' = next /\ seen' = seen
    BY <1>1, <2>1
  <2>3. o.at \in {"started", "ranged", "fetched"} => o.from \in 1..next'
    BY <2>1
  <2>4. o.at \in {"ranged", "fetched"} =>
          /\ o.to \in Nat /\ o.fin \in Nat
          /\ o.from <= o.to /\ o.to <= o.fin /\ o.fin <= finalized'
          /\ o.from = next' => o.fin >= seen'
    BY <1>1, <1>10, <2>2 DEF RunOK
  <2>5. o.at = "fetched" =>
          \A x \in LogsOf(o.from, o.to)' : x.token \in EventTokens => x.token \in o.tokens
    BY <1>6, <1>10 DEF RunOK
  <2> QED
    BY <2>3, <2>4, <2>5 DEF RunOK
<1>11. ASSUME NEW q \in Runs PROVE RunOK(run[q])'
  <2>1. CASE q = r
    <3>1. run'[q] = Following(p)
      BY <1>2, <2>1 DEF IRunType
    <3>2. CASE Following(p) = Idle
      BY <3>1, <3>2 DEF RunOK, Idle
    <3>3. CASE Following(p) # Idle
      <4>1. /\ run'[q].at = "started" /\ run'[q].from = p.to + 1 /\ next' = p.to + 1
        BY <1>7, <3>1, <3>3
      <4>2. run'[q].from \in 1..next'
        BY <1>1, <4>1
      <4> QED
        BY <4>1, <4>2 DEF RunOK
    <3> QED
      BY <3>2, <3>3
  <2>2. CASE q # r
    <3>1. run'[q] = run[q] /\ run[q] \in RunStates /\ RunOK(run[q])
      BY <1>2, <2>2 DEF IRunType, IInv, IRuns
    <3>2. run'[q] \in RunStates /\ RunOK(run'[q])
      BY <3>1
    <3>3. \A o : o \in RunStates /\ RunOK(o) => RunOK(o)'
      BY <1>10
    <3> QED
      BY <3>2, <3>3
  <2> QED
    BY <2>1, <2>2
<1>12. NothingSkipped'
  <2>1. \A f, t, x : x \in LogsOf(f, t) <=>
               \E b \in f..t : \E i \in 1..Len(chain[b]) : x = chain[b][i]
    BY LogMember
  <2>2. ASSUME NEW x, x \in LogsOf(1, next' - 1), x.token \in EventTokens, x.n > 0
        PROVE  x \in journal'
    <3>1. CASE x \in LogsOf(1, next - 1)
      BY <1>3, <2>2, <3>1 DEF IInv, IJournal, NothingSkipped
    <3>2. CASE x \notin LogsOf(1, next - 1)
      <4>1. next' # next /\ next = p.from /\ next' = p.to + 1
        BY <1>1, <2>2, <3>2
      <4>2. PICK b \in 1..next' - 1 : \E i \in 1..Len(chain[b]) : x = chain[b][i]
        BY <2>1, <2>2
      <4>3. b \notin 1..next - 1
        BY <2>1, <3>2, <4>2
      <4>4. b \in p.from..p.to /\ b \in 1..finalized
        BY <1>1, <4>1, <4>3
      <4>5. x \in LogsOf(p.from, p.to) /\ x \in LogsOf(1, finalized)
        BY <2>1, <4>2, <4>4
      <4> QED
        BY <2>2, <4>5, BatchStores
    <3> QED
      BY <3>1, <3>2
  <2>3. LogsOf(1, next - 1)' = LogsOf(1, next' - 1)
    BY <1>1 DEF LogsOf
  <2> QED
    BY <2>2, <2>3 DEF NothingSkipped
<1>13. OnlyFinalStored'
  <2>1. LogsOf(1, finalized)' = LogsOf(1, finalized)
    BY <1>1 DEF LogsOf
  <2>2. LogsOf(p.from, p.to) \subseteq LogsOf(1, finalized)
    <3> SUFFICES ASSUME NEW x \in LogsOf(p.from, p.to) PROVE x \in LogsOf(1, finalized)
      OBVIOUS
    <3>1. PICK b \in p.from..p.to : \E i \in 1..Len(chain[b]) : x = chain[b][i]
      BY LogMember
    <3>2. b \in 1..finalized
      BY <1>1
    <3> QED
      BY <3>1, <3>2, LogMember
  <2>3. journal' \subseteq LogsOf(1, finalized)
    BY <1>3, <2>2 DEF Decoded, IInv, IJournal, OnlyFinalStored
  <2> QED
    BY <2>1, <2>3 DEF OnlyFinalStored
<1> QED
  BY <1>4, <1>5, <1>9, <1>11, <1>12, <1>13 DEF IInv, IRuns, IJournal
------------------------------------------------------------------------------
(* The theorems.                                                             *)

\* Every new block has well-formed items.
LEMMA BlockIsAdded ==
  ASSUME EmptyBlock \/ Transfer \/ \E w \in Wallets, t \in Tokens : Mint(w, t)
  PROVE  \E from, to \in Wallets \cup {Zero} :
           \E items \in Seq([token : Circulating, n : 0..MaxAmount]) : AddBlock(from, to, items)
<1> DEFINE Item == [token : Circulating, n : 0..MaxAmount]
<1>1. CASE EmptyBlock
  <2>1. << >> \in Seq(Item) /\ AddBlock(Zero, Zero, << >>)
    BY <1>1, EmptySeq DEF EmptyBlock
  <2> QED
    BY <2>1
<1>2. CASE Transfer
  <2>1. PICK from \in Wallets, to \in Wallets, k \in 1..MaxItems :
          \E items \in [1..k -> [token : Circulating, n : 0..MaxAmount]] : AddBlock(from, to, items)
    BY <1>2 DEF Transfer
  <2>2. PICK items \in [1..k -> Item] : AddBlock(from, to, items)
    BY <2>1
  <2>3. k \in Nat
    BY IndexerAssumption
  <2>4. items \in Seq(Item)
    <3> HIDE DEF Item
    <3> QED
      BY <2>2, <2>3, SeqDef
  <2> QED
    BY <2>2, <2>4
<1>3. CASE \E w \in Wallets, t \in Tokens : Mint(w, t)
  <2>1. PICK w \in Wallets, t \in Tokens : Mint(w, t)
    BY <1>3
  <2>2. t \in Circulating /\ AddBlock(Zero, w, <<[token |-> t, n |-> 1]>>)
    BY <2>1 DEF Mint
  <2>3. <<[token |-> t, n |-> 1]>> \in Seq(Item)
    BY <2>2, IndexerAssumption
  <2> QED
    BY <2>2, <2>3
<1> QED
  BY <1>1, <1>2, <1>3

LEMMA ChainKeeps ==
  ASSUME IInv, IRunType,
         EmptyBlock \/ Transfer \/ \E w \in Wallets, t \in Tokens : Mint(w, t)
  PROVE  IInv' /\ IRunType'
<1>1. PICK from \in Wallets \cup {Zero}, to \in Wallets \cup {Zero} :
        \E items \in Seq([token : Circulating, n : 0..MaxAmount]) : AddBlock(from, to, items)
  BY BlockIsAdded
<1>2. PICK items \in Seq([token : Circulating, n : 0..MaxAmount]) : AddBlock(from, to, items)
  BY <1>1
<1> QED
  BY <1>2, BlockKeeps

LEMMA NextKeeps == IInv /\ IRunType /\ [Next]_vars => (IInv /\ IRunType)'
<1> SUFFICES ASSUME IInv, IRunType, [Next]_vars PROVE (IInv /\ IRunType)'
  OBVIOUS
<1>1. CASE EmptyBlock \/ Transfer \/ \E w \in Wallets, t \in Tokens : Mint(w, t)
  BY <1>1, ChainKeeps
<1>2. CASE Finalize
  BY <1>2, FinalizeKeeps
<1>3. CASE \E t \in EventTokens : Register(t)
  BY <1>3, RegisterKeeps
<1>4. CASE \E r \in Runs : Start(r)
  BY <1>4, StartKeeps
<1>5. CASE \E r \in Runs : ReadFinalized(r)
  BY <1>5, ReadFinalizedKeeps
<1>6. CASE \E r \in Runs : ReadLogs(r)
  BY <1>6, ReadLogsKeeps
<1>7. CASE \E r \in Runs : Commit(r)
  BY <1>7, CommitKeeps
<1>8. CASE \E r \in Runs : Fail(r)
  BY <1>8, FailKeeps
<1>9. CASE UNCHANGED vars
  <2>1. UNCHANGED chainVars /\ UNCHANGED dbVars /\ UNCHANGED tracked /\ UNCHANGED run
    BY <1>9 DEF vars, chainVars, dbVars
  <2>2. Len(chain) \in Nat /\ finalized \in Nat
    BY LenProperties DEF IInv, IChain
  <2>3. IRuns' /\ IJournal' /\ IRunType'
    BY <2>1, <2>2, RunsSurvive DEF chainVars
  <2>4. IChain' /\ ICursor'
    BY <2>1 DEF IInv, IChain, ICursor, chainVars, dbVars
  <2> QED
    BY <2>3, <2>4 DEF IInv
<1> QED
  BY <1>1, <1>2, <1>3, <1>4, <1>5, <1>6, <1>7, <1>8, <1>9 DEF Next

\* In every reachable state: the chain's transfers carry their place, a run's
\* cursor is not ahead of the stored one, and the journal is complete below the
\* cursor and final throughout.
THEOREM Invariance == Spec => [](IInv /\ IRunType)
BY Initially, NextKeeps, PTL DEF Spec

\* syncChainIndexerChunk skips no transfer, whatever runs overlap, fail and
\* register tokens meanwhile.
THEOREM NoTransferSkipped == Spec => []NothingSkipped
<1>1. IInv => NothingSkipped
  BY DEF IInv, IJournal
<1> QED
  BY <1>1, Invariance, PTL

\* Nothing is stored that the chain could still take back.
THEOREM FinalOnly == Spec => []OnlyFinalStored
<1>1. IInv => OnlyFinalStored
  BY DEF IInv, IJournal
<1> QED
  BY <1>1, Invariance, PTL

\* The stored cursor and its finalized block never go back, and a commit leaves
\* the cursor past the chunk's first block whoever moved it.
THEOREM CursorForward == Spec => CursorMovesForward
<1> DEFINE Forward == /\ next' >= next /\ seen' >= seen
                      /\ \A r \in Runs : Commit(r) => next' > run[r].from
<1>1. IInv /\ IRunType /\ [Next]_vars => [Forward]_vars
  <2> SUFFICES ASSUME IInv, IRunType, Next PROVE Forward
    OBVIOUS
  <2>1. CASE \E r \in Runs : Commit(r)
    <3>1. next' >= next /\ seen' >= seen
      BY <2>1, CommitMovesForward
    <3>2. ASSUME NEW r \in Runs, Commit(r) PROVE next' > run[r].from
      BY <3>2, CommitMovesForward
    <3> QED
      BY <3>1, <3>2
  <2>2. CASE ~ \E r \in Runs : Commit(r)
    <3>1. UNCHANGED dbVars
      BY <2>2 DEF Next, EmptyBlock, Transfer, Mint, AddBlock, Finalize, Register, Start,
                  ReadFinalized, ReadLogs, Fail
    <3>2. next' = next /\ seen' = seen /\ next \in Int /\ seen \in Int
      BY <3>1, LenProperties DEF dbVars, IInv, IChain, ICursor
    <3> QED
      BY <2>2, <3>2
  <2> QED
    BY <2>1, <2>2
<1> QED
  BY <1>1, Invariance, PTL DEF Spec, CursorMovesForward
------------------------------------------------------------------------------
(* What a set of transfers leaves everyone with.                             *)

\* What transfers R leave each wallet with.
Net(R) == [w \in Wallets |-> [t \in Tokens |-> Got(R, w, t) - Given(R, w, t)]]

\* Two batches of badges are one when their transfers are.
LEMMA BadgesAdd ==
  ASSUME NEW R, NEW S, IsFiniteSet(R), IsFiniteSet(S), R \cap S = {}
  PROVE  /\ Cardinality(BadgesOf(R)) \in Nat /\ Cardinality(BadgesOf(S)) \in Nat
         /\ Cardinality(BadgesOf(R \cup S)) =
              Cardinality(BadgesOf(R)) + Cardinality(BadgesOf(S))
<1>1. ASSUME NEW Q, IsFiniteSet(Q)
      PROVE  IsFiniteSet(BadgesOf(Q)) /\ Cardinality(BadgesOf(Q)) \in Nat
  <2>1. IsFiniteSet(1..MaxAmount)
    BY IndexerAssumption, FS_Interval
  <2>2. IsFiniteSet(Q \X (1..MaxAmount))
    BY <1>1, <2>1, FS_Product
  <2>3. BadgesOf(Q) \in SUBSET (Q \X (1..MaxAmount))
    BY DEF BadgesOf
  <2> QED
    BY <2>2, <2>3, FS_Subset, FS_CardinalityType
<1>2. BadgesOf(R \cup S) = BadgesOf(R) \cup BadgesOf(S)
  BY DEF BadgesOf
<1>3. BadgesOf(R) \cap BadgesOf(S) = {}
  BY DEF BadgesOf
<1>4. /\ IsFiniteSet(BadgesOf(R)) /\ Cardinality(BadgesOf(R)) \in Nat
      /\ IsFiniteSet(BadgesOf(S)) /\ Cardinality(BadgesOf(S)) \in Nat
  BY <1>1
<1>5. Cardinality(BadgesOf(R \cup S)) =
        Cardinality(BadgesOf(R)) + Cardinality(BadgesOf(S)) - Cardinality({})
  <2>1. Cardinality(BadgesOf(R) \cup BadgesOf(S)) =
          Cardinality(BadgesOf(R)) + Cardinality(BadgesOf(S))
            - Cardinality(BadgesOf(R) \cap BadgesOf(S))
    BY <1>4, FS_Union
  <2> QED
    BY <1>2, <1>3, <2>1
<1> QED
  BY <1>4, <1>5, FS_EmptySet

LEMMA GivenAdds ==
  ASSUME NEW R, NEW S, IsFiniteSet(R), IsFiniteSet(S), R \cap S = {}, NEW w, NEW t
  PROVE  /\ Given(R, w, t) \in Nat /\ Given(S, w, t) \in Nat
         /\ Given(R \cup S, w, t) = Given(R, w, t) + Given(S, w, t)
<1> DEFINE Of(Q) == {x \in Q : x.from = w /\ x.token = t}
<1>1. Of(R \cup S) = Of(R) \cup Of(S) /\ Of(R) \cap Of(S) = {}
  OBVIOUS
<1>2. Of(R) \in SUBSET R /\ Of(S) \in SUBSET S
  OBVIOUS
<1>3. \A Q : Given(Q, w, t) = Cardinality(BadgesOf(Of(Q)))
  BY DEF Given
<1> HIDE DEF Of
<1>4. IsFiniteSet(Of(R)) /\ IsFiniteSet(Of(S))
  BY <1>2, FS_Subset
<1>5. /\ Cardinality(BadgesOf(Of(R))) \in Nat /\ Cardinality(BadgesOf(Of(S))) \in Nat
      /\ Cardinality(BadgesOf(Of(R) \cup Of(S))) =
           Cardinality(BadgesOf(Of(R))) + Cardinality(BadgesOf(Of(S)))
  BY <1>1, <1>4, BadgesAdd
<1>6. Given(R, w, t) = Cardinality(BadgesOf(Of(R))) /\ Given(S, w, t) = Cardinality(BadgesOf(Of(S)))
  BY <1>3
<1>7. Given(R \cup S, w, t) = Cardinality(BadgesOf(Of(R) \cup Of(S)))
  BY <1>1, <1>3
<1> QED
  BY <1>5, <1>6, <1>7

LEMMA GotAdds ==
  ASSUME NEW R, NEW S, IsFiniteSet(R), IsFiniteSet(S), R \cap S = {}, NEW w, NEW t
  PROVE  /\ Got(R, w, t) \in Nat /\ Got(S, w, t) \in Nat
         /\ Got(R \cup S, w, t) = Got(R, w, t) + Got(S, w, t)
<1> DEFINE Of(Q) == {x \in Q : x.to = w /\ x.token = t}
<1>1. Of(R \cup S) = Of(R) \cup Of(S) /\ Of(R) \cap Of(S) = {}
  OBVIOUS
<1>2. Of(R) \in SUBSET R /\ Of(S) \in SUBSET S
  OBVIOUS
<1>3. \A Q : Got(Q, w, t) = Cardinality(BadgesOf(Of(Q)))
  BY DEF Got
<1> HIDE DEF Of
<1>4. IsFiniteSet(Of(R)) /\ IsFiniteSet(Of(S))
  BY <1>2, FS_Subset
<1>5. /\ Cardinality(BadgesOf(Of(R))) \in Nat /\ Cardinality(BadgesOf(Of(S))) \in Nat
      /\ Cardinality(BadgesOf(Of(R) \cup Of(S))) =
           Cardinality(BadgesOf(Of(R))) + Cardinality(BadgesOf(Of(S)))
  BY <1>1, <1>4, BadgesAdd
<1>6. Got(R, w, t) = Cardinality(BadgesOf(Of(R))) /\ Got(S, w, t) = Cardinality(BadgesOf(Of(S)))
  BY <1>3
<1>7. Got(R \cup S, w, t) = Cardinality(BadgesOf(Of(R) \cup Of(S)))
  BY <1>1, <1>3
<1> QED
  BY <1>5, <1>6, <1>7

LEMMA NetType ==
  ASSUME NEW R, IsFiniteSet(R)
  PROVE  Net(R) \in [Wallets -> [Tokens -> Int]]
<1>1. \A w \in Wallets, t \in Tokens : Got(R, w, t) - Given(R, w, t) \in Int
  <2> SUFFICES ASSUME NEW w \in Wallets, NEW t \in Tokens
               PROVE  Got(R, w, t) - Given(R, w, t) \in Int
    OBVIOUS
  <2>1. IsFiniteSet({}) /\ R \cap {} = {}
    BY FS_EmptySet
  <2>2. Got(R, w, t) \in Nat
    BY <2>1, GotAdds
  <2>3. Given(R, w, t) \in Nat
    BY <2>1, GivenAdds
  <2> QED
    BY <2>2, <2>3
<1> QED
  BY <1>1 DEF Net

\* The contract and the triggers do the same to the balances, and what they do
\* with more transfers is what all of them leave.
LEMMA Adds ==
  ASSUME NEW R, NEW S, IsFiniteSet(R), IsFiniteSet(S), R \cap S = {}
  PROVE  Moved(Net(R), S) = Net(R \cup S) /\ Post(Net(R), S) = Net(R \cup S)
<1>1. ASSUME NEW w \in Wallets, NEW t \in Tokens
      PROVE  /\ Net(R)[w][t] - Given(S, w, t) + Got(S, w, t) =
                  Got(R \cup S, w, t) - Given(R \cup S, w, t)
             /\ Credited(Debited(Net(R)[w][t], S, w, t), S, w, t) =
                  Got(R \cup S, w, t) - Given(R \cup S, w, t)
  <2>1. Net(R)[w][t] = Got(R, w, t) - Given(R, w, t)
    BY DEF Net
  <2>2. /\ Got(R, w, t) \in Nat /\ Got(S, w, t) \in Nat
        /\ Got(R \cup S, w, t) = Got(R, w, t) + Got(S, w, t)
    BY GotAdds
  <2>3. /\ Given(R, w, t) \in Nat /\ Given(S, w, t) \in Nat
        /\ Given(R \cup S, w, t) = Given(R, w, t) + Given(S, w, t)
    BY GivenAdds
  <2> QED
    BY <2>1, <2>2, <2>3 DEF Credited, Debited
<1>2. Moved(Net(R), S) = Net(R \cup S)
  BY <1>1 DEF Moved, Net
<1>3. Post(Net(R), S) = Net(R \cup S)
  BY <1>1 DEF Post, Net
<1> QED
  BY <1>2, <1>3

LEMMA NetOfNone == Net({}) = NoBadges
<1>1. BadgesOf({}) = {} /\ Cardinality({}) = 0
  BY FS_EmptySet DEF BadgesOf
<1>2. \A w, t : Got({}, w, t) = 0 /\ Given({}, w, t) = 0
  <2>1. \A w, t : {x \in {} : x.to = w /\ x.token = t} = {}
    OBVIOUS
  <2>2. \A w, t : {x \in {} : x.from = w /\ x.token = t} = {}
    OBVIOUS
  <2> QED
    BY <1>1, <2>1, <2>2 DEF Got, Given
<1>3. \A w \in Wallets, t \in Tokens : Got({}, w, t) - Given({}, w, t) = 0
  BY <1>2
<1> QED
  BY <1>3 DEF Net, NoBadges

\* The transfers of event tokens that move a badge.
OfEvents(R) == {x \in R : x.token \in EventTokens /\ x.n > 0}

\* For an event's badges they are all that counts.
LEMMA EventsCount ==
  ASSUME NEW R \in SUBSET Transfers, NEW w \in Wallets, NEW t \in Tokens
  PROVE  Net(OfEvents(R))[w][t] = IF t \in EventTokens THEN Net(R)[w][t] ELSE 0
<1>1. \A u : u \in BadgesOf(R) => u[1].n > 0
  BY DEF BadgesOf, Transfers
<1>2. CASE t \in EventTokens
  <2> DEFINE To(Q) == {x \in Q : x.to = w /\ x.token = t}
             From(Q) == {x \in Q : x.from = w /\ x.token = t}
  <2>1. BadgesOf(To(OfEvents(R))) = BadgesOf(To(R))
    BY <1>2 DEF BadgesOf, OfEvents, Transfers
  <2>2. BadgesOf(From(OfEvents(R))) = BadgesOf(From(R))
    BY <1>2 DEF BadgesOf, OfEvents, Transfers
  <2>3. \A Q : Got(Q, w, t) = Cardinality(BadgesOf(To(Q)))
    BY DEF Got
  <2>4. \A Q : Given(Q, w, t) = Cardinality(BadgesOf(From(Q)))
    BY DEF Given
  <2> HIDE DEF To, From
  <2> QED
    BY <1>2, <2>1, <2>2, <2>3, <2>4 DEF Net
<1>3. CASE t \notin EventTokens
  <2>1. {x \in OfEvents(R) : x.to = w /\ x.token = t} = {}
    BY <1>3 DEF OfEvents
  <2>2. {x \in OfEvents(R) : x.from = w /\ x.token = t} = {}
    BY <1>3 DEF OfEvents
  <2>3. BadgesOf({}) = {} /\ Cardinality({}) = 0
    BY FS_EmptySet DEF BadgesOf
  <2>4. Got(OfEvents(R), w, t) = 0 /\ Given(OfEvents(R), w, t) = 0
    BY <2>1, <2>2, <2>3 DEF Got, Given
  <2> QED
    BY <1>3, <2>4 DEF Net
<1> QED
  BY <1>2, <1>3
------------------------------------------------------------------------------
(* The contract's balances.                                                  *)

IOwners ==
  /\ owners \in Seq([Wallets -> [Tokens -> Int]]) /\ Len(owners) = Len(chain)
  /\ \A b \in 1..Len(chain) : owners[b] = Net(LogsOf(1, b))
  /\ IsFiniteSet(LogsOf(1, Len(chain)))
  /\ \A x \in LogsOf(1, Len(chain)) : ~Overdraws(Net(Before(x, LogsOf(1, Len(chain)))), x)

\* A transfer of the chain is in the blocks its place says.
LEMMA PlaceOf ==
  ASSUME IChain, NEW f \in Nat \ {0}, NEW t \in Nat, t <= Len(chain), NEW x \in LogsOf(f, t)
  PROVE  /\ x \in Transfers /\ x.block \in f..t
         /\ \A g \in Nat, u \in Nat : g <= x.block /\ x.block <= u => x \in LogsOf(g, u)
<1>1. PICK b \in f..t : \E i \in 1..Len(chain[b]) : x = chain[b][i]
  BY LogMember
<1>2. PICK i \in 1..Len(chain[b]) : x = chain[b][i]
  BY <1>1
<1>3. Len(chain) \in Nat
  BY LenProperties DEF IChain
<1>4. b \in 1..Len(chain)
  BY <1>3
<1>5. chain[b] \in Seq(Transfers)
  BY <1>4, ElementOfSeq DEF IChain
<1>6. x \in Transfers
  BY <1>2, <1>5, ElementOfSeq
<1>7. x.block = b
  BY <1>2, <1>4 DEF IChain
<1>8. ASSUME NEW g \in Nat, NEW u \in Nat, g <= x.block, x.block <= u
      PROVE  x \in LogsOf(g, u)
  BY <1>2, <1>7, <1>8, LogMember
<1> QED
  BY <1>6, <1>7, <1>8

LEMMA LatestIs ==
  ASSUME IChain, IOwners
  PROVE  Latest = Net(LogsOf(1, Len(chain)))
<1>1. Len(chain) \in Nat /\ (chain = << >> <=> Len(chain) = 0)
  BY LenProperties, EmptySeq DEF IChain
<1>2. CASE Len(chain) = 0
  <2>1. LogsOf(1, Len(chain)) = {}
    BY <1>2 DEF LogsOf
  <2> QED
    BY <1>1, <1>2, <2>1, NetOfNone DEF Latest
<1>3. CASE Len(chain) # 0
  BY <1>1, <1>3 DEF Latest, IOwners
<1> QED
  BY <1>2, <1>3

\* The transfers of block c, and what they make of the chain.
BlockOf(c, from, to, items) ==
  [i \in 1..Len(items) |->
     [block |-> c, sub |-> i, token |-> items[i].token,
      from |-> from, to |-> to, n |-> items[i].n]]

RowsOf(c, from, to, items) == {BlockOf(c, from, to, items)[i] : i \in 1..Len(items)}

\* The chain grows by a block c of transfers rows.
GrowsBy(c, rows) ==
  /\ IsFiniteSet(rows)
  /\ \A x \in rows : x.block = c
  /\ \A x \in rows : ~Overdraws(Moved(Latest, Before(x, rows)), x)
  /\ owners' = Append(owners, Moved(Latest, rows))
  /\ Len(chain') = c
  /\ \A b \in 1..Len(chain) : chain'[b] = chain[b]
  /\ LogsOf(1, c)' = LogsOf(1, Len(chain)) \cup rows

LEMMA NewBlock ==
  ASSUME IInv, NEW c, c = Len(chain) + 1,
         NEW from \in Wallets \cup {Zero}, NEW to \in Wallets \cup {Zero},
         NEW items \in Seq([token : Circulating, n : 0..MaxAmount]),
         AddBlock(from, to, items), NEW rows, rows = RowsOf(c, from, to, items)
  PROVE  GrowsBy(c, rows)
<1> DEFINE k == Len(items)
           block == BlockOf(c, from, to, items)
<1>0. rows = {block[i] : i \in 1..k}
  BY DEF RowsOf
<1>1. /\ \A x \in rows : ~Overdraws(Moved(Latest, Before(x, rows)), x)
      /\ owners' = Append(owners, Moved(Latest, rows))
      /\ chain' = Append(chain, block)
  BY DEF AddBlock, RowsOf, BlockOf
<1>2. k \in Nat /\ Len(chain) \in Nat /\ c \in Nat
  BY LenProperties DEF IInv, IChain
<1>3. \A x \in rows : x.block = c
  BY <1>0 DEF BlockOf
<1>4. IsFiniteSet(rows)
  <2>1. block \in Surjection(1..k, rows)
    <3>1. block \in [1..k -> rows] /\ \A x \in rows : \E i \in 1..k : block[i] = x
      BY <1>0 DEF BlockOf
    <3> QED
      BY <3>1 DEF Surjection
  <2>2. IsFiniteSet(1..k)
    BY <1>2, FS_Interval
  <2> HIDE DEF block, k
  <2> QED
    BY <2>1, <2>2, FS_Surjection
<1>5. block \in Seq(Transfers) /\ DOMAIN block = 1..k /\ Len(block) = k
  <2>1. Circulating \subseteq Tokens
    BY IndexerAssumption DEF Circulating, IInv, IChain
  <2>2. ASSUME NEW i \in 1..k PROVE block[i] \in Transfers
    <3>1. items[i] \in [token : Circulating, n : 0..MaxAmount]
      BY ElementOfSeq
    <3> QED
      BY <1>2, <2>1, <3>1 DEF Transfers, BlockOf
  <2>3. block \in [1..k -> Transfers]
    BY <2>2 DEF BlockOf
  <2> HIDE DEF block
  <2>4. block \in Seq(Transfers) /\ DOMAIN block = 1..k
    BY <1>2, <2>3, SeqDef
  <2> QED
    BY <1>2, <2>4, LenProperties
<1> HIDE DEF block, k
<1>6. /\ Len(chain') = c
      /\ \A b \in 1..Len(chain) : chain'[b] = chain[b]
      /\ chain'[c] = block
  BY <1>1, <1>5, AppendProperties DEF IInv, IChain
<1>7. LogsOf(1, c)' = LogsOf(1, Len(chain)) \cup rows
  <2>1. \A x : x \in LogsOf(1, c)' <=>
                 \E b \in 1..c : \E i \in 1..Len(chain'[b]) : x = chain'[b][i]
    BY SMTT(30) DEF LogsOf
  <2>2. \A x : x \in LogsOf(1, Len(chain)) <=>
                 \E b \in 1..Len(chain) : \E i \in 1..Len(chain[b]) : x = chain[b][i]
    BY LogMember
  <2>3. \A x : x \in rows <=> \E i \in 1..Len(chain'[c]) : x = chain'[c][i]
    BY <1>0, <1>5, <1>6
  <2>4. \A b : b \in 1..c <=> b \in 1..Len(chain) \/ b = c
    BY <1>2
  <2>5. ASSUME NEW x
        PROVE  x \in LogsOf(1, c)' <=> x \in LogsOf(1, Len(chain)) \/ x \in rows
    <3>1. ASSUME x \in LogsOf(1, c)' PROVE x \in LogsOf(1, Len(chain)) \/ x \in rows
      <4>1. PICK b \in 1..c : \E i \in 1..Len(chain'[b]) : x = chain'[b][i]
        BY <2>1, <3>1
      <4>2. CASE b = c
        BY <2>3, <4>1, <4>2
      <4>3. CASE b # c
        <5>1. b \in 1..Len(chain) /\ chain'[b] = chain[b]
          BY <1>6, <2>4, <4>3
        <5> QED
          BY <2>2, <4>1, <5>1
      <4> QED
        BY <4>2, <4>3
    <3>2. ASSUME x \in LogsOf(1, Len(chain)) PROVE x \in LogsOf(1, c)'
      <4>1. PICK b \in 1..Len(chain) : \E i \in 1..Len(chain[b]) : x = chain[b][i]
        BY <2>2, <3>2
      <4>2. b \in 1..c /\ chain'[b] = chain[b]
        BY <1>6, <2>4
      <4> QED
        BY <2>1, <4>1, <4>2
    <3>3. ASSUME x \in rows PROVE x \in LogsOf(1, c)'
      <4>1. c \in 1..c
        BY <2>4
      <4> QED
        BY <2>1, <2>3, <3>3, <4>1
    <3> QED
      BY <3>1, <3>2, <3>3
  <2>6. \A x : x \in LogsOf(1, c)' <=> x \in LogsOf(1, Len(chain)) \cup rows
    BY <2>5
  <2> QED
    BY <2>6
<1> QED
  BY <1>1, <1>3, <1>4, <1>6, <1>7 DEF GrowsBy

\* The balances the contract keeps stay the sum of its transfers, and no
\* transfer moves badges its source lacks.
LEMMA BlockKeepsOwners ==
  ASSUME IInv, IOwners, NEW from \in Wallets \cup {Zero}, NEW to \in Wallets \cup {Zero},
         NEW items \in Seq([token : Circulating, n : 0..MaxAmount]), AddBlock(from, to, items)
  PROVE  /\ IOwners' /\ Len(owners') = Len(owners) + 1
         /\ \A b \in 1..Len(owners) : owners'[b] = owners[b]
         /\ Len(chain') = Len(chain) + 1
         /\ \A b \in 1..Len(chain) : chain'[b] = chain[b]
<1>1. PICK l : l = Len(chain)
  OBVIOUS
<1>2. PICK c : c = Len(chain) + 1
  OBVIOUS
<1>3. PICK G : G = LogsOf(1, l)
  OBVIOUS
<1>3a. PICK rows : rows = RowsOf(c, from, to, items)
  OBVIOUS
<1>3b. GrowsBy(c, rows)
  BY <1>2, <1>3a, NewBlock
<1>4. /\ IsFiniteSet(rows)
      /\ \A x \in rows : x.block = c
      /\ \A x \in rows : ~Overdraws(Moved(Latest, Before(x, rows)), x)
      /\ owners' = Append(owners, Moved(Latest, rows))
      /\ Len(chain') = c
      /\ \A b \in 1..Len(chain) : chain'[b] = chain[b]
      /\ LogsOf(1, c)' = LogsOf(1, Len(chain)) \cup rows
  BY <1>3b DEF GrowsBy
<1>5. l \in Nat /\ c \in Nat /\ c = l + 1
  BY <1>1, <1>2, LenProperties DEF IInv, IChain
<1>6. \A x \in G : x.block \in 1..l
  BY <1>1, <1>3, <1>5, PlaceOf DEF IInv
<1>7. G \cap rows = {} /\ IsFiniteSet(G)
  BY <1>1, <1>3, <1>4, <1>5, <1>6 DEF IOwners
<1>8. Latest = Net(G)
  BY <1>1, <1>3, LatestIs DEF IInv
<1>9. ASSUME NEW R \in SUBSET rows
      PROVE  IsFiniteSet(R) /\ Moved(Latest, R) = Net(G \cup R)
  <2>1. IsFiniteSet(R) /\ G \cap R = {}
    BY <1>4, <1>7, FS_Subset
  <2> QED
    BY <1>7, <1>8, <2>1, Adds
<1>10. PICK H : H = G \cup rows
  OBVIOUS
<1>11. LogsOf(1, c)' = H /\ IsFiniteSet(H)
  BY <1>1, <1>3, <1>4, <1>7, <1>10, FS_Union
<1>12. owners' = Append(owners, Net(H)) /\ Net(H) \in [Wallets -> [Tokens -> Int]]
  BY <1>4, <1>9, <1>10, <1>11, NetType
<1>13. /\ owners' \in Seq([Wallets -> [Tokens -> Int]])
       /\ Len(owners') = c
       /\ \A b \in 1..l : owners'[b] = owners[b]
       /\ owners'[c] = Net(H)
  BY <1>1, <1>5, <1>12, AppendProperties DEF IOwners
<1>14. ASSUME NEW b \in 1..c PROVE owners'[b] = Net(LogsOf(1, b)')
  <2>1. CASE b = c
    BY <1>11, <1>13, <2>1
  <2>2. CASE b # c
    <3>1. b \in 1..l /\ b \in Nat /\ b <= Len(chain) /\ Len(chain) \in Nat
      BY <1>1, <1>5, <2>2
    <3>2. LogsOf(1, b)' = LogsOf(1, b)
      BY <1>4, <3>1, LogsStay
    <3> QED
      BY <1>1, <1>13, <3>1, <3>2 DEF IOwners
  <2> QED
    BY <2>1, <2>2
<1>15. ASSUME NEW x \in H PROVE ~Overdraws(Net(Before(x, H)), x)
  <2>1. CASE x \in G
    <3>1. Before(x, H) = Before(x, G)
      BY <1>4, <1>5, <1>6, <1>10, <2>1 DEF Before
    <3> QED
      BY <1>1, <1>3, <2>1, <3>1 DEF IOwners
  <2>2. CASE x \in rows
    <3>1. Before(x, H) = G \cup Before(x, rows)
      BY <1>4, <1>5, <1>6, <1>10, <2>2 DEF Before
    <3>2. Before(x, rows) \in SUBSET rows
      BY DEF Before
    <3>3. Moved(Latest, Before(x, rows)) = Net(G \cup Before(x, rows))
      BY <1>9, <3>2
    <3> QED
      BY <1>4, <2>2, <3>1, <3>3
  <2> QED
    BY <1>10, <2>1, <2>2
<1>16. Len(chain)' = c
  BY <1>4
<1>17. LogsOf(1, Len(chain))' = H
  BY <1>11, <1>16 DEF LogsOf
<1>18. IOwners'
  BY <1>11, <1>13, <1>14, <1>15, <1>16, <1>17 DEF IOwners
<1> QED
  BY <1>1, <1>4, <1>5, <1>13, <1>18 DEF IOwners
------------------------------------------------------------------------------
(* The journal and its balances.                                             *)

\* What the journal holds once every block up to b is indexed.
EventRows(b) == OfEvents(LogsOf(1, b))

IIndex ==
  /\ \E c \in next - 1 .. finalized : journal = EventRows(c)
  /\ balances = Net(journal)
  /\ \A r \in Runs : run[r].at = "fetched" => run[r].tokens \subseteq EventTokens

LEMMA EventsGrow ==
  ASSUME IChain, NEW c \in Nat, NEW d \in Nat, d <= Len(chain)
  PROVE  /\ \A x \in EventRows(d) : /\ x \in Transfers /\ x.block \in 1..d
                                    /\ x.token \in EventTokens /\ x.n > 0
         /\ \A x \in EventRows(d) : x.block <= c => x \in EventRows(c)
         /\ c <= d => EventRows(c) \subseteq EventRows(d)
<1>0. Len(chain) \in Nat
  BY LenProperties DEF IChain
<1>1. ASSUME NEW e \in Nat, e <= Len(chain), NEW x \in EventRows(e)
      PROVE  /\ x \in Transfers /\ x.block \in 1..e /\ x.token \in EventTokens /\ x.n > 0
             /\ \A u \in Nat : x.block <= u => x \in EventRows(u)
  <2>1. x \in LogsOf(1, e) /\ x.token \in EventTokens /\ x.n > 0
    BY <1>1 DEF EventRows, OfEvents
  <2>2. /\ x \in Transfers /\ x.block \in 1..e
        /\ \A g \in Nat, u \in Nat : g <= x.block /\ x.block <= u => x \in LogsOf(g, u)
    BY <1>1, <2>1, PlaceOf
  <2>3. \A u \in Nat : x.block <= u => x \in LogsOf(1, u)
    BY <2>2
  <2> QED
    BY <2>1, <2>2, <2>3 DEF EventRows, OfEvents
<1>2. ASSUME c <= d, NEW x \in EventRows(c) PROVE x \in EventRows(d)
  <2>1. c <= Len(chain)
    BY <1>0, <1>2
  <2>2. x.block \in 1..c /\ \A u \in Nat : x.block <= u => x \in EventRows(u)
    BY <1>1, <1>2, <2>1
  <2> QED
    BY <1>2, <2>2
<1> QED
  BY <1>1, <1>2

\* With rows, a journal of the blocks up to c holds those up to d.
CompletesTo(c, d, rows) ==
  /\ c \in Nat /\ d \in Nat /\ c <= finalized /\ d <= finalized
  /\ finalized \in Nat /\ finalized <= Len(chain) /\ Len(chain) \in Nat
  /\ rows \cap journal = {}
  /\ rows \subseteq EventRows(d)
  /\ \A x \in rows : x.block > c
  /\ d <= c => rows = {}
  /\ d > c => journal \cup rows = EventRows(d)

\* A batch adds what the journal lacks of the blocks up to its last one.
LEMMA BatchRows ==
  ASSUME IInv, IRunType, IIndex, NEW r \in Runs, run[r].at = "fetched",
         NEW c \in next - 1 .. finalized, journal = EventRows(c),
         NEW to, to = run[r].to, NEW rows, rows = NewRows(run[r])
  PROVE  CompletesTo(c, to, rows)
<1> DEFINE p == run[r]
<1>1. p \in RunStates /\ RunOK(p)
  BY DEF IRunType, IInv, IRuns
<1>2. /\ Len(chain) \in Nat /\ finalized \in Nat /\ finalized <= Len(chain)
      /\ next \in Nat /\ next >= 1
  BY LenProperties DEF IInv, IChain, ICursor
<1>3. /\ p.from \in Nat \ {0} /\ p.from <= next /\ to \in Nat
      /\ p.from <= to /\ to <= finalized
  BY <1>1, <1>2 DEF RunOK, RunStates, Idle
<1>4. c \in Nat /\ c <= finalized /\ next <= c + 1
  BY <1>2
<1>5. \A x : x \in rows <=> /\ x \in LogsOf(p.from, to) /\ x.token \in p.tokens /\ x.n > 0
                            /\ Key(x) \notin {Key(y) : y \in journal}
  BY DEF NewRows, Decoded, Fresh
<1>6. to <= Len(chain) /\ c <= Len(chain)
  BY <1>2, <1>3, <1>4
<1>7. ASSUME NEW x \in rows PROVE x \in EventRows(to) /\ x \notin journal
  <2>1. x \in LogsOf(p.from, to) /\ x.token \in p.tokens /\ x.n > 0
    BY <1>5
  <2>2. x.block \in p.from..to
        /\ \A g \in Nat, u \in Nat : g <= x.block /\ x.block <= u => x \in LogsOf(g, u)
    BY <1>3, <1>6, <2>1, PlaceOf DEF IInv
  <2>3. x \in LogsOf(1, to)
    BY <1>3, <2>2
  <2>4. x.token \in EventTokens
    BY <2>1 DEF IIndex
  <2>5. x \notin journal
    BY <1>5
  <2> QED
    BY <2>1, <2>3, <2>4, <2>5 DEF EventRows, OfEvents
<1>8. ASSUME NEW x \in rows PROVE x.block > c
  <2>1. x.block \in 1..to /\ (x.block <= c => x \in EventRows(c))
    BY <1>3, <1>4, <1>6, <1>7, EventsGrow DEF IInv
  <2> QED
    BY <1>4, <1>7, <2>1
<1>9. ASSUME NEW x \in EventRows(to), x \notin journal PROVE x \in rows
  <2>1. x.block \in 1..to /\ x.token \in EventTokens /\ x.n > 0 /\ x.block > c
    BY <1>3, <1>4, <1>6, <1>9, EventsGrow DEF IInv
  <2>2. x \in LogsOf(1, to)
    BY DEF EventRows, OfEvents
  <2>3. \A g \in Nat, u \in Nat : g <= x.block /\ x.block <= u => x \in LogsOf(g, u)
    BY <1>3, <1>6, <2>2, PlaceOf DEF IInv
  <2>4. x \in LogsOf(p.from, to) /\ x \in LogsOf(1, finalized)
    BY <1>2, <1>3, <1>4, <2>1, <2>3
  <2>5. x.token \in p.tokens
    BY <1>1, <2>1, <2>4 DEF RunOK
  <2>6. ASSUME NEW y \in journal, Key(x) = Key(y) PROVE FALSE
    <3>1. y \in LogsOf(1, finalized)
      BY DEF IInv, IJournal, OnlyFinalStored
    <3>2. x = y
      BY <2>4, <2>6, <3>1, KeyIdentifies DEF IInv
    <3> QED
      BY <1>9, <3>2
  <2>7. Key(x) \notin {Key(y) : y \in journal}
    BY <2>6
  <2> QED
    BY <1>5, <2>1, <2>4, <2>5, <2>7
<1>10. ASSUME to <= c PROVE rows = {}
  <2>1. EventRows(to) \subseteq EventRows(c)
    BY <1>3, <1>4, <1>6, <1>10, EventsGrow DEF IInv
  <2> QED
    BY <1>7, <2>1
<1>11. ASSUME to > c PROVE journal \cup rows = EventRows(to)
  <2>1. EventRows(c) \subseteq EventRows(to)
    BY <1>3, <1>4, <1>6, <1>11, EventsGrow DEF IInv
  <2> QED
    BY <1>7, <1>9, <2>1
<1> QED
  BY <1>2, <1>3, <1>4, <1>7, <1>8, <1>10, <1>11 DEF CompletesTo

IBook == IOwners /\ IIndex

LEMMA BookFinite ==
  ASSUME IChain, IOwners, NEW b \in Nat, b <= Len(chain)
  PROVE  IsFiniteSet(EventRows(b))
<1>1. Len(chain) \in Nat
  BY LenProperties DEF IChain
<1>2. EventRows(b) \subseteq LogsOf(1, Len(chain))
  <2>1. EventRows(b) \subseteq EventRows(Len(chain))
    BY <1>1, EventsGrow
  <2> QED
    BY <2>1 DEF EventRows, OfEvents
<1> QED
  BY <1>2, FS_Subset DEF IOwners

\* What is stored with a batch is what the contract's owners have of it.
LEMMA CommitKeepsIndex ==
  ASSUME IInv, IRunType, IBook, NEW r \in Runs, Commit(r)
  PROVE  IIndex'
<1>1. PICK c \in next - 1 .. finalized : journal = EventRows(c)
  BY DEF IBook, IIndex
<1>2. PICK to : to = run[r].to
  OBVIOUS
<1>3. PICK rows : rows = NewRows(run[r])
  OBVIOUS
<1>4. run[r].at = "fetched" /\ IIndex
  BY DEF Commit, IBook
<1>4a. CompletesTo(c, to, rows)
  BY <1>1, <1>2, <1>3, <1>4, BatchRows
<1>5. /\ c \in Nat /\ to \in Nat /\ c <= finalized /\ to <= finalized
      /\ finalized \in Nat /\ finalized <= Len(chain) /\ Len(chain) \in Nat
      /\ rows \cap journal = {}
      /\ rows \subseteq EventRows(to)
      /\ to <= c => rows = {}
      /\ to > c => journal \cup rows = EventRows(to)
  BY <1>4a DEF CompletesTo
<1>6. PICK d : d = IF to > c THEN to ELSE c
  OBVIOUS
<1>7. d \in Nat /\ d <= finalized /\ d >= c /\ d >= to /\ journal \cup rows = EventRows(d)
  BY <1>1, <1>5, <1>6
<1>8. /\ journal' = journal \cup rows /\ balances' = Post(balances, rows)
      /\ run' = [run EXCEPT ![r] = Following(run[r])]
      /\ UNCHANGED <<chain, finalized>>
  BY <1>3 DEF Commit, Step, chainVars
<1>9. next' <= d + 1 /\ next \in Nat /\ next >= 1 /\ next' \in Nat /\ next' >= 1
  <2>1. /\ next \in Nat /\ next >= 1 /\ next <= c + 1
        /\ next' = to + 1 \/ next' = next
    <3>1. next \in 1..finalized + 1
      BY DEF IInv, ICursor
    <3> QED
      BY <1>2, <1>5, <3>1 DEF Commit, MoveCursor
  <2> QED
    BY <1>5, <1>7, <2>1
<1>10. EventRows(d)' = EventRows(d)
  BY <1>8 DEF EventRows, OfEvents, LogsOf
<1>11. \E e \in next' - 1 .. finalized' : journal' = EventRows(e)'
  <2>0. finalized' = finalized
    BY <1>8
  <2>1. d \in next' - 1 .. finalized'
    <3>0. d \in Nat
      BY <1>7
    <3>1. next' - 1 <= d /\ next' - 1 \in Int
      <4>1. \A n \in Nat : n <= d + 1 => n - 1 <= d /\ n - 1 \in Int
        BY <3>0
      <4> QED
        BY <1>9, <4>1
    <3>2. d <= finalized' /\ finalized' \in Int
      BY <1>5, <1>7, <2>0
    <3> QED
      BY <1>7, <3>1, <3>2
  <2>2. journal' = EventRows(d)'
    BY <1>7, <1>8, <1>10
  <2> QED
    BY <2>1, <2>2
<1>12. balances' = Net(journal')
  <2>1. IsFiniteSet(journal) /\ IsFiniteSet(rows)
    <3>1. /\ IsFiniteSet(EventRows(c)) /\ IsFiniteSet(EventRows(to))
      BY <1>5, BookFinite DEF IInv, IBook
    <3> QED
      BY <1>1, <1>5, <3>1, FS_Subset
  <2>2. Post(Net(journal), rows) = Net(journal \cup rows)
    BY <1>5, <2>1, Adds
  <2> QED
    BY <1>8, <2>2 DEF IBook, IIndex
<1>13. ASSUME NEW q \in Runs, run'[q].at = "fetched" PROVE run'[q].tokens \subseteq EventTokens
  <2>1. q # r
    <3>1. Following(run[r]).at # "fetched"
      BY DEF Following, Idle
    <3> QED
      BY <1>8, <1>13, <3>1 DEF IRunType
  <2>2. run'[q] = run[q]
    BY <1>8, <2>1 DEF IRunType
  <2> QED
    BY <1>13, <2>2 DEF IBook, IIndex
<1> QED
  BY <1>11, <1>12, <1>13 DEF IIndex

\* The other steps leave the index, and do not fetch tokens of other contracts.
LEMMA OthersKeepIndex ==
  ASSUME IInv, IRunType, IIndex, UNCHANGED dbVars, finalized' \in Nat, finalized <= finalized',
         Len(chain) <= Len(chain)', \A b \in 1..Len(chain) : chain'[b] = chain[b],
         \A r \in Runs : run'[r].at = "fetched" =>
           \/ run'[r] = run[r]
           \/ run'[r].tokens = tracked
  PROVE  IIndex'
<1>1. PICK c \in next - 1 .. finalized : journal = EventRows(c)
  BY DEF IIndex
<1>2. /\ Len(chain) \in Nat /\ finalized \in Nat /\ finalized <= Len(chain)
      /\ next \in Nat /\ next >= 1
  BY LenProperties DEF IInv, IChain, ICursor
<1>3. c \in Nat /\ c <= Len(chain)
  BY <1>2
<1>4. EventRows(c)' = EventRows(c)
  <2>1. LogsOf(1, c)' = LogsOf(1, c)
    BY <1>2, <1>3, LogsStay
  <2> QED
    BY <2>1 DEF EventRows, OfEvents
<1>5. \E e \in next' - 1 .. finalized' : journal' = EventRows(e)'
  <2>1. c \in next' - 1 .. finalized'
    BY <1>2 DEF dbVars
  <2>2. journal' = EventRows(c)'
    BY <1>1, <1>4 DEF dbVars
  <2> QED
    BY <2>1, <2>2
<1>6. balances' = Net(journal')
  BY DEF IIndex, dbVars
<1>7. \A r \in Runs : run'[r].at = "fetched" => run'[r].tokens \subseteq EventTokens
  BY DEF IIndex, IInv, IChain
<1> QED
  BY <1>5, <1>6, <1>7 DEF IIndex

LEMMA BookInitially == Init => IBook
<1> SUFFICES ASSUME Init PROVE IBook
  OBVIOUS
<1>1. chain = << >> /\ owners = << >> /\ Len(chain) = 0 /\ Len(owners) = 0
      /\ owners \in Seq([Wallets -> [Tokens -> Int]])
  BY EmptySeq DEF Init
<1>2. LogsOf(1, 0) = {}
  BY DEF LogsOf
<1>3. IOwners
  BY <1>1, <1>2, FS_EmptySet DEF IOwners
<1>4. EventRows(0) = {} /\ Net({}) = NoBadges
  BY <1>2, NetOfNone DEF EventRows, OfEvents
<1>5. IIndex
  BY <1>4 DEF Init, IIndex, Idle
<1> QED
  BY <1>3, <1>5 DEF IBook

\* No batch finds a source short: whatever it stores before a transfer, with
\* what is stored already, is all that the contract had counted before it.
LEMMA NotRefused ==
  ASSUME IInv, IRunType, IBook
  PROVE  NeverRefused
<1> SUFFICES ASSUME NEW r \in Runs, run[r].at = "fetched", Refused(run[r])
             PROVE  FALSE
  BY DEF NeverRefused
<1>1. PICK c \in next - 1 .. finalized : journal = EventRows(c)
  BY DEF IBook, IIndex
<1>2. PICK to : to = run[r].to
  OBVIOUS
<1>3. PICK rows : rows = NewRows(run[r])
  OBVIOUS
<1>4. CompletesTo(c, to, rows)
  BY <1>1, <1>2, <1>3, BatchRows DEF IBook
<1>5. PICK x \in rows : Overdraws(Post(balances, Before(x, rows)), x)
  BY <1>3 DEF Refused
<1>6. /\ c \in Nat /\ to \in Nat /\ to <= finalized /\ to > c
      /\ finalized \in Nat /\ finalized <= Len(chain) /\ Len(chain) \in Nat
      /\ rows \cap journal = {} /\ journal \cup rows = EventRows(to)
      /\ \A y \in rows : y.block > c
  <2>1. /\ c \in Nat /\ to \in Nat /\ to <= finalized
        /\ finalized \in Nat /\ finalized <= Len(chain) /\ Len(chain) \in Nat
        /\ rows \cap journal = {} /\ \A y \in rows : y.block > c
    BY <1>4 DEF CompletesTo
  <2>2. to > c
    BY <1>4, <1>5, <2>1 DEF CompletesTo
  <2>3. journal \cup rows = EventRows(to)
    BY <1>4, <2>2 DEF CompletesTo
  <2> QED
    BY <2>1, <2>2, <2>3
<1>7. PICK G : G = LogsOf(1, Len(chain))
  OBVIOUS
<1>8. PICK B : B = Before(x, rows)
  OBVIOUS
<1>9. /\ \A y \in journal : y \in Transfers /\ y.block \in 1..c
      /\ \A y \in EventRows(to) : y \in Transfers /\ y.block \in 1..to
  BY <1>1, <1>6, EventsGrow DEF IInv
<1>10. /\ \A y \in EventRows(to) : y \in G /\ y.token \in EventTokens /\ y.n > 0
       /\ \A y \in G : /\ y \in Transfers
                       /\ y.block <= to /\ y.token \in EventTokens /\ y.n > 0 => y \in EventRows(to)
  <2>1. EventRows(Len(chain)) = OfEvents(G)
    BY <1>7 DEF EventRows
  <2>2. ASSUME NEW y \in EventRows(to) PROVE y \in G /\ y.token \in EventTokens /\ y.n > 0
    <3>1. EventRows(to) \subseteq EventRows(Len(chain))
      BY <1>6, EventsGrow DEF IInv
    <3> QED
      BY <2>1, <3>1 DEF OfEvents
  <2>3. ASSUME NEW y \in G
        PROVE  /\ y \in Transfers
               /\ y.block <= to /\ y.token \in EventTokens /\ y.n > 0 => y \in EventRows(to)
    <3>1. y \in Transfers
      BY <1>6, <1>7, PlaceOf DEF IInv
    <3>2. ASSUME y.block <= to, y.token \in EventTokens, y.n > 0 PROVE y \in EventRows(to)
      <4>1. y \in EventRows(Len(chain))
        BY <2>1, <3>2 DEF OfEvents
      <4> QED
        BY <1>6, <3>2, <4>1, EventsGrow DEF IInv
    <3> QED
      BY <3>1, <3>2
  <2> QED
    BY <2>2, <2>3
<1>11. journal \cup B = OfEvents(Before(x, G))
  <2>1. x \in EventRows(to) /\ x.block \in 1..to /\ x.block > c /\ x.block \in Nat
    BY <1>5, <1>6, <1>9
  <2>2. ASSUME NEW y \in journal PROVE y \in OfEvents(Before(x, G))
    <3>1. y \in EventRows(to) /\ y.block < x.block
      BY <1>6, <1>9, <2>1
    <3> QED
      BY <1>10, <3>1 DEF OfEvents, Before
  <2>3. ASSUME NEW y \in B PROVE y \in OfEvents(Before(x, G))
    <3>1. y \in rows /\ (y.block < x.block \/ (y.block = x.block /\ y.sub < x.sub))
      BY <1>8 DEF Before
    <3>2. y \in EventRows(to)
      BY <1>6, <3>1
    <3> QED
      BY <1>10, <3>1, <3>2 DEF OfEvents, Before
  <2>4. ASSUME NEW y \in OfEvents(Before(x, G)) PROVE y \in journal \cup B
    <3>1. /\ y \in G /\ y.token \in EventTokens /\ y.n > 0
          /\ y.block < x.block \/ (y.block = x.block /\ y.sub < x.sub)
      BY DEF OfEvents, Before
    <3>2. y.block \in Nat
      BY <1>10, <3>1 DEF Transfers
    <3>3. y.block <= to
      BY <1>6, <2>1, <3>1, <3>2
    <3>4. y \in journal \cup rows
      BY <1>6, <1>10, <3>1, <3>3
    <3> QED
      BY <1>8, <3>1, <3>4 DEF Before
  <2> QED
    BY <2>2, <2>3, <2>4
<1>12. Post(balances, B) = Net(OfEvents(Before(x, G)))
  <2>1. IsFiniteSet(EventRows(to))
    BY <1>6, BookFinite DEF IInv, IBook
  <2>2. IsFiniteSet(journal) /\ IsFiniteSet(B) /\ journal \cap B = {}
    <3>1. journal \subseteq EventRows(to) /\ B \subseteq rows /\ B \subseteq EventRows(to)
      BY <1>6, <1>8 DEF Before
    <3> QED
      BY <1>6, <2>1, <3>1, FS_Subset
  <2>3. Post(Net(journal), B) = Net(journal \cup B)
    BY <2>2, Adds
  <2> QED
    BY <1>11, <2>3 DEF IBook, IIndex
<1>13. x \in G /\ x \in Transfers /\ x.token \in EventTokens
  BY <1>5, <1>6, <1>10
<1>14. x.from # Zero /\ Post(balances, B)[x.from][x.token] < x.n
  BY <1>5, <1>8 DEF Overdraws
<1>15. x.from \in Wallets /\ x.token \in Tokens
  BY <1>13, <1>14 DEF Transfers
<1>16. Before(x, G) \in SUBSET Transfers
  BY <1>10 DEF Before
<1>17. Net(OfEvents(Before(x, G)))[x.from][x.token] = Net(Before(x, G))[x.from][x.token]
  BY <1>13, <1>15, <1>16, EventsCount
<1>18. Overdraws(Net(Before(x, G)), x)
  BY <1>12, <1>14, <1>17 DEF Overdraws
<1> QED
  BY <1>7, <1>13, <1>18 DEF IBook, IOwners

\* The block the balances are of.
LEMMA CoveredIs ==
  ASSUME IInv, IBook
  PROVE  /\ Covered \in next - 1 .. finalized /\ Covered \in Nat
         /\ journal = EventRows(Covered)
         /\ \A x \in journal : x.block <= Covered
         /\ Covered = next - 1 \/ \E x \in journal : Covered = x.block
<1> DEFINE S == {next - 1} \cup {x.block : x \in journal}
<1>1. PICK c \in next - 1 .. finalized : journal = EventRows(c)
  BY DEF IBook, IIndex
<1>2. /\ Len(chain) \in Nat /\ finalized \in Nat /\ finalized <= Len(chain)
      /\ next \in Nat /\ next >= 1
  BY LenProperties DEF IInv, IChain, ICursor
<1>3. c \in Nat /\ c <= Len(chain) /\ next - 1 \in Nat /\ next - 1 <= c
  BY <1>2
<1>4. \A x \in journal : x.block \in 1..c
  BY <1>1, <1>3, EventsGrow DEF IInv
<1>5. S \in SUBSET (0..c) /\ S # {}
  BY <1>3, <1>4
<1>6. IsFiniteSet(S) /\ S \in SUBSET Nat
  <2>1. IsFiniteSet(0..c)
    BY <1>3, FS_Interval
  <2> HIDE DEF S
  <2>2. IsFiniteSet(S)
    BY <1>5, <2>1, FS_Subset
  <2>3. S \in SUBSET Nat
    BY <1>3, <1>5
  <2> QED
    BY <2>2, <2>3
<1>7. Covered = Max(S)
  BY DEF Covered
<1>8. Covered \in S /\ \A k \in S : k <= Covered
  <2> HIDE DEF S
  <2> QED
    BY <1>5, <1>6, <1>7, MaxOf
<1>9. Covered \in Nat /\ next - 1 <= Covered /\ Covered <= c
  BY <1>3, <1>5, <1>8
<1>10. \A x \in journal : x.block <= Covered
  BY <1>8
<1>11. journal = EventRows(Covered)
  <2>1. EventRows(Covered) \subseteq EventRows(c)
    BY <1>3, <1>9, EventsGrow DEF IInv
  <2>2. \A x \in EventRows(c) : x.block <= Covered => x \in EventRows(Covered)
    BY <1>3, <1>9, EventsGrow DEF IInv
  <2> QED
    BY <1>1, <1>10, <2>1, <2>2
<1>12. Covered \in next - 1 .. finalized
  BY <1>2, <1>3, <1>9
<1>13. Covered = next - 1 \/ \E x \in journal : Covered = x.block
  BY <1>8
<1> QED
  BY <1>9, <1>10, <1>11, <1>12, <1>13

\* What is published are the contract's owners at that block.
LEMMA BalancesAre ==
  ASSUME IInv, IBook
  PROVE  balances = Feed!At(Covered)
<1>1. /\ Covered \in next - 1 .. finalized /\ Covered \in Nat
      /\ journal = EventRows(Covered)
  BY CoveredIs
<1>2. Len(chain) \in Nat /\ finalized \in Nat /\ finalized <= Len(chain)
  BY LenProperties DEF IInv, IChain
<1>3. PICK R : R = LogsOf(1, Covered)
  OBVIOUS
<1>4. R \in SUBSET Transfers
  <2>1. Covered <= Len(chain)
    BY <1>1, <1>2
  <2> QED
    BY <1>1, <1>3, <2>1, PlaceOf DEF IInv
<1>5. balances = Net(OfEvents(R))
  BY <1>1, <1>3 DEF IBook, IIndex, EventRows
<1>6. ASSUME NEW w \in Wallets, NEW t \in Tokens
      PROVE  Net(OfEvents(R))[w][t] =
               IF Covered = 0 \/ t \notin EventTokens THEN 0 ELSE owners[Covered][w][t]
  <2>1. CASE t \notin EventTokens
    BY <1>4, <2>1, EventsCount
  <2>2. CASE t \in EventTokens /\ Covered = 0
    <3>1. R = {}
      BY <1>3, <2>2 DEF LogsOf
    <3>2. Net(R)[w][t] = 0
      BY <3>1, NetOfNone DEF NoBadges
    <3> QED
      BY <1>4, <2>2, <3>2, EventsCount
  <2>3. CASE t \in EventTokens /\ Covered # 0
    <3>1. Covered \in 1..Len(chain)
      BY <1>1, <1>2, <2>3
    <3>2. owners[Covered] = Net(R)
      BY <1>3, <3>1 DEF IBook, IOwners
    <3> QED
      BY <1>4, <2>3, <3>2, EventsCount
  <2> QED
    BY <2>1, <2>2, <2>3
<1>7. Net(OfEvents(R)) = [w \in Wallets |-> [t \in Tokens |-> Net(OfEvents(R))[w][t]]]
  BY DEF Net
<1> QED
  BY <1>5, <1>6, <1>7 DEF Feed!At

\* The chain grows by a block, or one more block of it becomes final.
ChainStep ==
  \/ /\ Len(owners') = Len(owners) + 1
     /\ \A b \in 1..Len(owners) : owners'[b] = owners[b]
     /\ finalized' = finalized
  \/ owners' = owners /\ finalized' \in finalized + 1 .. Len(owners)

LEMMA OwnersStay ==
  ASSUME IOwners, UNCHANGED <<chain, owners>>
  PROVE  IOwners'
<1>1. LogsOf(1, Len(chain))' = LogsOf(1, Len(chain))
  BY DEF LogsOf
<1>2. \A b \in 1..Len(chain) : LogsOf(1, b)' = LogsOf(1, b)
  BY DEF LogsOf
<1>3. /\ owners' \in Seq([Wallets -> [Tokens -> Int]]) /\ Len(owners') = Len(chain')
  BY DEF IOwners
<1>4. \A b \in 1..Len(chain)' : owners'[b] = Net(LogsOf(1, b)')
  BY <1>2 DEF IOwners
<1>5. /\ IsFiniteSet(LogsOf(1, Len(chain))')
      /\ \A x \in LogsOf(1, Len(chain))' :
           ~Overdraws(Net(Before(x, LogsOf(1, Len(chain))')), x)
  BY <1>1 DEF IOwners
<1> QED
  BY <1>3, <1>4, <1>5 DEF IOwners

\* What each step is to a reader of the index.
LEMMA NextKeepsBook ==
  ASSUME IInv, IRunType, IBook, [Next]_vars
  PROVE  /\ IBook'
         /\ \/ \E r \in Runs : Commit(r)
            \/ UNCHANGED dbVars /\ ChainStep
            \/ UNCHANGED dbVars /\ UNCHANGED chainVars
<1>1. /\ Len(chain) \in Nat /\ finalized \in Nat /\ finalized <= Len(chain)
      /\ Len(owners) = Len(chain)
  BY LenProperties DEF IInv, IChain, IBook, IOwners
<1>2. CASE EmptyBlock \/ Transfer \/ \E w \in Wallets, t \in Tokens : Mint(w, t)
  <2>1. PICK from \in Wallets \cup {Zero}, to \in Wallets \cup {Zero} :
          \E items \in Seq([token : Circulating, n : 0..MaxAmount]) : AddBlock(from, to, items)
    BY <1>2, BlockIsAdded
  <2>2. PICK items \in Seq([token : Circulating, n : 0..MaxAmount]) : AddBlock(from, to, items)
    BY <2>1
  <2>3. /\ IOwners' /\ Len(owners') = Len(owners) + 1
        /\ \A b \in 1..Len(owners) : owners'[b] = owners[b]
        /\ Len(chain') = Len(chain) + 1
        /\ \A b \in 1..Len(chain) : chain'[b] = chain[b]
    BY <2>2, BlockKeepsOwners DEF IBook
  <2>4. UNCHANGED <<finalized, run>> /\ UNCHANGED dbVars
    BY <2>2 DEF AddBlock
  <2>5. Len(chain) <= Len(chain)' /\ finalized' \in Nat /\ finalized <= finalized'
    BY <1>1, <2>3, <2>4
  <2>6. IIndex'
    BY <2>3, <2>4, <2>5, OthersKeepIndex DEF IBook
  <2>7. ChainStep
    BY <2>3, <2>4 DEF ChainStep
  <2> QED
    BY <2>3, <2>4, <2>6, <2>7 DEF IBook
<1>3. ASSUME UNCHANGED <<chain, owners>>, UNCHANGED dbVars,
             finalized' \in Nat, finalized <= finalized',
             \A r \in Runs : run'[r].at = "fetched" =>
               \/ run'[r] = run[r]
               \/ run'[r].tokens = tracked
      PROVE  IBook'
  <2>1. IOwners'
    BY <1>3, OwnersStay DEF IBook
  <2>2. IIndex'
    BY <1>1, <1>3, OthersKeepIndex DEF IBook
  <2> QED
    BY <2>1, <2>2 DEF IBook
<1>4. CASE Finalize
  <2>1. /\ UNCHANGED <<chain, owners, run>> /\ UNCHANGED dbVars
        /\ finalized' \in finalized + 1 .. Len(chain)
    BY <1>4 DEF Finalize
  <2>2. finalized' \in Nat /\ finalized <= finalized'
    BY <1>1, <2>1
  <2>3. IBook'
    BY <1>3, <2>1, <2>2
  <2>4. ChainStep
    BY <1>1, <2>1 DEF ChainStep
  <2> QED
    BY <2>1, <2>3, <2>4
<1>5. CASE \E t \in EventTokens : Register(t)
  <2>1. UNCHANGED chainVars /\ UNCHANGED dbVars /\ UNCHANGED run
    BY <1>5 DEF Register
  <2>2. IBook'
    BY <1>1, <1>3, <2>1 DEF chainVars
  <2> QED
    BY <2>1, <2>2
<1>6. ASSUME NEW r \in Runs, Start(r) \/ ReadFinalized(r) \/ ReadLogs(r) \/ Fail(r)
      PROVE  IBook' /\ UNCHANGED dbVars /\ UNCHANGED chainVars
  <2>1. UNCHANGED chainVars /\ UNCHANGED dbVars
    BY <1>6 DEF Start, ReadFinalized, ReadLogs, Fail
  <2>2. PICK p : /\ run' = [run EXCEPT ![r] = p]
                 /\ p.at = "fetched" => p.tokens = tracked
    BY <1>6 DEF Start, ReadFinalized, ReadLogs, Fail, Step, Ranged, Idle
  <2>3. \A q \in Runs : run'[q].at = "fetched" =>
          \/ run'[q] = run[q]
          \/ run'[q].tokens = tracked
    BY <2>2 DEF IRunType
  <2>4. IBook'
    BY <1>1, <1>3, <2>1, <2>3 DEF chainVars
  <2> QED
    BY <2>1, <2>4
<1>7. CASE \E r \in Runs : Commit(r)
  <2>1. PICK r \in Runs : Commit(r)
    BY <1>7
  <2>2. IIndex'
    BY <2>1, CommitKeepsIndex
  <2>3. UNCHANGED chainVars
    BY <2>1 DEF Commit
  <2>4. IOwners'
    BY <2>3, OwnersStay DEF IBook, chainVars
  <2> QED
    BY <1>7, <2>2, <2>4 DEF IBook
<1>8. CASE UNCHANGED vars
  <2>1. UNCHANGED chainVars /\ UNCHANGED dbVars /\ UNCHANGED run
    BY <1>8 DEF vars, chainVars, dbVars
  <2>2. IBook'
    BY <1>1, <1>3, <2>1 DEF chainVars
  <2> QED
    BY <2>1, <2>2
<1> QED
  BY <1>2, <1>4, <1>5, <1>6, <1>7, <1>8 DEF Next

THEOREM BookInvariance == Spec => [](IInv /\ IRunType /\ IBook)
<1>1. Init => IInv /\ IRunType /\ IBook
  BY Initially, BookInitially
<1>2. IInv /\ IRunType /\ IBook /\ [Next]_vars => (IInv /\ IRunType /\ IBook)'
  BY NextKeeps, NextKeepsBook
<1> QED
  BY <1>1, <1>2, PTL DEF Spec

THEOREM NoBatchRefused == Spec => []NeverRefused
BY NotRefused, BookInvariance, PTL
------------------------------------------------------------------------------
(* The index implements the feed.                                            *)

\* The balances are those of the event badges after one finalized block.
Published ==
  /\ Covered \in next - 1 .. finalized /\ Covered \in Nat
  /\ journal = EventRows(Covered)
  /\ \A x \in journal : x.block <= Covered
  /\ Covered = next - 1 \/ \E x \in journal : Covered = x.block
  /\ balances = Feed!At(Covered)

LEMMA BookIsPublished == IInv /\ IBook => Published
BY CoveredIs, BalancesAre DEF Published

\* A batch publishes a later block's owners, or nothing new.
LEMMA CommitPublishes ==
  ASSUME IInv, IRunType, Published, Published', NEW r \in Runs, Commit(r)
  PROVE  Feed!Publish \/ UNCHANGED Feed!vars
<1>1. UNCHANGED <<chain, owners, finalized>> /\ journal \subseteq journal'
  BY DEF Commit, chainVars
<1>2. next' >= next /\ next \in Nat /\ next' \in Nat /\ finalized \in Nat
  <2>1. PICK p : p = run[r]
    OBVIOUS
  <2>2. /\ p.to \in Nat /\ next \in Nat /\ finalized \in Nat
        /\ next' = p.to + 1 \/ next' = next
    BY <2>1, CommitCursor
  <2>3. next' \in Nat
    BY <2>2
  <2> QED
    BY <2>2, <2>3, CommitMovesForward
<1>3. PICK a : a = Covered
  OBVIOUS
<1>4. PICK b : b = Covered'
  OBVIOUS
<1>5. /\ a \in Nat /\ journal = EventRows(a) /\ balances = Feed!At(a)
      /\ a = next - 1 \/ \E x \in journal : a = x.block
  BY <1>3 DEF Published
<1>6. /\ b \in next' - 1 .. finalized' /\ b \in Nat
      /\ \A x \in journal' : x.block <= b
  BY <1>4 DEF Published
<1>7. journal' = EventRows(b)
  BY <1>1, <1>4 DEF Published, EventRows, OfEvents, LogsOf
<1>8. balances' = Feed!At(b)
  BY <1>1, <1>4 DEF Published, Feed!At
<1>9. a <= b
  <2>1. PICK m \in Nat : m = next'
    BY <1>2
  <2>2. CASE a = next - 1
    <3>1. next <= m /\ b \in m - 1 .. finalized
      BY <1>1, <1>2, <1>6, <2>1
    <3> QED
      BY <1>2, <1>6, <2>2, <3>1
  <2>3. CASE \E x \in journal : a = x.block
    BY <1>1, <1>6, <2>3
  <2> QED
    BY <1>5, <2>2, <2>3
<1>10. CASE a = b
  <2>1. balances' = balances /\ Covered' = Covered
    BY <1>3, <1>4, <1>5, <1>8, <1>10
  <2> QED
    BY <1>1, <2>1 DEF Feed!vars
<1>11. CASE a # b
  <2>1. b <= finalized
    BY <1>1, <1>2, <1>6
  <2>2. b \in a + 1 .. finalized
    BY <1>2, <1>5, <1>6, <1>9, <1>11, <2>1
  <2>3. Covered' \in Covered + 1 .. finalized
    BY <1>3, <1>4, <2>2
  <2>4. balances' = Feed!At(Covered')
    BY <1>4, <1>8
  <2> QED
    BY <1>1, <2>3, <2>4 DEF Feed!Publish
<1> QED
  BY <1>10, <1>11

LEMMA ChainIsFed ==
  ASSUME IInv, IBook, UNCHANGED dbVars, ChainStep, IBook'
  PROVE  Feed!Chain
<1>1. Covered' = Covered /\ balances' = balances
  BY DEF dbVars, Covered
<1>2. /\ owners \in Seq([Wallets -> [Tokens -> Int]]) /\ Len(owners) \in Nat
      /\ owners' \in Seq([Wallets -> [Tokens -> Int]])
  BY LenProperties DEF IBook, IOwners
<1>3. CASE /\ Len(owners') = Len(owners) + 1
           /\ \A b \in 1..Len(owners) : owners'[b] = owners[b]
           /\ finalized' = finalized
  <2>1. SubSeq(owners', 1, Len(owners)) = owners
    <3> DEFINE s == SubSeq(owners', 1, Len(owners))
    <3>1. \A i \in 1..Len(owners) : owners'[i] \in [Wallets -> [Tokens -> Int]]
      BY <1>2, <1>3, ElementOfSeq
    <3>2. /\ s \in Seq([Wallets -> [Tokens -> Int]]) /\ Len(s) = Len(owners)
          /\ \A i \in 1..Len(owners) : s[i] = owners'[i]
      <4>1. /\ s \in Seq([Wallets -> [Tokens -> Int]])
            /\ Len(s) = IF 1 <= Len(owners) THEN Len(owners) - 1 + 1 ELSE 0
            /\ \A i \in 1 .. Len(owners) - 1 + 1 : s[i] = owners'[1 + i - 1]
        BY <1>2, <3>1, SubSeqProperties
      <4> HIDE DEF s
      <4> QED
        BY <1>2, <4>1
    <3> HIDE DEF s
    <3>3. \A i \in 1..Len(s) : s[i] = owners[i]
      BY <1>3, <3>2
    <3>4. s = owners
      BY <1>2, <3>2, <3>3, SeqEqual
    <3> QED
      BY <3>4 DEF s
  <2> QED
    BY <1>1, <1>3, <2>1 DEF Feed!Chain
<1>4. CASE owners' = owners /\ finalized' \in finalized + 1 .. Len(owners)
  BY <1>1, <1>4 DEF Feed!Chain
<1> QED
  BY <1>3, <1>4 DEF ChainStep

\* The index implements the feed: readers see the contract's owners at one
\* finalized block, and never an older one than before.
THEOREM IndexImplementsFeed == Spec => PublishesOwners
<1>1. Init => Feed!Init
  <2> SUFFICES ASSUME Init PROVE Feed!Init
    OBVIOUS
  <2>1. owners = << >> /\ finalized = 0 /\ balances = NoBadges /\ next = 1 /\ journal = {}
    BY DEF Init
  <2>2. Covered = 0
    <3>1. {next - 1} \cup {x.block : x \in journal} = {0}
      BY <2>1
    <3>2. {0} \in SUBSET Nat /\ IsFiniteSet({0}) /\ {0} # {}
      BY FS_Singleton
    <3>3. Max({0}) \in {0}
      BY <3>2, MaxOf
    <3> QED
      BY <3>1, <3>3 DEF Covered
  <2>3. Feed!At(0) = NoBadges
    BY DEF Feed!At, NoBadges
  <2> QED
    BY <2>1, <2>2, <2>3 DEF Feed!Init
<1>2. /\ IInv /\ IRunType /\ IBook /\ Published /\ IBook' /\ Published' /\ [Next]_vars
      => [Feed!Next]_Feed!vars
  <2> SUFFICES ASSUME IInv, IRunType, IBook, Published, IBook', Published', [Next]_vars
               PROVE  [Feed!Next]_Feed!vars
    OBVIOUS
  <2>1. CASE \E r \in Runs : Commit(r)
    BY <2>1, CommitPublishes DEF Feed!Next
  <2>2. CASE UNCHANGED dbVars /\ ChainStep
    BY <2>2, ChainIsFed DEF Feed!Next
  <2>3. CASE UNCHANGED dbVars /\ UNCHANGED chainVars
    <3>1. Covered' = Covered
      BY <2>3 DEF dbVars, Covered
    <3> QED
      BY <2>3, <3>1 DEF dbVars, chainVars, Feed!vars
  <2> QED
    BY <2>1, <2>2, <2>3, NextKeepsBook
<1>3. Spec => [](IInv /\ IRunType /\ IBook /\ Published)
  BY BookInvariance, BookIsPublished, PTL
<1> QED
  BY <1>1, <1>2, <1>3, PTL DEF Spec, Feed!Spec, PublishesOwners
------------------------------------------------------------------------------
(* No balance is negative.                                                   *)

\* Some transfer is the last of a few.
LEMMA LastTransfer ==
  ASSUME NEW S \in SUBSET Transfers, IsFiniteSet(S), S # {}
  PROVE  \E x \in S : \A y \in S : y.block < x.block \/ (y.block = x.block /\ y.sub <= x.sub)
<1>1. \A x \in S : x.block \in Nat /\ x.sub \in Nat
  BY DEF Transfers
<1>2. PICK g \in S : \A y \in S : y.block <= g.block
  <2> DEFINE f == [x \in S |-> x.block]
             T == {f[x] : x \in S}
  <2>1. f \in Surjection(S, T)
    BY DEF Surjection
  <2>2. T \in SUBSET Nat /\ T # {}
    BY <1>1
  <2>3. IsFiniteSet(T)
    <3> HIDE DEF f, T
    <3> QED
      BY <2>1, FS_Surjection
  <2>4. PICK k \in T : \A j \in T : j <= k
    <3> HIDE DEF f, T
    <3> QED
      BY <2>2, <2>3, GreatestOf
  <2> QED
    BY <2>4
<1>3. PICK U : U = {y \in S : y.block = g.block}
  OBVIOUS
<1>4. IsFiniteSet(U) /\ g \in U /\ U \subseteq S
  BY <1>3, FS_Subset
<1>5. PICK x \in U : \A y \in U : y.sub <= x.sub
  <2> DEFINE f == [x \in U |-> x.sub]
             T == {f[x] : x \in U}
  <2>1. f \in Surjection(U, T)
    BY DEF Surjection
  <2>2. T \in SUBSET Nat /\ T # {}
    BY <1>1, <1>4
  <2>3. IsFiniteSet(T)
    <3> HIDE DEF f, T
    <3> QED
      BY <1>4, <2>1, FS_Surjection
  <2>4. PICK k \in T : \A j \in T : j <= k
    <3> HIDE DEF f, T
    <3> QED
      BY <2>2, <2>3, GreatestOf
  <2> QED
    BY <2>4
<1>6. x \in S /\ x.block = g.block
  BY <1>3
<1>7. \A y \in S : y.block < x.block \/ (y.block = x.block /\ y.sub <= x.sub)
  <2> SUFFICES ASSUME NEW y \in S
               PROVE  y.block < x.block \/ (y.block = x.block /\ y.sub <= x.sub)
    OBVIOUS
  <2>1. CASE y.block = g.block
    BY <1>3, <1>5, <1>6, <2>1
  <2>2. CASE y.block # g.block
    <3>1. y.block <= g.block /\ y.block \in Nat /\ g.block \in Nat
      BY <1>1, <1>2
    <3>2. y.block < g.block
      BY <2>2, <3>1
    <3> QED
      BY <1>6, <3>2
  <2> QED
    BY <2>1, <2>2
<1> QED
  BY <1>6, <1>7

\* Whoever gives badges last has them: no balance is negative.
LEMMA NetIsNat ==
  ASSUME NEW R \in SUBSET Transfers, IsFiniteSet(R),
         \A x, y \in R : Key(x) = Key(y) => x = y,
         \A x \in R : ~Overdraws(Net(Before(x, R)), x),
         NEW w \in Wallets, NEW t \in Tokens
  PROVE  Net(R)[w][t] \in Nat
<1> DEFINE S == {x \in R : x.from = w /\ x.token = t}
<1>1. ASSUME NEW Q, IsFiniteSet(Q)
      PROVE  Got(Q, w, t) \in Nat /\ Given(Q, w, t) \in Nat
             /\ Net(Q)[w][t] = Got(Q, w, t) - Given(Q, w, t)
  <2>1. IsFiniteSet({}) /\ Q \cap {} = {}
    BY FS_EmptySet
  <2>2. Got(Q, w, t) \in Nat
    BY <1>1, <2>1, GotAdds
  <2>3. Given(Q, w, t) \in Nat
    BY <1>1, <2>1, GivenAdds
  <2> QED
    BY <2>2, <2>3 DEF Net
<1>2. CASE S = {}
  <2>1. BadgesOf({}) = {} /\ Cardinality({}) = 0
    BY FS_EmptySet DEF BadgesOf
  <2>2. Given(R, w, t) = 0
    BY <1>2, <2>1 DEF Given
  <2> QED
    BY <1>1, <2>2
<1>3. CASE S # {}
  <2>1. S \in SUBSET Transfers /\ IsFiniteSet(S)
    <3>1. S \in SUBSET R
      OBVIOUS
    <3> HIDE DEF S
    <3> QED
      BY <3>1, FS_Subset
  <2>2. PICK x \in S : \A y \in S : y.block < x.block \/ (y.block = x.block /\ y.sub <= x.sub)
    <3> HIDE DEF S
    <3> QED
      BY <1>3, <2>1, LastTransfer
  <2>3. x \in R /\ x.from = w /\ x.token = t /\ x \in Transfers
    OBVIOUS
  <2>4. x.n \in Nat /\ x.n \in 0..MaxAmount /\ x.block \in Nat /\ x.sub \in Nat
        /\ \A y \in R : y.block \in Nat /\ y.sub \in Nat
    BY <2>3, IndexerAssumption DEF Transfers
  <2>5. PICK B : B = Before(x, R)
    OBVIOUS
  <2>6. PICK C : C = R \ B
    OBVIOUS
  <2>7. R = B \cup C /\ B \cap C = {} /\ IsFiniteSet(B) /\ IsFiniteSet(C)
    <3>1. B \in SUBSET R /\ C \in SUBSET R
      BY <2>5, <2>6 DEF Before
    <3> QED
      BY <2>6, <3>1, FS_Subset
  <2>8. {y \in C : y.from = w /\ y.token = t} = {x}
    <3>1. x \in C
      BY <2>3, <2>4, <2>5, <2>6 DEF Before
    <3>2. ASSUME NEW y \in C, y.from = w, y.token = t PROVE y = x
      <4>1. y \in S /\ y \in R /\ ~(y.block < x.block \/ (y.block = x.block /\ y.sub < x.sub))
        BY <2>5, <2>6, <3>2 DEF Before
      <4>2. y.block = x.block /\ y.sub = x.sub
        BY <2>2, <2>4, <4>1
      <4> QED
        BY <2>3, <4>1, <4>2 DEF Key
    <3> QED
      BY <2>3, <3>1, <3>2
  <2>9. Given(C, w, t) = x.n
    <3>1. PICK k \in Nat : k = x.n /\ k <= MaxAmount /\ MaxAmount \in Nat
      BY <2>4, IndexerAssumption
    <3>2. BadgesOf({x}) = {x} \X (1..k)
      <4>1. ASSUME NEW u PROVE u \in BadgesOf({x}) <=> u \in {x} \X (1..k)
        <5>1. u \in BadgesOf({x}) => u \in {x} \X (1..k)
          BY <3>1 DEF BadgesOf
        <5>2. ASSUME u \in {x} \X (1..k) PROVE u \in BadgesOf({x})
          <6>1. PICK i \in 1..k : u = <<x, i>>
            BY <5>2
          <6>2. i \in 1..MaxAmount /\ i <= x.n
            BY <3>1
          <6> QED
            BY <6>1, <6>2 DEF BadgesOf
        <5> QED
          BY <5>1, <5>2
      <4> QED
        BY <4>1
    <3>3. IsFiniteSet(1..k) /\ Cardinality(1..k) = k
      <4>0. 1 \in Int /\ k \in Int
        BY <3>1
      <4>1. IsFiniteSet(1..k) /\ Cardinality(1..k) = IF 1 > k THEN 0 ELSE k - 1 + 1
        BY <4>0, FS_Interval
      <4> QED
        BY <3>1, <4>1
    <3>4. IsFiniteSet({x}) /\ Cardinality({x}) = 1
      BY FS_Singleton
    <3>5. Cardinality({x} \X (1..k)) = Cardinality({x}) * Cardinality(1..k)
      BY <3>3, <3>4, FS_Product
    <3>6. Cardinality(BadgesOf({x})) = k
      <4>1. Cardinality({x} \X (1..k)) = 1 * k
        BY <3>3, <3>4, <3>5
      <4>2. Cardinality({x} \X (1..k)) = k
        BY <3>1, <4>1
      <4> QED
        BY <3>2, <4>2
    <3> QED
      BY <2>8, <3>1, <3>6 DEF Given
  <2>10. Net(B)[w][t] >= x.n
    <3>1. w # Zero
      BY IndexerAssumption
    <3>2. Net(B)[w][t] \in Int
      BY <1>1, <2>7
    <3> QED
      BY <2>3, <2>4, <2>5, <3>1, <3>2 DEF Overdraws
  <2>11. /\ Got(R, w, t) = Got(B, w, t) + Got(C, w, t)
         /\ Given(R, w, t) = Given(B, w, t) + Given(C, w, t)
    <3>1. Got(B \cup C, w, t) = Got(B, w, t) + Got(C, w, t)
      BY <2>7, GotAdds
    <3>2. Given(B \cup C, w, t) = Given(B, w, t) + Given(C, w, t)
      BY <2>7, GivenAdds
    <3> QED
      BY <2>7, <3>1, <3>2
  <2>12. /\ Net(R)[w][t] = Got(R, w, t) - Given(R, w, t)
         /\ Net(B)[w][t] = Got(B, w, t) - Given(B, w, t)
         /\ Got(B, w, t) \in Nat /\ Given(B, w, t) \in Nat
         /\ Got(C, w, t) \in Nat
    BY <1>1, <2>7
  <2> QED
    BY <2>4, <2>9, <2>10, <2>11, <2>12
<1> QED
  BY <1>2, <1>3

LEMMA TypesHold ==
  ASSUME IInv, IRunType, IBook, Published
  PROVE  TypeOK
<1>1. /\ Len(chain) \in Nat /\ finalized \in Nat /\ finalized <= Len(chain)
      /\ Len(owners) = Len(chain)
  BY LenProperties DEF IInv, IChain, IBook, IOwners
<1>2. ASSUME NEW b \in 1..Len(chain) PROVE owners[b] \in Balances
  <2>1. PICK G : G = LogsOf(1, Len(chain))
    OBVIOUS
  <2>2. PICK R : R = LogsOf(1, b)
    OBVIOUS
  <2>3. b \in Nat /\ b <= Len(chain)
    BY <1>1
  <2>4. \A x \in R : x \in Transfers /\ x.block <= b /\ x \in G
    <3> SUFFICES ASSUME NEW x \in R PROVE x \in Transfers /\ x.block <= b /\ x \in G
      OBVIOUS
    <3>1. /\ x \in Transfers /\ x.block \in 1..b
          /\ \A g \in Nat, u \in Nat : g <= x.block /\ x.block <= u => x \in LogsOf(g, u)
      BY <2>2, <2>3, PlaceOf DEF IInv
    <3> QED
      BY <1>1, <2>1, <2>3, <3>1
  <2>5. \A x \in G : x \in Transfers /\ (x.block <= b => x \in R)
    <3> SUFFICES ASSUME NEW x \in G PROVE x \in Transfers /\ (x.block <= b => x \in R)
      OBVIOUS
    <3>1. /\ x \in Transfers /\ x.block \in 1..Len(chain)
          /\ \A g \in Nat, u \in Nat : g <= x.block /\ x.block <= u => x \in LogsOf(g, u)
      BY <1>1, <2>1, PlaceOf DEF IInv
    <3> QED
      BY <2>2, <2>3, <3>1
  <2>6. \A x \in R : Before(x, R) = Before(x, G)
    <3> SUFFICES ASSUME NEW x \in R, NEW y PROVE y \in Before(x, R) <=> y \in Before(x, G)
      OBVIOUS
    <3>1. \A z \in G : z.block \in Nat
      BY <2>5 DEF Transfers
    <3>2. x.block \in Nat /\ x.block <= b
      BY <2>4 DEF Transfers
    <3> QED
      BY <2>3, <2>4, <2>5, <3>1, <3>2 DEF Before
  <2>7. \A x \in R : ~Overdraws(Net(Before(x, R)), x)
    BY <2>1, <2>4, <2>6 DEF IBook, IOwners
  <2>8. IsFiniteSet(R) /\ R \in SUBSET Transfers
    BY <2>1, <2>4, FS_Subset DEF IBook, IOwners
  <2>9. \A x, y \in R : Key(x) = Key(y) => x = y
    BY <2>3, <2>2, OneKeyEach DEF IInv
  <2>10. ASSUME NEW w \in Wallets, NEW t \in Tokens PROVE Net(R)[w][t] \in Nat
    BY <2>7, <2>8, <2>9, NetIsNat
  <2>11. Net(R) = [w \in Wallets |-> [t \in Tokens |-> Net(R)[w][t]]]
    BY DEF Net
  <2>12. owners[b] = Net(R)
    BY <2>2 DEF IBook, IOwners
  <2> QED
    BY <2>10, <2>11, <2>12 DEF Balances
<1>3. owners \in Seq(Balances)
  <2>1. owners = [i \in 1..Len(owners) |-> owners[i]]
    BY LenProperties DEF IBook, IOwners
  <2>2. owners \in [1..Len(owners) -> Balances]
    BY <1>1, <1>2, <2>1
  <2> QED
    BY <1>1, <2>2, SeqDef
<1>4. balances \in Balances
  <2>1. Covered \in Nat /\ Covered <= Len(chain) /\ balances = Feed!At(Covered)
    BY <1>1 DEF Published
  <2>2. Covered # 0 => owners[Covered] \in Balances
    BY <1>1, <1>2, <2>1
  <2> QED
    BY <2>1, <2>2 DEF Feed!At, Balances
<1>5. journal \subseteq Transfers
  <2>1. Covered \in Nat /\ Covered <= Len(chain) /\ journal = EventRows(Covered)
    BY <1>1 DEF Published
  <2> QED
    BY <2>1, EventsGrow DEF IInv
<1> QED
  BY <1>1, <1>3, <1>4, <1>5 DEF TypeOK, IInv, IChain, ICursor, IRunType

\* No balance the contract or the index keeps is ever negative, and the cursor
\* stays within one block of the finalized ones.
THEOREM TypeCorrect == Spec => []TypeOK
BY TypesHold, BookIsPublished, BookInvariance, PTL
------------------------------------------------------------------------------
(* The pages.                                                                *)

LEMMA HoldingsIndex == HSpec => Spec
<1>1. HInit => Init
  BY DEF HInit
<1>2. [HNext]_hvars => [Next]_vars
  <2> SUFFICES ASSUME [HNext]_hvars PROVE [Next]_vars
    OBVIOUS
  <2>1. CASE Indexing
    BY <2>1 DEF Indexing, Next
  <2>2. CASE \E w \in Wallets : Mined(w)
    <3>1. Badge \in Tokens
      BY BadgeAssumption, IndexerAssumption
    <3> QED
      BY <2>2, <3>1 DEF Mined, Next
  <2>3. CASE \/ \E w \in Wallets : Submitted(w) \/ Confirmed(w)
             \/ \E w \in Wallets, b \in 1..Len(chain) : Reported(w, b)
             \/ UNCHANGED hvars
    BY <2>3 DEF Submitted, Confirmed, Reported, hvars
  <2> QED
    BY <2>1, <2>2, <2>3 DEF HNext
<1> QED
  BY <1>1, <1>2, PTL DEF HSpec, Spec

LEMMA ShownAreOwners ==
  ASSUME IInv, Published
  PROVE  IndexShowsFinalizedOwners
<1> SUFFICES ASSUME UpToDate
             PROVE  \E b \in seen..finalized :
               {w \in Wallets : IndexShown(w)} = {w \in Wallets : owners[b][w][Badge] > 0}
  BY DEF IndexShowsFinalizedOwners
<1>1. seen \in Nat /\ seen # 0 /\ next > seen /\ next \in Nat /\ finalized \in Nat
  BY LenProperties DEF UpToDate, IInv, IChain, ICursor
<1>2. Covered \in next - 1 .. finalized /\ Covered \in Nat /\ balances = Feed!At(Covered)
  BY DEF Published
<1>3. Covered \in seen..finalized /\ Covered # 0
  BY <1>1, <1>2
<1>4. Badge \in EventTokens /\ Badge \in Tokens
  BY BadgeAssumption, IndexerAssumption
<1>5. \A w \in Wallets : balances[w][Badge] = owners[Covered][w][Badge]
  BY <1>2, <1>3, <1>4 DEF Feed!At
<1>6. {w \in Wallets : IndexShown(w)} = {w \in Wallets : owners[Covered][w][Badge] > 0}
  BY <1>5 DEF IndexShown
<1> QED
  BY <1>3, <1>6

\* No batch is refused, and the page of an event whose index is up to date shows
\* exactly the owners at one finalized block.
THEOREM PagesShowOwners == HSpec => []IndexIsRight
<1>1. IInv /\ IRunType /\ IBook => IndexIsRight
  BY NotRefused, BookIsPublished, ShownAreOwners DEF IndexIsRight
<1> QED
  BY <1>1, HoldingsIndex, BookInvariance, PTL
==============================================================================
