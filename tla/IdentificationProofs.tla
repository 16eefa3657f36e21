------------------------ MODULE IdentificationProofs ------------------------
(***************************************************************************)
(* Proofs about the frequency-response estimator, for a table of any size  *)
(* and any block sizes, counts and settling times, and about the           *)
(* excitation generators that feed it, for every configuration their       *)
(* designs accept.                                                         *)
(***************************************************************************)
EXTENDS FrequencyResponse, Excitation, CommonLemmas, TLAPS

(* Part 1: the frequency-response estimator.                               *)

-----------------------------------------------------------------------------
(* The correlator.                                                         *)

\* The samples of the block under way: a full block counts as none, since the
\* next sample starts another.
Rest(c) == IF c.count = c.block THEN 0 ELSE c.count

\* A correlator that sums exactly the samples it counts.
Honest(c) == c \in Correlators /\ c.count <= c.block /\ c.terms = c.count

LEMMA NewCorrelator ==
    ASSUME NEW size \in Nat
    PROVE  /\ Honest(Correlator(size))
           /\ Correlator(size).block = size
           /\ Rest(Correlator(size)) = 0
  BY DEF Correlator, Correlators, Honest, Rest

\* One sample more.
LEMMA CorrelatedSample ==
    ASSUME NEW c, Honest(c), c.block > 0
    PROVE  /\ Honest(Correlated(c))
           /\ Correlated(c).block = c.block
           /\ Rest(c) \in Nat /\ Rest(c) < c.block
           /\ Completes(c) => /\ Rest(c) + 1 = c.block
                              /\ Rest(Correlated(c)) = 0
                              /\ Correlated(c).terms = c.block
           /\ ~Completes(c) => Rest(Correlated(c)) = Rest(c) + 1
<1>1. c \in Correlators /\ c.count <= c.block /\ c.terms = c.count
  BY DEF Honest
<1>2. /\ c.block \in Nat /\ c.count \in Nat /\ c.terms \in Nat
  BY <1>1 DEF Correlators
<1>3. CASE c.count = c.block
  <2>1. /\ Correlated(c) \in Correlators
        /\ Correlated(c).block = c.block
        /\ Correlated(c).count = 1 /\ Correlated(c).terms = 1
    BY <1>2, <1>3 DEF Correlated, Correlators
  <2> QED
    BY <1>2, <1>3, <2>1 DEF Honest, Rest, Completes
<1>4. CASE c.count # c.block
  <2>1. /\ Correlated(c) \in Correlators
        /\ Correlated(c).block = c.block
        /\ Correlated(c).count = c.count + 1 /\ Correlated(c).terms = c.terms + 1
    BY <1>2, <1>4 DEF Correlated, Correlators
  <2> QED
    BY <1>1, <1>2, <1>4, <2>1 DEF Honest, Rest, Completes
<1> QED
  BY <1>3, <1>4

LEMMA BlockType ==
    ASSUME NEW c, Honest(c), c.block > 0, NEW i \in Bins, NEW last \in Nat,
           NEW live \in BOOLEAN
    PROVE  /\ Block(c, i, last, live) \in Blocks
           /\ Block(c, i, last, live).bin = i
           /\ Block(c, i, last, live).last = last
           /\ Completes(c) => Block(c, i, last, live).size = c.block
<1>1. Correlated(c).terms \in Nat
  BY CorrelatedSample DEF Honest, Correlators
<1> QED
  BY <1>1, CorrelatedSample DEF Block, Blocks

\* A valid point is the blocks it was given.
LEMMA PointType ==
    ASSUME NEW s \in Seq(Blocks), NEW done \in Nat
    PROVE  /\ Point(s, done) \in Points
           /\ Point(s, done).valid => Point(s, done).average = s
           /\ Point(s, done).coherence => done >= 2
           /\ EmptyPoint \in Points /\ ~EmptyPoint.valid /\ ~EmptyPoint.coherence
<1>1. <<>> \in Seq(Blocks)
  OBVIOUS
<1>2. EmptyPoint \in Points /\ ~EmptyPoint.valid /\ ~EmptyPoint.coherence
  BY <1>1 DEF EmptyPoint, Points
<1> DEFINE p == [valid |-> TRUE, coherence |-> done >= 2, average |-> s]
<1>3. (done >= 2) \in BOOLEAN
  OBVIOUS
<1>4. p \in Points /\ p.average = s /\ (p.coherence => done >= 2)
  BY <1>3 DEF Points
<1>5. Point(s, done) = p \/ Point(s, done) = EmptyPoint
  BY DEF Point
<1> QED
  BY <1>2, <1>4, <1>5

-----------------------------------------------------------------------------
(* The invariant, whatever the order of calls.                             *)

ScalarsOK ==
    /\ fs \in BOOLEAN /\ sequential_active \in BOOLEAN
    /\ active_index \in Bins
    /\ blocks_target \in Nat /\ blocks_done \in Nat
    /\ settle_left \in Nat /\ pushed \in Nat

PointsOK ==
    /\ table \in [Bins -> Points]
    /\ owner \in [Bins -> Paths]
    /\ asked \in [Bins -> Requests]

BankOK ==
    /\ bank \in [Bins -> Correlators]
    /\ bank_active \in [Bins -> BOOLEAN]
    /\ \A i \in Bins : Honest(bank[i]) /\ (bank_active[i] => bank[i].block > 0)

\* How far an active measurement is: each sample pushed went into the settling
\* time, a block done or the block under way.
Progress ==
    sequential_active =>
        LET a == asked[active_index] IN
        /\ lock.block = a.size /\ a.size > 0
        /\ blocks_target = a.blocks /\ blocks_done < a.blocks
        /\ settle_left > 0 => blocks_done = 0 /\ Rest(lock) = 0
        /\ pushed + settle_left = a.settle + blocks_done * a.size + Rest(lock)

IInv ==
    /\ ScalarsOK /\ PointsOK /\ BankOK
    /\ sums \in Seq(Blocks)
    /\ Honest(lock)
    /\ Progress
    /\ BankPointIsOneBlock

LEMMA Types == IInv => TypeOK
  BY DEF IInv, TypeOK, ScalarsOK, PointsOK, BankOK, Honest

LEMMA FirstBin == 0 \in Bins
  BY FrfAssumption DEF Bins

LEMMA InitInv == Init => IInv
<1> SUFFICES ASSUME Init PROVE IInv
  OBVIOUS
<1>1. ScalarsOK
  BY FirstBin DEF Init, ScalarsOK
<1>2. EmptyPoint \in Points /\ NoneAsked \in Requests /\ sums \in Seq(Blocks)
  <2>1. <<>> \in Seq(Blocks)
    OBVIOUS
  <2> QED
    BY <2>1, PointType DEF Init, NoneAsked, Requests
<1>3. PointsOK
  BY <1>2 DEF Init, PointsOK, Paths
<1>4. BankOK /\ Honest(lock)
  BY NewCorrelator DEF Init, BankOK, Honest
<1>5. Progress
  BY DEF Init, Progress
<1>6. BankPointIsOneBlock
  BY DEF Init, BankPointIsOneBlock
<1> QED
  BY <1>1, <1>2, <1>3, <1>4, <1>5, <1>6 DEF IInv

\* A sample pushed after the settling samples: the measurement it belongs to, how
\* far that one is, and that it still asks for this sample.
LEMMA SampleFacts ==
    ASSUME IInv, sequential_active, settle_left = 0
    PROVE  LET a == asked[active_index] IN
           /\ active_index \in Bins
           /\ a.size \in Nat \ {0} /\ a.blocks \in Nat /\ a.settle \in Nat
           /\ blocks_target = a.blocks /\ blocks_done < a.blocks
           /\ Honest(lock) /\ lock.block > 0 /\ lock.block = a.size
           /\ pushed = a.settle + blocks_done * a.size + Rest(lock)
<1> DEFINE a == asked[active_index]
<1>1. active_index \in Bins /\ a \in Requests /\ pushed \in Nat
  BY DEF IInv, ScalarsOK, PointsOK
<1>2. a.size \in Nat /\ a.blocks \in Nat /\ a.settle \in Nat
  BY <1>1 DEF Requests
<1>3. /\ a.size > 0 /\ blocks_target = a.blocks /\ blocks_done < a.blocks
      /\ lock.block = a.size
      /\ pushed + settle_left = a.settle + blocks_done * a.size + Rest(lock)
      /\ Honest(lock)
  BY DEF IInv, Progress
<1>4. pushed + settle_left = pushed
  BY <1>1
<1> QED
  BY <1>1, <1>2, <1>3, <1>4

\* One block more is one block size more.
LEMMA NextBlock ==
    ASSUME NEW n \in Nat, NEW k \in Nat
    PROVE  (n + 1) * k = n * k + k /\ n * k \in Nat
  OBVIOUS

LEMMA FewerBlocks ==
    ASSUME NEW m \in Nat, NEW n \in Nat, NEW k \in Nat, m <= n
    PROVE  m * k <= n * k
  OBVIOUS

LEMMA BeginBinInv ==
    ASSUME IInv, NEW i \in Indices, NEW freq_ok \in BOOLEAN, NEW size \in BlockSizes,
           NEW blocks \in Counts, NEW settle \in Settles,
           BeginBin(i, freq_ok, size, blocks, settle)
    PROVE  IInv'
<1> DEFINE req == [size |-> size, blocks |-> blocks, settle |-> settle]
<1>1. ScalarsOK /\ PointsOK /\ BankOK /\ BankPointIsOneBlock
  BY DEF IInv
<1>2. /\ i \in Bins /\ size > 0 /\ blocks > 0
      /\ size \in Nat /\ blocks \in Nat /\ settle \in Nat
  BY FrfAssumption DEF BeginBin, BinOk
<1>3. req \in Requests /\ req.size = size /\ req.blocks = blocks /\ req.settle = settle
  BY <1>2 DEF Requests
<1>4. ScalarsOK'
  BY <1>1, <1>2 DEF BeginBin, ScalarsOK
<1>5. PointsOK'
  <2>1. table' = [table EXCEPT ![i] = EmptyPoint] /\ EmptyPoint \in Points
    BY PointType DEF BeginBin, EmptyPoint, Points
  <2>2. owner' = [owner EXCEPT ![i] = "none"] /\ asked' = [asked EXCEPT ![i] = req]
    BY DEF BeginBin
  <2> HIDE DEF req
  <2> QED
    BY <1>1, <1>2, <1>3, <2>1, <2>2 DEF PointsOK, Paths
<1>6. BankOK'
  BY <1>1 DEF BeginBin, BankOK, Honest
<1>7. sums' \in Seq(Blocks)
  BY DEF BeginBin
<1>8. Honest(lock') /\ lock'.block = size /\ Rest(lock') = 0
  BY <1>2, NewCorrelator DEF BeginBin
<1>9. asked'[active_index'] = req
  BY <1>1, <1>2 DEF BeginBin, PointsOK
<1>10. Progress'
  <2>1. /\ blocks_target' = blocks /\ blocks_done' = 0 /\ settle_left' = settle
        /\ pushed' = 0
    BY DEF BeginBin
  <2>2. 0 * size = 0
    BY <1>2
  <2> HIDE DEF req
  <2> QED
    BY <1>2, <1>3, <1>8, <1>9, <2>1, <2>2 DEF Progress, Rest
<1>11. BankPointIsOneBlock'
  BY <1>1, <1>2 DEF BeginBin, BankPointIsOneBlock, PointsOK
<1>12. Honest(lock)'
  BY <1>8 DEF Honest
<1> QED
  BY <1>4, <1>5, <1>6, <1>7, <1>10, <1>11, <1>12 DEF IInv

LEMMA RefusedInv ==
    ASSUME IInv, NEW i, NEW freq_ok, NEW size, NEW blocks,
           BeginBinRefused(i, freq_ok, size, blocks)
    PROVE  IInv'
  BY DEF BeginBinRefused, IInv, ScalarsOK, PointsOK, BankOK, Honest, Progress,
         BankPointIsOneBlock

LEMMA SettleInv ==
    ASSUME IInv, PushSettle
    PROVE  IInv'
<1>1. ScalarsOK /\ Progress
  BY DEF IInv
<1>2. ScalarsOK'
  BY <1>1 DEF PushSettle, ScalarsOK
<1>3. Progress'
  <2>1. pushed' + settle_left' = pushed + settle_left
    BY <1>1 DEF PushSettle, ScalarsOK
  <2>2. settle_left > 0 /\ (settle_left' > 0 => settle_left > 0)
    BY DEF PushSettle
  <2> QED
    BY <1>1, <2>1, <2>2 DEF PushSettle, Progress, Rest
<1> QED
  BY <1>2, <1>3 DEF PushSettle, IInv, PointsOK, BankOK, Honest, BankPointIsOneBlock

LEMMA SampleInv ==
    ASSUME IInv, PushSample
    PROVE  IInv'
<1> DEFINE a == asked[active_index]
<1>1. ScalarsOK /\ sequential_active /\ settle_left = 0 /\ ~Completes(lock)
  BY DEF IInv, PushSample
<1>2. /\ active_index \in Bins
      /\ a.size \in Nat \ {0} /\ a.blocks \in Nat /\ a.settle \in Nat
      /\ blocks_target = a.blocks /\ blocks_done < a.blocks
      /\ Honest(lock) /\ lock.block > 0 /\ lock.block = a.size
      /\ pushed = a.settle + blocks_done * a.size + Rest(lock)
  BY <1>1, SampleFacts
<1>3. lock' = Correlated(lock) /\ pushed' = pushed + 1
  BY DEF PushSample
<1>4. /\ Honest(lock') /\ lock'.block = lock.block
      /\ Rest(lock) \in Nat /\ Rest(lock') = Rest(lock) + 1
  BY <1>1, <1>2, <1>3, CorrelatedSample
<1>5. ScalarsOK'
  BY <1>1 DEF PushSample, ScalarsOK
<1>6. pushed' + settle_left' = a.settle + blocks_done * a.size + Rest(lock')
  <2>1. blocks_done * a.size \in Nat
    BY <1>1, <1>2 DEF ScalarsOK
  <2>2. settle_left' = 0
    BY <1>1 DEF PushSample
  <2> QED
    BY <1>2, <1>3, <1>4, <2>1, <2>2
<1>7. Progress'
  BY <1>1, <1>2, <1>4, <1>6 DEF PushSample, Progress, Rest
<1>8. Honest(lock)'
  BY <1>4 DEF Honest
<1> QED
  BY <1>5, <1>7, <1>8 DEF PushSample, IInv, PointsOK, BankOK, Honest, BankPointIsOneBlock

\* The sample that completes a block of the active measurement.
LEMMA CompletingSample ==
    ASSUME IInv, sequential_active, settle_left = 0, Completes(lock),
           NEW live \in BOOLEAN
    PROVE  LET a == asked[active_index]
               b == Block(lock, active_index, pushed + 1, live)
           IN /\ Honest(Correlated(lock))
              /\ Correlated(lock).block = a.size
              /\ Rest(Correlated(lock)) = 0
              /\ pushed + 1 = a.settle + (blocks_done + 1) * a.size
              /\ b \in Blocks /\ Append(sums, b) \in Seq(Blocks)
              /\ b.bin = active_index /\ b.size = a.size /\ b.last = pushed + 1
<1> DEFINE a == asked[active_index]
           b == Block(lock, active_index, pushed + 1, live)
<1>1. ScalarsOK /\ sums \in Seq(Blocks)
  BY DEF IInv
<1>2. /\ active_index \in Bins
      /\ a.size \in Nat \ {0} /\ a.settle \in Nat
      /\ Honest(lock) /\ lock.block > 0 /\ lock.block = a.size
      /\ pushed = a.settle + blocks_done * a.size + Rest(lock)
  BY SampleFacts
<1>3. /\ Honest(Correlated(lock)) /\ Correlated(lock).block = lock.block
      /\ Rest(lock) \in Nat /\ Rest(lock) + 1 = lock.block
      /\ Rest(Correlated(lock)) = 0
  BY <1>2, CorrelatedSample
<1>4. blocks_done \in Nat /\ pushed + 1 \in Nat
  BY <1>1 DEF ScalarsOK
<1>5. pushed + 1 = a.settle + (blocks_done + 1) * a.size
  <2>1. /\ (blocks_done + 1) * a.size = blocks_done * a.size + a.size
        /\ blocks_done * a.size \in Nat
    BY <1>2, <1>4, NextBlock
  <2> QED
    BY <1>2, <1>3, <2>1
<1>6. b \in Blocks /\ b.bin = active_index /\ b.size = a.size /\ b.last = pushed + 1
  BY <1>2, <1>4, BlockType
<1>7. Append(sums, b) \in Seq(Blocks)
  BY <1>1, <1>6
<1> QED
  BY <1>2, <1>3, <1>5, <1>6, <1>7

LEMMA BlockInv ==
    ASSUME IInv, NEW live \in BOOLEAN, PushBlock(live)
    PROVE  IInv'
<1> DEFINE a == asked[active_index]
           b == Block(lock, active_index, pushed + 1, live)
<1>1. ScalarsOK /\ sequential_active /\ settle_left = 0 /\ Completes(lock)
  BY DEF IInv, PushBlock
<1>2. /\ a.size \in Nat \ {0} /\ a.blocks \in Nat /\ a.settle \in Nat
      /\ blocks_target = a.blocks
  BY <1>1, SampleFacts
<1>3. /\ Honest(Correlated(lock)) /\ Correlated(lock).block = a.size
      /\ Rest(Correlated(lock)) = 0
      /\ pushed + 1 = a.settle + (blocks_done + 1) * a.size
      /\ Append(sums, b) \in Seq(Blocks)
  BY <1>1, CompletingSample
<1>4. /\ lock' = Correlated(lock) /\ sums' = Append(sums, b)
      /\ blocks_done' = blocks_done + 1 /\ pushed' = pushed + 1
      /\ blocks_done' < blocks_target
      /\ settle_left' = 0
  BY <1>1 DEF PushBlock
<1> HIDE DEF b
<1>5. ScalarsOK'
  BY <1>1 DEF PushBlock, ScalarsOK
<1>6. pushed' + settle_left' = a.settle + blocks_done' * a.size + Rest(lock')
  <2>1. (blocks_done + 1) * a.size \in Nat
    BY <1>1, <1>2 DEF ScalarsOK
  <2> QED
    BY <1>2, <1>3, <1>4, <2>1
<1>7. Progress'
  BY <1>1, <1>2, <1>3, <1>4, <1>6 DEF PushBlock, Progress, Rest
<1>8. Honest(lock)' /\ sums' \in Seq(Blocks)
  BY <1>3, <1>4 DEF Honest
<1> QED
  BY <1>5, <1>7, <1>8 DEF PushBlock, IInv, PointsOK, BankOK, Honest, BankPointIsOneBlock

LEMMA LastInv ==
    ASSUME IInv, NEW live \in BOOLEAN, PushLast(live)
    PROVE  IInv'
<1> DEFINE b == Block(lock, active_index, pushed + 1, live)
           p == Point(sums', blocks_done')
<1>1. /\ ScalarsOK /\ PointsOK /\ BankPointIsOneBlock
      /\ sequential_active /\ settle_left = 0 /\ Completes(lock)
  BY DEF IInv, PushLast
<1>2. Honest(Correlated(lock)) /\ Append(sums, b) \in Seq(Blocks)
  BY <1>1, CompletingSample
<1>3. /\ lock' = Correlated(lock) /\ sums' = Append(sums, b)
      /\ blocks_done' = blocks_done + 1
      /\ table' = [table EXCEPT ![active_index] = p]
      /\ owner' = [owner EXCEPT ![active_index] = "sequential"]
  BY DEF PushLast
<1> HIDE DEF b
<1>4. ScalarsOK'
  <2>1. /\ sequential_active' = FALSE
        /\ fs' = fs /\ active_index' = active_index
        /\ blocks_target' = blocks_target /\ settle_left' = settle_left
    BY DEF PushLast
  <2>2. blocks_done' \in Nat /\ pushed' \in Nat
    BY <1>1 DEF PushLast, ScalarsOK
  <2> QED
    BY <1>1, <2>1, <2>2 DEF ScalarsOK
<1>5. p \in Points
  <2>1. sums' \in Seq(Blocks) /\ blocks_done' \in Nat
    BY <1>1, <1>2, <1>3 DEF ScalarsOK
  <2> QED
    BY <2>1, PointType
<1> HIDE DEF p
<1>6. PointsOK'
  <2>1. active_index \in Bins
    BY <1>1 DEF ScalarsOK
  <2> QED
    BY <1>1, <1>3, <1>5, <2>1 DEF PushLast, PointsOK, Paths
<1>7. BankPointIsOneBlock'
  BY <1>1, <1>3 DEF PushLast, BankPointIsOneBlock, PointsOK
<1>8. Progress' /\ Honest(lock)' /\ sums' \in Seq(Blocks)
  BY <1>2, <1>3 DEF PushLast, Progress, Honest
<1> QED
  BY <1>4, <1>6, <1>7, <1>8 DEF PushLast, IInv, BankOK, Honest

LEMMA ConfigureInv ==
    ASSUME IInv, NEW i \in Indices, NEW freq_ok \in BOOLEAN, NEW size \in BlockSizes,
           ConfigureBin(i, freq_ok, size)
    PROVE  IInv'
<1>1. ScalarsOK /\ PointsOK /\ BankOK /\ BankPointIsOneBlock
  BY DEF IInv
<1>2. i \in Bins /\ size > 0 /\ size \in Nat
  BY FrfAssumption DEF ConfigureBin, BinOk
<1>3. /\ Honest(Correlator(size)) /\ Correlator(size).block = size
      /\ Correlator(size) \in Correlators
  BY <1>2, NewCorrelator DEF Honest
<1>4. ScalarsOK'
  BY <1>1 DEF ConfigureBin, sequential, ScalarsOK
<1>5. PointsOK'
  <2>1. EmptyPoint \in Points
    BY PointType DEF EmptyPoint, Points
  <2> QED
    BY <1>1, <1>2, <2>1 DEF ConfigureBin, PointsOK, Paths
<1>6. BankOK'
  <2>1. /\ bank' = [bank EXCEPT ![i] = Correlator(size)]
        /\ bank_active' = [bank_active EXCEPT ![i] = TRUE]
    BY DEF ConfigureBin
  <2>2. ASSUME NEW j \in Bins
        PROVE  Honest(bank'[j]) /\ (bank_active'[j] => bank'[j].block > 0)
    <3>1. CASE j = i
      BY <1>1, <1>2, <1>3, <2>1, <3>1 DEF BankOK
    <3>2. CASE j # i
      BY <1>1, <1>2, <2>1, <3>2 DEF BankOK
    <3> QED
      BY <3>1, <3>2
  <2>3. bank' \in [Bins -> Correlators] /\ bank_active' \in [Bins -> BOOLEAN]
    BY <1>1, <1>2, <1>3, <2>1 DEF BankOK
  <2> QED
    BY <2>2, <2>3 DEF BankOK, Honest
<1>7. BankPointIsOneBlock'
  <2>1. ASSUME NEW j \in Bins, owner'[j] = "bank" PROVE j # i
    BY <1>1, <1>2, <2>1 DEF ConfigureBin, PointsOK
  <2>2. ASSUME NEW j \in Bins, j # i
        PROVE  owner'[j] = owner[j] /\ table'[j] = table[j] /\ bank'[j] = bank[j]
    BY <1>1, <1>2, <2>2 DEF ConfigureBin, PointsOK, BankOK
  <2> QED
    BY <1>1, <2>1, <2>2 DEF BankPointIsOneBlock
<1>8. Progress' /\ Honest(lock)' /\ sums' \in Seq(Blocks)
  BY DEF ConfigureBin, sequential, IInv, Progress, Honest, Rest
<1> QED
  BY <1>4, <1>5, <1>6, <1>7, <1>8 DEF IInv

\* The block a bin of the bank completes, alone in the sums.
LEMMA BankBlock ==
    ASSUME IInv, NEW live \in [Bins -> BOOLEAN], NEW i \in BankCompletes
    PROVE  LET s == SumsAfterBank(i, live) p == Point(s, 1) IN
           /\ i \in Bins
           /\ s \in Seq(Blocks) /\ p \in Points /\ ~p.coherence
           /\ p.valid => /\ Len(p.average) = 1
                         /\ p.average[1].bin = i
                         /\ p.average[1].size = bank[i].block
<1> DEFINE b == Block(bank[i], i, 0, live[i])
           s == SumsAfterBank(i, live)
<1>1. i \in Bins /\ bank_active[i] /\ Completes(bank[i])
  BY DEF BankCompletes
<1>2. Honest(bank[i]) /\ bank[i].block > 0
  BY <1>1 DEF IInv, BankOK
<1>3. b \in Blocks /\ b.bin = i /\ b.size = bank[i].block
  BY <1>1, <1>2, BlockType
<1> HIDE DEF b
<1>4. s = <<b>>
  BY DEF SumsAfterBank, b
<1>5. s \in Seq(Blocks) /\ Len(s) = 1 /\ s[1] = b
  BY <1>3, <1>4
<1> HIDE DEF s
<1>6. /\ Point(s, 1) \in Points
      /\ Point(s, 1).valid => Point(s, 1).average = s
      /\ Point(s, 1).coherence => 1 >= 2
  BY <1>5, PointType
<1> QED
  BY <1>1, <1>3, <1>5, <1>6 DEF s

LEMMA BankInv ==
    ASSUME IInv, NEW live \in [Bins -> BOOLEAN], PushBank(live)
    PROVE  IInv'
<1>1. ScalarsOK /\ PointsOK /\ BankOK /\ BankPointIsOneBlock
  BY DEF IInv
<1>2. ScalarsOK'
  BY <1>1 DEF PushBank, sequential, ScalarsOK
<1>3. /\ bank' = [i \in Bins |-> IF bank_active[i] THEN Correlated(bank[i]) ELSE bank[i]]
      /\ table' = [i \in Bins |-> IF i \in BankCompletes
                                  THEN Point(SumsAfterBank(i, live), 1) ELSE table[i]]
      /\ owner' = [i \in Bins |-> IF i \in BankCompletes THEN "bank" ELSE owner[i]]
      /\ bank_active' = bank_active /\ asked' = asked
  BY DEF PushBank
<1>4. ASSUME NEW i \in Bins
      PROVE  /\ Honest(bank'[i]) /\ bank'[i].block = bank[i].block
             /\ bank_active[i] => bank[i].block > 0
  BY <1>1, <1>3, CorrelatedSample DEF BankOK
<1>5. BankOK'
  BY <1>1, <1>3, <1>4 DEF BankOK, Honest
<1>6. PointsOK'
  <2>1. ASSUME NEW i \in Bins PROVE table'[i] \in Points /\ owner'[i] \in Paths
    BY <1>1, <1>3, BankBlock DEF PointsOK, Paths
  <2>2. asked' \in [Bins -> Requests]
    BY <1>1, <1>3 DEF PointsOK
  <2> QED
    BY <1>3, <2>1, <2>2 DEF PointsOK
<1>7. BankPointIsOneBlock'
  <2>1. ASSUME NEW i \in Bins, owner'[i] = "bank", table'[i].valid
        PROVE  /\ Len(table'[i].average) = 1
               /\ table'[i].average[1].bin = i
               /\ table'[i].average[1].size = bank'[i].block
               /\ ~table'[i].coherence
    <3>1. CASE i \in BankCompletes
      BY <1>3, <1>4, <2>1, <3>1, BankBlock
    <3>2. CASE i \notin BankCompletes
      BY <1>1, <1>3, <1>4, <2>1, <3>2 DEF BankPointIsOneBlock
    <3> QED
      BY <3>1, <3>2
  <2> QED
    BY <2>1 DEF BankPointIsOneBlock
<1>8. sums' \in Seq(Blocks)
  BY BankBlock DEF PushBank, IInv
<1>9. Progress' /\ Honest(lock)'
  BY DEF PushBank, sequential, IInv, Progress, Honest, Rest
<1> QED
  BY <1>2, <1>5, <1>6, <1>7, <1>8, <1>9 DEF IInv

LEMMA RateInv ==
    ASSUME IInv, NEW set \in BOOLEAN, SetSampleRate(set)
    PROVE  IInv'
  BY DEF SetSampleRate, sequential, IInv, ScalarsOK, PointsOK, BankOK, Honest,
         Progress, BankPointIsOneBlock, Rest

LEMMA ResetInv ==
    ASSUME IInv, Reset
    PROVE  IInv'
<1>1. ScalarsOK /\ PointsOK
  BY DEF IInv
<1>2. ScalarsOK'
  BY <1>1 DEF Reset, ScalarsOK
<1>3. PointsOK'
  <2>1. EmptyPoint \in Points
    BY PointType DEF EmptyPoint, Points
  <2> QED
    BY <1>1, <2>1 DEF Reset, PointsOK, Paths
<1>4. BankOK' /\ Honest(lock)'
  BY NewCorrelator DEF Reset, BankOK, Honest
<1>5. Progress' /\ BankPointIsOneBlock' /\ sums' \in Seq(Blocks)
  BY DEF Reset, Progress, BankPointIsOneBlock, IInv
<1> QED
  BY <1>2, <1>3, <1>4, <1>5 DEF IInv

LEMMA NextInv == IInv /\ [Next]_vars => IInv'
<1> SUFFICES ASSUME IInv, [Next]_vars PROVE IInv'
  OBVIOUS
<1>1. CASE Configure
  BY <1>1, ConfigureInv, RefusedInv, BeginBinInv DEF Configure
<1>2. CASE Push
  BY <1>2, SettleInv, SampleInv, BlockInv, LastInv DEF Push
<1>3. ASSUME NEW live \in [Bins -> BOOLEAN], PushBank(live) PROVE IInv'
  BY <1>3, BankInv
<1>4. CASE Others
  BY <1>4, RateInv, ResetInv DEF Others
<1>5. CASE UNCHANGED vars
  BY <1>5 DEF vars, sequential, IInv, ScalarsOK, PointsOK, BankOK, Honest,
              Progress, BankPointIsOneBlock, Rest
<1> QED
  BY <1>1, <1>2, <1>3, <1>4, <1>5 DEF Next

-----------------------------------------------------------------------------
(* One usage mode at a time: what the sequential path averages.            *)

\* The blocks of one measurement in the sums, in order.
Averages(s, i, n) ==
    /\ Len(s) = n
    /\ \A k \in 1 .. n :
         /\ s[k].bin = i
         /\ s[k].size = asked[i].size
         /\ s[k].last = asked[i].settle + k * asked[i].size

Averaged == sequential_active => Averages(sums, active_index, blocks_done)

OneModeInv == IInv /\ Averaged /\ SequentialAverage

LEMMA OneModeInit == Init => OneModeInv
  BY InitInv DEF Init, OneModeInv, Averaged, SequentialAverage

\* A completed block continues the average.
LEMMA NextAverage ==
    ASSUME OneModeInv, sequential_active, settle_left = 0, Completes(lock),
           NEW live \in BOOLEAN
    PROVE  Averages(Append(sums, Block(lock, active_index, pushed + 1, live)),
                    active_index, blocks_done + 1)
<1> DEFINE b == Block(lock, active_index, pushed + 1, live)
           a == asked[active_index]
<1>1. /\ Len(sums) = blocks_done
      /\ \A k \in 1 .. blocks_done : /\ sums[k].bin = active_index
                                     /\ sums[k].size = a.size
                                     /\ sums[k].last = a.settle + k * a.size
  BY DEF OneModeInv, Averaged, Averages
<1>2. /\ b \in Blocks /\ b.bin = active_index /\ b.size = a.size
      /\ b.last = a.settle + (blocks_done + 1) * a.size
  BY CompletingSample DEF OneModeInv
<1>3. sums \in Seq(Blocks) /\ blocks_done \in Nat
  BY DEF OneModeInv, IInv, ScalarsOK
<1> HIDE DEF b, a
<1>4. /\ Len(Append(sums, b)) = blocks_done + 1
      /\ Append(sums, b)[blocks_done + 1] = b
      /\ \A k \in 1 .. blocks_done : Append(sums, b)[k] = sums[k]
  BY <1>1, <1>2, <1>3
<1>5. ASSUME NEW k \in 1 .. blocks_done + 1
      PROVE  /\ Append(sums, b)[k].bin = active_index
             /\ Append(sums, b)[k].size = a.size
             /\ Append(sums, b)[k].last = a.settle + k * a.size
  <2>1. k \in 1 .. blocks_done \/ k = blocks_done + 1
    BY <1>3
  <2> QED
    BY <1>1, <1>2, <1>4, <2>1
<1> QED
  BY <1>4, <1>5 DEF Averages, a, b

\* The steps of the sequential path and the table.
LEMMA OneModeStep ==
    ASSUME OneModeInv, [OneModeNext]_vars
    PROVE  Averaged' /\ SequentialAverage'
<1>1. /\ IInv /\ Averaged /\ SequentialAverage
      /\ ScalarsOK /\ PointsOK /\ BankOK /\ Progress /\ sums \in Seq(Blocks)
  BY DEF OneModeInv, IInv
<1>2. ASSUME NEW i \in Indices, NEW freq_ok \in BOOLEAN, NEW size \in BlockSizes,
             NEW blocks \in Counts, NEW settle \in Settles,
             BeginBin(i, freq_ok, size, blocks, settle)
      PROVE  Averaged' /\ SequentialAverage'
  <2>1. Averaged'
    BY <1>2 DEF BeginBin, Averaged, Averages
  <2>2. i \in Bins
    BY <1>2 DEF BeginBin, BinOk
  <2>3. ASSUME NEW j \in Bins, j # i
        PROVE  owner'[j] = owner[j] /\ table'[j] = table[j] /\ asked'[j] = asked[j]
    BY <1>1, <1>2, <2>2, <2>3 DEF BeginBin, PointsOK
  <2>4. owner'[i] = "none"
    BY <1>1, <1>2, <2>2 DEF BeginBin, PointsOK
  <2>5. SequentialAverage'
    BY <1>1, <2>3, <2>4 DEF SequentialAverage
  <2> QED
    BY <2>1, <2>5
<1>3. ASSUME NEW i, NEW freq_ok, NEW size, NEW blocks,
             BeginBinRefused(i, freq_ok, size, blocks)
      PROVE  Averaged' /\ SequentialAverage'
  BY <1>1, <1>3 DEF BeginBinRefused, Averaged, SequentialAverage
<1>4. ASSUME NEW i \in Indices, NEW freq_ok \in BOOLEAN, NEW size \in BlockSizes,
             ConfigureBin(i, freq_ok, size)
      PROVE  Averaged' /\ SequentialAverage'
  <2>1. i \in Bins
    BY <1>4 DEF ConfigureBin, BinOk
  <2>2. ASSUME NEW j \in Bins, j # i
        PROVE  owner'[j] = owner[j] /\ table'[j] = table[j] /\ asked'[j] = asked[j]
    BY <1>1, <1>4, <2>1, <2>2 DEF ConfigureBin, PointsOK
  <2>3. owner'[i] = "none"
    BY <1>1, <1>4, <2>1 DEF ConfigureBin, PointsOK
  <2>4. SequentialAverage'
    BY <1>1, <2>2, <2>3 DEF SequentialAverage
  <2>5. Averaged'
    BY <1>1, <1>4 DEF ConfigureBin, sequential, Averaged, Averages
  <2> QED
    BY <2>4, <2>5
<1>5. CASE PushSettle \/ PushSample
  <2>1. /\ sequential_active' = sequential_active /\ sums' = sums
        /\ active_index' = active_index /\ blocks_done' = blocks_done
        /\ asked' = asked /\ owner' = owner /\ table' = table
    BY <1>5 DEF PushSettle, PushSample
  <2> QED
    BY <1>1, <2>1 DEF Averaged, Averages, SequentialAverage
<1>6. ASSUME NEW live \in BOOLEAN, PushBlock(live)
      PROVE  Averaged' /\ SequentialAverage'
  <2>1. Averages(Append(sums, Block(lock, active_index, pushed + 1, live)),
                 active_index, blocks_done + 1)
    BY <1>6, NextAverage DEF PushBlock
  <2> QED
    BY <1>1, <1>6, <2>1 DEF PushBlock, Averaged, Averages, SequentialAverage
<1>7. ASSUME NEW live \in BOOLEAN, PushLast(live)
      PROVE  Averaged' /\ SequentialAverage'
  <2> DEFINE s == Append(sums, Block(lock, active_index, pushed + 1, live))
             n == blocks_done + 1
             a == asked[active_index]
  <2>1. sequential_active /\ settle_left = 0 /\ Completes(lock)
    BY <1>7 DEF PushLast
  <2>2. Averages(s, active_index, n)
    BY <2>1, NextAverage
  <2>3. s \in Seq(Blocks) /\ n \in Nat /\ active_index \in Bins
    BY <1>1, <2>1, CompletingSample DEF ScalarsOK
  <2>4. n = a.blocks
    <3>1. /\ blocks_target = a.blocks /\ blocks_done < a.blocks
          /\ n >= blocks_target
      BY <1>1, <1>7, <2>1, SampleFacts DEF PushLast
    <3>2. a.blocks \in Nat /\ blocks_done \in Nat
      BY <1>1, <2>1, SampleFacts DEF ScalarsOK
    <3> QED
      BY <3>1, <3>2
  <2> HIDE DEF s, n
  <2>5. /\ table' = [table EXCEPT ![active_index] = Point(s, n)]
        /\ owner' = [owner EXCEPT ![active_index] = "sequential"]
        /\ asked' = asked /\ sequential_active' = FALSE
    BY <1>7 DEF PushLast, s, n
  <2>6. Point(s, n).valid => Averages(Point(s, n).average, active_index, n)
    BY <2>2, <2>3, PointType
  <2>7. ASSUME NEW j \in Bins, owner'[j] = "sequential", table'[j].valid
        PROVE  Averages(table'[j].average, j, asked[j].blocks)
    <3>1. CASE j = active_index
      BY <1>1, <2>3, <2>4, <2>5, <2>6, <2>7, <3>1 DEF PointsOK
    <3>2. CASE j # active_index
      <4>1. owner[j] = "sequential" /\ table'[j] = table[j]
        BY <1>1, <2>3, <2>5, <2>7, <3>2 DEF PointsOK
      <4> QED
        BY <1>1, <2>7, <4>1 DEF SequentialAverage, Averages
    <3> QED
      BY <3>1, <3>2
  <2>8. SequentialAverage'
    BY <2>5, <2>7 DEF SequentialAverage, Averages
  <2> QED
    BY <2>5, <2>8 DEF Averaged
<1>8. ASSUME ~sequential_active, NEW live \in [Bins -> BOOLEAN], PushBank(live)
      PROVE  Averaged' /\ SequentialAverage'
  <2>1. ~sequential_active' /\ asked' = asked
    BY <1>8 DEF PushBank, sequential
  <2>2. ASSUME NEW j \in Bins, owner'[j] = "sequential"
        PROVE  owner[j] = "sequential" /\ table'[j] = table[j]
    BY <1>1, <1>8, <2>2 DEF PushBank, PointsOK
  <2>3. SequentialAverage'
    BY <1>1, <2>1, <2>2 DEF SequentialAverage
  <2> QED
    BY <2>1, <2>3 DEF Averaged
<1>9. ASSUME NEW set \in BOOLEAN, SetSampleRate(set)
      PROVE  Averaged' /\ SequentialAverage'
  BY <1>1, <1>9 DEF SetSampleRate, sequential, Averaged, Averages, SequentialAverage
<1>10. CASE Reset
  BY <1>10 DEF Reset, Averaged, SequentialAverage
<1>11. CASE UNCHANGED vars
  BY <1>1, <1>11 DEF vars, sequential, Averaged, Averages, SequentialAverage
<1> QED
  BY <1>2, <1>3, <1>4, <1>5, <1>6, <1>7, <1>8, <1>9, <1>10, <1>11
  DEF OneModeNext, Configure, Push, Others

-----------------------------------------------------------------------------
(* The theorems.                                                           *)

LEMMA InductiveInvariant == Spec => []IInv
  BY InitInv, NextInv, PTL DEF Spec

LEMMA OneModeInvariant == OneModeSpec => []OneModeInv
<1>1. OneModeInv /\ [OneModeNext]_vars => OneModeInv'
  <2> SUFFICES ASSUME OneModeInv, [OneModeNext]_vars PROVE OneModeInv'
    OBVIOUS
  <2>1. [Next]_vars
    BY DEF OneModeNext, Next
  <2>2. IInv'
    BY <2>1, NextInv DEF OneModeInv
  <2> QED
    BY <2>2, OneModeStep DEF OneModeInv
<1> QED
  BY <1>1, OneModeInit, PTL DEF OneModeSpec

\* Types, in any order of calls; no correlator sums more than its block.
THEOREM TypeCorrect == Spec => []TypeOK
  BY Types, InductiveInvariant, PTL

\* A bank point comes from one block of its own bin, in any order of calls.
THEOREM BankPointsAreOneBlock == Spec => []BankPointIsOneBlock
<1>1. IInv => BankPointIsOneBlock
  BY DEF IInv
<1> QED
  BY <1>1, InductiveInvariant, PTL

\* A measurement completes with the last sample it asked for, in any order of
\* calls.
THEOREM MeasurementsEnd == Spec => []NotOverdue
<1>1. IInv => NotOverdue
  <2> SUFFICES ASSUME IInv, sequential_active
               PROVE  pushed < asked[active_index].settle
                                 + asked[active_index].blocks * asked[active_index].size
    BY DEF NotOverdue
  <2> DEFINE a == asked[active_index]
  <2>1. ScalarsOK /\ PointsOK /\ Progress /\ Honest(lock)
    BY DEF IInv
  <2>2. a.size \in Nat /\ a.blocks \in Nat /\ a.settle \in Nat
    BY <2>1 DEF ScalarsOK, PointsOK, Requests
  <2>3. /\ lock.block = a.size /\ a.size > 0 /\ blocks_done < a.blocks
        /\ pushed + settle_left = a.settle + blocks_done * a.size + Rest(lock)
    BY <2>1 DEF Progress
  <2>4. Rest(lock) \in Nat /\ Rest(lock) < a.size
    BY <2>1, <2>3, CorrelatedSample
  <2>5. blocks_done \in Nat /\ pushed \in Nat /\ settle_left \in Nat
    BY <2>1 DEF ScalarsOK
  <2> HIDE DEF a
  <2>6. blocks_done * a.size + a.size <= a.blocks * a.size
    <3>1. blocks_done + 1 \in Nat /\ blocks_done + 1 <= a.blocks
      BY <2>2, <2>3, <2>5
    <3>2. (blocks_done + 1) * a.size <= a.blocks * a.size
      BY <2>2, <2>5, <3>1, FewerBlocks
    <3> QED
      BY <2>2, <2>5, <3>2, NextBlock
  <2>7. blocks_done * a.size \in Nat /\ a.blocks * a.size \in Nat
    BY <2>2, <2>5
  <2>8. pushed < a.settle + a.blocks * a.size
    BY <2>2, <2>3, <2>4, <2>5, <2>6, <2>7
  <2> QED
    BY <2>8 DEF a
<1> QED
  BY <1>1, InductiveInvariant, PTL

\* Used one mode at a time, a sequential point averages exactly the blocks its
\* begin_bin() asked for, for any table size, block size, count and settling.
THEOREM SequentialAverages == OneModeSpec => []SequentialAverage
<1>1. OneModeInv => SequentialAverage
  BY DEF OneModeInv
<1> QED
  BY <1>1, OneModeInvariant, PTL

-----------------------------------------------------------------------------
(* Part 2: the excitation generators.  Their records by kind.              *)

PrbsGenerators ==
    [kind : {"prbs"}, order : Orders, seed : SUBSET Nat, state : SUBSET Nat,
     elapsed : Nat, chips : Nat]

StepGenerators ==
    [kind : {"step"}, tol : RateTols, k : Nat, settle_k : Nat, prev : Seq(Int),
     finished : BOOLEAN, settled : BOOLEAN]

SineGenerators ==
    [kind : {"sine"}, index : 1 .. Len(Freqs), k : Nat, finished : BOOLEAN]

MultiGenerators == [kind : {"multi"}, phases : [DOMAIN Tones -> Int]]

OtherGenerators ==
    [kind : {"train", "impulse", "chirp"}, k : Nat]
    \cup [kind : {"ramp"}, target : Targets, k : Nat]

AllGenerators ==
    PrbsGenerators \cup StepGenerators \cup SineGenerators \cup MultiGenerators
                   \cup OtherGenerators

Observations == [y : Int, at : Nat]

ExcitationTypes ==
    /\ gen \in AllGenerators
    /\ samples \in Nat /\ samples <= MaxSamples
    /\ heard \in Seq(Observations)

\* A generator is of the records of its kind.
LEMMA KindIs ==
    ASSUME ExcitationTypes
    PROVE  /\ gen.kind = "prbs" => gen \in PrbsGenerators
           /\ gen.kind = "step" => gen \in StepGenerators
           /\ gen.kind = "sine" => gen \in SineGenerators
           /\ gen.kind = "multi" => gen \in MultiGenerators
           /\ gen.kind \notin {"prbs", "step", "sine", "multi"} => gen \in OtherGenerators
  BY DEF ExcitationTypes, AllGenerators, PrbsGenerators, StepGenerators, SineGenerators,
         MultiGenerators, OtherGenerators

\* The sizes and times of the configuration.
LEMMA Sizes ==
    /\ Ts \in Nat /\ Ts > 0 /\ Clock \in Nat /\ Clock > 0 /\ Ts <= Clock
    /\ MinHold \in Nat /\ MaxHold \in Nat /\ MaxHold > 0 /\ Confirm \in Nat
    /\ Turn \in Nat /\ Turn > 0 /\ MaxSamples \in Nat
    /\ CyclesPerFreq \in Nat /\ CyclesPerFreq > 0
<1>1. /\ {Ts, Clock, MinHold, MaxHold, Hold, Cycles, Rate, Width, Turn, Duration}
           \subseteq Nat \ {0}
      /\ {Confirm, HoldAtEnd, MaxSamples} \subseteq Nat
      /\ Ts <= Clock /\ CyclesPerFreq \in Nat \ {0}
  BY ExcitationAssumption
<1> QED
  BY <1>1

LEMMA FreqsArePositive ==
    /\ Len(Freqs) \in Nat /\ Len(Freqs) >= 1 /\ DOMAIN Freqs = 1 .. Len(Freqs)
    /\ \A i \in 1 .. Len(Freqs) : Freqs[i] \in Nat /\ Freqs[i] > 0
<1>1. Freqs \in Seq(Nat \ {0}) /\ Freqs # <<>>
  BY ExcitationAssumption
<1> QED
  BY <1>1

LEMMA TonesAre ==
    ASSUME NEW i \in DOMAIN Tones
    PROVE  Tones[i].f \in Nat /\ Tones[i].phase \in Int
<1> DEFINE S == [f : Nat, phase : Int]
<1>1. Tones \in Seq(S)
  BY ExcitationAssumption
<1>2. Tones[i] \in S
  <2> HIDE DEF S
  <2> QED
    BY <1>1
<1> QED
  BY <1>2

LEMMA WrappedInt == \A x \in Int : Wrapped(x) \in Int
<1>1. \A x, t \in Int : t > 0 => x % t \in Int /\ t \div 2 \in Int
  OBVIOUS
<1> QED
  BY <1>1, Sizes DEF Wrapped

-----------------------------------------------------------------------------
(* Fresh generators.                                                       *)

LEMMA FreshPrbs ==
    ASSUME NEW o \in Orders, NEW s \in SUBSET Nat
    PROVE  Prbs(o, s) \in PrbsGenerators /\ Prbs(o, s).elapsed = 0 /\ Prbs(o, s).chips = 0
           /\ Prbs(o, s).kind = "prbs"
<1>1. Seeded(o, s) \in SUBSET Nat
  BY DEF Seeded
<1> QED
  BY <1>1 DEF Prbs, PrbsGenerators

LEMMA FreshStep ==
    ASSUME NEW tol \in RateTols
    PROVE  SingleStep(tol) \in StepGenerators
<1>1. <<>> \in Seq(Int)
  OBVIOUS
<1> QED
  BY <1>1 DEF SingleStep, StepGenerators

LEMMA FreshSine == Sine \in SineGenerators
  BY FreqsArePositive DEF Sine, SineGenerators

LEMMA FreshMulti == MultiSine \in MultiGenerators
<1>1. [i \in DOMAIN Tones |-> Wrapped(Tones[i].phase)] \in [DOMAIN Tones -> Int]
  BY TonesAre, WrappedInt
<1> QED
  BY <1>1 DEF MultiSine, MultiGenerators

-----------------------------------------------------------------------------
(* The schedules: where each kind of generator is after a number of        *)
(* samples.                                                                *)

\* The chips counted and the time into the chip under way make up the time.
ChipsOnTime ==
    gen.kind = "prbs" /\ samples < MaxSamples =>
        /\ gen.elapsed < Clock
        /\ gen.elapsed + gen.chips * Clock = samples * Ts

\* The samples are those of the tones before and of the tone in progress, which
\* lacks cycles.
TonesOnTime ==
    gen.kind = "sine" /\ samples < MaxSamples =>
        /\ samples = SumTo(Dwells)[gen.index - 1] + gen.k
        /\ ~gen.finished => Freqs[gen.index] * gen.k * Ts < CyclesPerFreq * Turn

\* Every phase is whole turns away from where the time says.
PhasesOnTime ==
    gen.kind = "multi" /\ samples < MaxSamples =>
        \A i \in DOMAIN Tones :
            \E q \in Int :
                gen.phases[i] = Tones[i].phase + samples * Ts * Tones[i].f + q * Turn

\* One sample more.
LEMMA EmitCounts ==
    ASSUME samples \in Nat, samples <= MaxSamples, NEW value, Emit(value)
    PROVE  /\ samples' \in Nat /\ samples' <= MaxSamples
           /\ samples' < MaxSamples => samples < MaxSamples /\ samples' = samples + 1
  BY Sizes DEF Emit

LEMMA ChipTime ==
    ASSUME NEW e \in Int, NEW c \in Int, NEW d \in Int, NEW n \in Int, NEW t \in Int,
           e + c * d = n * t
    PROVE  /\ (e + t) + c * d = (n + 1) * t
           /\ (e + t - d) + (c + 1) * d = (n + 1) * t
  OBVIOUS

LEMMA PrbsStepTime ==
    ASSUME ExcitationTypes, ChipsOnTime, PrbsStep
    PROVE  ExcitationTypes' /\ ChipsOnTime' /\ gen'.kind = "prbs"
<1> DEFINE time == gen.elapsed + Ts
<1>1. gen.kind = "prbs" /\ gen \in PrbsGenerators /\ heard' = heard
  BY KindIs DEF PrbsStep
<1>2. /\ gen.elapsed \in Nat /\ gen.chips \in Nat /\ gen.order \in Orders
      /\ gen.state \in SUBSET Nat /\ gen.seed \in SUBSET Nat
      /\ time \in Nat
  BY <1>1, Sizes DEF PrbsGenerators
<1>3. /\ samples' \in Nat /\ samples' <= MaxSamples
      /\ samples' < MaxSamples => samples < MaxSamples /\ samples' = samples + 1
  <2>1. PICK v : Emit(v)
    BY DEF PrbsStep
  <2> QED
    BY <2>1, EmitCounts DEF ExcitationTypes
<1>4. CASE time >= Clock
  <2>1. gen' = [gen EXCEPT !.elapsed = time - Clock, !.chips = @ + 1,
                           !.state = Advanced(@, gen.order)]
    BY <1>4 DEF PrbsStep
  <2>2. time - Clock \in Nat /\ gen.chips + 1 \in Nat
    BY <1>2, <1>4, Sizes
  <2>3. Advanced(gen.state, gen.order) \in SUBSET Nat
    <3>1. 0 .. gen.order - 1 \subseteq Nat
      OBVIOUS
    <3> QED
      BY <3>1 DEF Advanced
  <2> DEFINE a == Advanced(gen.state, gen.order)
  <2> HIDE DEF a, time
  <2>4. /\ gen' \in PrbsGenerators /\ gen'.elapsed = time - Clock
        /\ gen'.chips = gen.chips + 1 /\ gen'.kind = "prbs"
    BY <1>1, <2>1, <2>2, <2>3 DEF PrbsGenerators, a
  <2>5. ChipsOnTime'
    <3> SUFFICES ASSUME samples' < MaxSamples
                 PROVE  /\ gen'.elapsed < Clock
                        /\ gen'.elapsed + gen'.chips * Clock = samples' * Ts
      BY DEF ChipsOnTime
    <3>1. gen.elapsed < Clock /\ gen.elapsed + gen.chips * Clock = samples * Ts
      BY <1>1, <1>3 DEF ChipsOnTime
    <3>2. samples \in Int /\ samples' = samples + 1
      BY <1>3 DEF ExcitationTypes
    <3>3. (gen.elapsed + Ts - Clock) + (gen.chips + 1) * Clock = (samples + 1) * Ts
      BY <1>2, <3>1, <3>2, Sizes, ChipTime
    <3> QED
      BY <1>2, <2>4, <3>1, <3>2, <3>3, Sizes DEF time
  <2> QED
    BY <1>1, <1>3, <2>4, <2>5 DEF ExcitationTypes, AllGenerators
<1>5. CASE ~(time >= Clock)
  <2>1. gen' = [gen EXCEPT !.elapsed = time]
    BY <1>5 DEF PrbsStep
  <2> HIDE DEF time
  <2>2. /\ gen' \in PrbsGenerators /\ gen'.elapsed = time
        /\ gen'.chips = gen.chips /\ gen'.kind = "prbs"
    BY <1>1, <1>2, <2>1 DEF PrbsGenerators
  <2>3. ChipsOnTime'
    <3> SUFFICES ASSUME samples' < MaxSamples
                 PROVE  /\ gen'.elapsed < Clock
                        /\ gen'.elapsed + gen'.chips * Clock = samples' * Ts
      BY DEF ChipsOnTime
    <3>1. gen.elapsed + gen.chips * Clock = samples * Ts
      BY <1>1, <1>3 DEF ChipsOnTime
    <3>2. samples \in Int /\ samples' = samples + 1
      BY <1>3 DEF ExcitationTypes
    <3>3. (gen.elapsed + Ts) + gen.chips * Clock = (samples + 1) * Ts
      <4> DEFINE e == gen.elapsed
                 c == gen.chips
      <4>1. e \in Int /\ c \in Int /\ e + c * Clock = samples * Ts
        BY <1>2, <3>1
      <4> HIDE DEF e, c
      <4>2. (e + Ts) + c * Clock = (samples + 1) * Ts
        BY <3>2, <4>1, Sizes, ChipTime
      <4> QED
        BY <4>2 DEF e, c
    <3> QED
      BY <1>2, <1>5, <2>2, <3>2, <3>3, Sizes DEF time
  <2> QED
    BY <1>1, <1>3, <2>2, <2>3 DEF ExcitationTypes, AllGenerators
<1> QED
  BY <1>4, <1>5

\* The first count of samples that completes the cycles of a tone is Dwell().
LEMMA DwellIs ==
    ASSUME NEW f \in Nat, f > 0, NEW k \in Nat,
           f * k * Ts < CyclesPerFreq * Turn, f * (k + 1) * Ts >= CyclesPerFreq * Turn
    PROVE  Dwell(f) = k + 1
<1> DEFINE d == f * Ts
           c == CyclesPerFreq * Turn
<1>1. d \in Nat \ {0} /\ c \in Int
  <2>1. \A a, b \in Nat : a * b \in Nat /\ (a > 0 /\ b > 0 => a * b > 0)
    OBVIOUS
  <2> QED
    BY <2>1, Sizes
<1>2. f * k * Ts = k * d /\ f * (k + 1) * Ts = (k + 1) * d
  <2>1. \A a, b, t \in Int : a * b * t = b * (a * t)
    OBVIOUS
  <2>2. f \in Int /\ k \in Int /\ k + 1 \in Int /\ Ts \in Int
    BY Sizes
  <2> QED
    BY <2>1, <2>2
<1>3. k * d < c /\ c <= (k + 1) * d
  BY <1>2
<1> HIDE DEF d, c
<1>4. (k + 1) * d \in Int /\ k * d \in Int /\ (k + 1) * d = k * d + d
  BY <1>1
<1>5. (c + d - 1) \div d = k + 1
  <2>1. c + d - 1 \in Int /\ (k + 1) * d <= c + d - 1 /\ c + d - 1 < (k + 1) * d + d
    BY <1>1, <1>3, <1>4
  <2> DEFINE a == c + d - 1
             q == k + 1
  <2>2. a \in Int /\ q \in Int /\ q * d <= a /\ a < q * d + d
    BY <2>1
  <2> HIDE DEF a, q
  <2>3. a \div d = q
    BY <1>1, <2>2, QuotientIs
  <2> QED
    BY <2>3 DEF a, q
<1> QED
  BY <1>5 DEF Dwell, d, c

\* The samples before a tone are those before the tone before it and its own.
LEMMA DwellsSum ==
    /\ SumTo(Dwells)[0] = 0
    /\ \A i \in 1 .. Len(Freqs) :
         /\ SumTo(Dwells)[i - 1] \in Int
         /\ SumTo(Dwells)[i] = SumTo(Dwells)[i - 1] + Dwell(Freqs[i])
<1>1. \A i \in Nat : Dwells[i] \in Int
  <2> SUFFICES ASSUME NEW i \in Nat PROVE Dwells[i] \in Int
    OBVIOUS
  <2>1. CASE i \in DOMAIN Freqs
    <3>1. Freqs[i] \in Nat /\ Freqs[i] > 0
      BY <2>1, FreqsArePositive
    <3> DEFINE f == Freqs[i]
               d == f * Ts
               a == CyclesPerFreq * Turn + d - 1
    <3> HIDE DEF f
    <3>2. d \in Nat \ {0} /\ CyclesPerFreq * Turn \in Int
      <4>1. \A x, y \in Nat : x * y \in Nat /\ (x > 0 /\ y > 0 => x * y > 0)
        OBVIOUS
      <4> QED
        BY <3>1, <4>1, Sizes DEF f
    <3>3. a \in Int
      BY <3>2
    <3> HIDE DEF d, a
    <3>4. a \div d \in Int
      BY <3>2, <3>3, Quotient
    <3> QED
      BY <2>1, <3>4 DEF Dwells, Dwell, a, d, f
  <2>2. CASE i \notin DOMAIN Freqs
    BY <2>2 DEF Dwells
  <2> QED
    BY <2>1, <2>2
<1>2. \A i \in 1 .. Len(Freqs) : Dwells[i] = Dwell(Freqs[i])
  BY FreqsArePositive DEF Dwells
<1> DEFINE g == Dwells
           s == SumTo(g)
<1> HIDE DEF g
<1>3. /\ s \in [Nat -> Int] /\ s[0] = 0
      /\ \A j \in Nat : s[j + 1] = s[j] + g[j + 1]
  BY <1>1, SumUnfolds DEF g
<1> HIDE DEF s
<1>4. ASSUME NEW i \in 1 .. Len(Freqs)
      PROVE  s[i - 1] \in Int /\ s[i] = s[i - 1] + g[i]
  <2> DEFINE j == i - 1
  <2>1. j \in Nat /\ i = j + 1
    BY FreqsArePositive
  <2> HIDE DEF j
  <2> QED
    BY <1>3, <2>1 DEF j
<1> QED
  BY <1>2, <1>3, <1>4 DEF s, g

LEMMA SineStepTime ==
    ASSUME ExcitationTypes, TonesOnTime, SineStep
    PROVE  ExcitationTypes' /\ TonesOnTime' /\ gen'.kind = "sine"
<1> DEFINE i == gen.index
           k == gen.k
           g == [gen EXCEPT !.k = @ + 1]
           f == Freqs[i]
           goal == CyclesPerFreq * Turn
           before == SumTo(Dwells)
<1>1. gen.kind = "sine" /\ gen \in SineGenerators /\ heard' = heard /\ ~gen.finished
  BY KindIs DEF SineStep
<1>2. i \in 1 .. Len(Freqs) /\ k \in Nat
  BY <1>1 DEF SineGenerators
<1>3. /\ samples' \in Nat /\ samples' <= MaxSamples
      /\ samples' < MaxSamples => samples < MaxSamples /\ samples' = samples + 1
  <2>1. PICK v : Emit(v)
    BY DEF SineStep
  <2> QED
    BY <2>1, EmitCounts DEF ExcitationTypes
<1>4. g \in SineGenerators /\ g.index = i /\ g.k = k + 1 /\ g.finished = gen.finished
  BY <1>1, <1>2 DEF SineGenerators
<1>5. gen' = IF f * (k + 1) * Ts >= goal THEN NextTone(g) ELSE g
  BY <1>4 DEF SineStep
<1>6. samples \in Nat /\ f \in Nat /\ f > 0 /\ Len(Freqs) \in Nat
  BY <1>2, FreqsArePositive DEF ExcitationTypes
<1>7. samples < MaxSamples =>
        /\ samples = before[i - 1] + k
        /\ f * k * Ts < goal
  BY <1>1 DEF TonesOnTime
<1>8. f * (k + 1) * Ts \in Int /\ f * k * Ts \in Int /\ goal \in Int
  <2>1. \A a, b, c \in Int : a * b * c \in Int /\ a * b \in Int
    OBVIOUS
  <2>2. f \in Int /\ k \in Int /\ k + 1 \in Int /\ Ts \in Int
        /\ CyclesPerFreq \in Int /\ Turn \in Int
    BY <1>2, <1>6, Sizes
  <2> QED
    BY <2>1, <2>2
<1>9. before[i - 1] \in Int /\ before[i] = before[i - 1] + Dwell(f)
  BY <1>2, DwellsSum
<1> HIDE DEF g, goal, before
<1>10. CASE ~(f * (k + 1) * Ts >= goal)
  <2>1. gen' = g
    BY <1>5, <1>10
  <2>2. gen'.kind = "sine"
    BY <1>4, <2>1 DEF SineGenerators
  <2>3. ExcitationTypes'
    BY <1>1, <1>3, <1>4, <2>1 DEF ExcitationTypes, AllGenerators
  <2>4. TonesOnTime'
    <3> SUFFICES ASSUME samples' < MaxSamples
                 PROVE  /\ samples' = before[gen'.index - 1] + gen'.k
                        /\ Freqs[gen'.index] * gen'.k * Ts < goal
      BY DEF TonesOnTime, before, goal
    <3>1. gen'.index = i /\ gen'.k = k + 1
      BY <1>4, <2>1
    <3>2. samples' = before[i - 1] + (k + 1)
      BY <1>2, <1>3, <1>6, <1>7, <1>9
    <3>3. f * (k + 1) * Ts < goal
      BY <1>8, <1>10
    <3> QED
      BY <3>1, <3>2, <3>3
  <2> QED
    BY <2>2, <2>3, <2>4
<1>11. CASE f * (k + 1) * Ts >= goal /\ i < Len(Freqs)
  <2>1. gen' = [g EXCEPT !.index = @ + 1, !.k = 0]
    BY <1>4, <1>5, <1>11 DEF NextTone
  <2>2. /\ gen' \in SineGenerators /\ gen'.index = i + 1 /\ gen'.k = 0
        /\ gen'.kind = "sine" /\ gen'.index - 1 = i
    <3> DEFINE j == i + 1
    <3>1. j \in 1 .. Len(Freqs) /\ j - 1 = i
      BY <1>2, <1>6, <1>11
    <3>2. gen' = [g EXCEPT !.index = j, !.k = 0]
      BY <1>4, <2>1
    <3> HIDE DEF j
    <3>3. gen' \in SineGenerators /\ gen'.index = j /\ gen'.k = 0 /\ gen'.kind = "sine"
      BY <1>4, <3>1, <3>2 DEF SineGenerators
    <3> QED
      BY <3>1, <3>3 DEF j
  <2>3. ExcitationTypes'
    BY <1>1, <1>3, <2>2 DEF ExcitationTypes, AllGenerators
  <2>4. TonesOnTime'
    <3> SUFFICES ASSUME samples' < MaxSamples
                 PROVE  /\ samples' = before[gen'.index - 1] + gen'.k
                        /\ Freqs[gen'.index] * gen'.k * Ts < goal
      BY DEF TonesOnTime, before, goal
    <3>1. Dwell(f) = k + 1
      BY <1>2, <1>3, <1>6, <1>7, <1>11, DwellIs DEF goal
    <3>2. samples' = before[i]
      BY <1>2, <1>3, <1>6, <1>7, <1>9, <3>1
    <3>3. before[i] \in Int
      BY <1>2, <1>9, <3>1
    <3>4. Freqs[i + 1] * 0 * Ts < goal
      <4>1. Freqs[i + 1] \in Int /\ Ts \in Int
        BY <1>2, <1>11, <1>6, FreqsArePositive, Sizes
      <4>2. \A a, b \in Int : a * 0 * b = 0
        OBVIOUS
      <4>3. goal > 0
        <5>1. \A a, b \in Nat : a > 0 /\ b > 0 => a * b > 0
          OBVIOUS
        <5> QED
          BY <5>1, Sizes DEF goal
      <4> QED
        BY <4>1, <4>2, <4>3
    <3> QED
      BY <2>2, <3>2, <3>3, <3>4
  <2> QED
    BY <2>2, <2>3, <2>4
<1>12. CASE f * (k + 1) * Ts >= goal /\ ~(i < Len(Freqs))
  <2>1. gen' = [g EXCEPT !.finished = TRUE]
    BY <1>4, <1>5, <1>12 DEF NextTone
  <2>2. /\ gen' \in SineGenerators /\ gen'.index = i /\ gen'.k = k + 1
        /\ gen'.finished = TRUE /\ gen'.kind = "sine"
    BY <1>4, <2>1 DEF SineGenerators
  <2>3. ExcitationTypes'
    BY <1>1, <1>3, <2>2 DEF ExcitationTypes, AllGenerators
  <2>4. TonesOnTime'
    <3> SUFFICES ASSUME samples' < MaxSamples
                 PROVE  samples' = before[gen'.index - 1] + gen'.k
      BY <2>2 DEF TonesOnTime, before
    <3> QED
      BY <1>2, <1>3, <1>6, <1>7, <1>9, <2>2
  <2> QED
    BY <2>2, <2>3, <2>4
<1> QED
  BY <1>10, <1>11, <1>12

\* Wrapping a phase takes whole turns from it.
LEMMA WrappedTurns ==
    ASSUME NEW x \in Int
    PROVE  \E q \in Int : Wrapped(x) = x + q * Turn
<1> DEFINE h == Turn \div 2
           z == x + h
           d == z \div Turn
           r == z % Turn
<1>1. h \in Int
  BY Sizes
<1>2. z \in Int
  BY <1>1
<1>3. Wrapped(x) = r - h
  BY DEF Wrapped
<1>4. z = x + h
  OBVIOUS
<1> HIDE DEF h, z
<1>5. r \in Int /\ d \in Int /\ z = Turn * d + r
  BY <1>2, Sizes, Remainder
<1> HIDE DEF d, r
<1>6. Wrapped(x) = x - Turn * d
  <2>1. Turn * d \in Int
    BY <1>5, Sizes
  <2> QED
    BY <1>1, <1>3, <1>4, <1>5, <2>1
<1>7. -d \in Int /\ x - Turn * d = x + (-d) * Turn
  BY <1>5, Sizes
<1> QED
  BY <1>6, <1>7

LEMMA TurnsAdd ==
    ASSUME NEW p \in Int, NEW a \in Int, NEW t \in Int, NEW f \in Int, NEW turn \in Int,
           NEW q \in Int, NEW u \in Int, NEW v \in Int
    PROVE  ((p + a * t * f + q * turn) + (f * t + u * turn)) + v * turn
             = p + (a + 1) * t * f + (q + u + v) * turn
  OBVIOUS

LEMMA MultiStepTime ==
    ASSUME ExcitationTypes, PhasesOnTime, MultiStep
    PROVE  ExcitationTypes' /\ PhasesOnTime' /\ gen'.kind = "multi"
<1> DEFINE next == [i \in DOMAIN Tones |-> Wrapped(gen.phases[i] + Wrapped(Tones[i].f * Ts))]
<1>1. gen.kind = "multi" /\ gen \in MultiGenerators /\ heard' = heard
  BY KindIs DEF MultiStep
<1>2. /\ samples' \in Nat /\ samples' <= MaxSamples
      /\ samples' < MaxSamples => samples < MaxSamples /\ samples' = samples + 1
  <2>1. PICK v : Emit(v)
    BY DEF MultiStep
  <2> QED
    BY <2>1, EmitCounts DEF ExcitationTypes
<1>3. \A i \in DOMAIN Tones : gen.phases[i] \in Int
  BY <1>1 DEF MultiGenerators
<1>4. \A i \in DOMAIN Tones : Tones[i].f * Ts \in Int /\ Wrapped(Tones[i].f * Ts) \in Int
  <2>1. \A a, b \in Nat : a * b \in Int
    OBVIOUS
  <2> QED
    BY <2>1, TonesAre, Sizes, WrappedInt
<1>5. next \in [DOMAIN Tones -> Int]
  BY <1>3, <1>4, WrappedInt
<1>6. gen' = [gen EXCEPT !.phases = next]
  BY DEF MultiStep
<1>7. \A i \in DOMAIN Tones :
         next[i] = Wrapped(gen.phases[i] + Wrapped(Tones[i].f * Ts))
  OBVIOUS
<1> HIDE DEF next
<1>8. gen' \in MultiGenerators /\ gen'.kind = "multi" /\ gen'.phases = next
  BY <1>1, <1>5, <1>6 DEF MultiGenerators
<1>9. PhasesOnTime'
  <2> SUFFICES ASSUME samples' < MaxSamples, NEW i \in DOMAIN Tones
               PROVE  \E q \in Int :
                        gen'.phases[i] = Tones[i].phase + samples' * Ts * Tones[i].f + q * Turn
    BY DEF PhasesOnTime
  <2> DEFINE f == Tones[i].f
             p == Tones[i].phase
             x == gen.phases[i]
             y == Wrapped(f * Ts)
             z == x + y
  <2>1. /\ samples \in Int /\ samples' = samples + 1
        /\ f \in Int /\ p \in Int /\ Ts \in Int /\ Turn \in Int
    BY <1>2, TonesAre, Sizes DEF ExcitationTypes
  <2>2. PICK q \in Int : x = p + samples * Ts * f + q * Turn
    BY <1>1, <1>2 DEF PhasesOnTime
  <2>3. PICK u \in Int : y = f * Ts + u * Turn
    <3> DEFINE c == f * Ts
    <3>1. c \in Int
      BY <1>4
    <3> HIDE DEF c, f
    <3>2. \E u \in Int : Wrapped(c) = c + u * Turn
      BY <3>1, WrappedTurns
    <3> QED
      BY <3>2 DEF c
  <2>4. z \in Int
    BY <1>3, <1>4
  <2>5. next[i] = Wrapped(z)
    BY <1>7
  <2> HIDE DEF f, p, x, y
  <2>6. z = x + y
    OBVIOUS
  <2> HIDE DEF z
  <2>7. PICK v \in Int : Wrapped(z) = z + v * Turn
    BY <2>4, WrappedTurns
  <2>8. z + v * Turn = p + (samples + 1) * Ts * f + (q + u + v) * Turn
    BY <2>1, <2>2, <2>3, <2>6, TurnsAdd
  <2>9. q + u + v \in Int
    OBVIOUS
  <2> QED
    BY <1>8, <2>1, <2>5, <2>7, <2>8, <2>9 DEF f, p
<1> QED
  BY <1>1, <1>2, <1>8, <1>9 DEF ExcitationTypes, AllGenerators

-----------------------------------------------------------------------------
(* The step that watches its plant.                                        *)

StepRecord(tol, k, settle_k, prev, finished, settled) ==
    [kind |-> "step", tol |-> tol, k |-> k, settle_k |-> settle_k, prev |-> prev,
     finished |-> finished, settled |-> settled]

LEMMA StepRecordIs ==
    ASSUME NEW g \in StepGenerators
    PROVE  /\ g = StepRecord(g.tol, g.k, g.settle_k, g.prev, g.finished, g.settled)
           /\ g.kind = "step" /\ g.tol \in RateTols /\ g.tol \in Nat /\ g.k \in Nat
           /\ g.settle_k \in Nat /\ g.prev \in Seq(Int)
           /\ g.finished \in BOOLEAN /\ g.settled \in BOOLEAN
<1>1. RateTols \subseteq Nat
  BY ExcitationAssumption
<1> QED
  BY <1>1 DEF StepRecord, StepGenerators

\* update_done_from_time(): a watching step gives up at the maximum hold, a timed one
\* is settled at the minimum hold.
LEMMA TimedIs ==
    ASSUME NEW tol \in RateTols, NEW k \in Nat, NEW s \in Nat, NEW p \in Seq(Int),
           NEW f \in BOOLEAN, NEW d \in BOOLEAN
    PROVE  Timed(StepRecord(tol, k, s, p, f, d))
             = IF f THEN StepRecord(tol, k, s, p, f, d)
               ELSE IF tol > 0 THEN StepRecord(tol, k, s, p, k * Ts >= MaxHold, d)
               ELSE StepRecord(tol, k, s, p, k * Ts >= MinHold, k * Ts >= MinHold)
<1> DEFINE g == StepRecord(tol, k, s, p, f, d)
<1>1. g.finished = f /\ g.tol = tol /\ g.k = k
  BY DEF StepRecord
<1>2. CASE f
  BY <1>1, <1>2 DEF Timed
<1>3. CASE ~f /\ tol > 0
  <2>1. Timed(g) = [g EXCEPT !.finished = k * Ts >= MaxHold]
    BY <1>1, <1>3 DEF Timed
  <2> QED
    BY <1>3, <2>1 DEF StepRecord
<1>4. CASE ~f /\ ~(tol > 0)
  <2>1. Timed(g) = [g EXCEPT !.finished = k * Ts >= MinHold, !.settled = k * Ts >= MinHold]
    BY <1>1, <1>4 DEF Timed
  <2> QED
    BY <1>4, <2>1 DEF StepRecord
<1> QED
  BY <1>2, <1>3, <1>4

\* An observation that counts towards settling: a small rate, after the minimum hold.
Held(h, tol, i) == Distance(h[i].y, h[i - 1].y) <= tol * Ts /\ h[i].at * Ts >= MinHold

\* The observations end with a rest of at least the confirmation time.
Rested(h, tol) ==
    \E first \in 2 .. Len(h) :
        /\ \A i \in first .. Len(h) : Held(h, tol, i)
        /\ (Len(h) - first + 1) * Ts >= Confirm

\* Exactly the last s observations count.
Trail(h, tol, s) ==
    /\ s \in Nat /\ s <= Len(h) /\ (h # <<>> => s < Len(h))
    /\ \A i \in Len(h) - s + 1 .. Len(h) : Held(h, tol, i)
    /\ Len(h) - s >= 2 => ~Held(h, tol, Len(h) - s)

\* What is known of a step that watches its plant: its clock is the history's, it is
\* settled if its observations rest, and finished if it is settled or timed out; until
\* then settle_k_ is the length of the rest and prev_ the last observation.
Watching ==
    gen.kind = "step" /\ gen.tol > 0 /\ samples < MaxSamples =>
        /\ gen.k = samples
        /\ (gen.k - 1) * Ts < MaxHold
        /\ gen.settled <=> Rested(heard, gen.tol)
        /\ gen.settled => gen.finished
        /\ gen.finished => gen.settled \/ gen.k * Ts >= MaxHold
        /\ ~gen.finished =>
             /\ gen.k * Ts < MaxHold
             /\ IF heard = <<>> THEN gen.prev = <<>>
                                ELSE gen.prev = <<heard[Len(heard)].y>>
             /\ Trail(heard, gen.tol, gen.settle_k)

\* Longer is later.
LEMMA LaterTime ==
    ASSUME NEW a \in Int, NEW b \in Int, a <= b
    PROVE  a * Ts \in Int /\ b * Ts \in Int /\ a * Ts <= b * Ts
<1>1. \A t \in Nat : a * t \in Int /\ b * t \in Int /\ a * t <= b * t
  OBVIOUS
<1> QED
  BY <1>1, Sizes

\* The observations rest if the last of them that count last long enough.
LEMMA RestedIs ==
    ASSUME NEW h \in Seq(Observations), NEW tol, NEW s, Trail(h, tol, s)
    PROVE  Rested(h, tol) <=> s >= 1 /\ s * Ts >= Confirm
<1> DEFINE n == Len(h)
<1>1. n \in Nat /\ s \in Nat /\ s <= n /\ (n >= 1 => s < n)
  BY DEF Trail
<1> HIDE DEF n
<1>2. ASSUME s >= 1, s * Ts >= Confirm PROVE Rested(h, tol)
  <2> DEFINE first == n - s + 1
  <2>1. first \in 2 .. n /\ n - first + 1 = s
    BY <1>1, <1>2
  <2>2. \A i \in first .. n : Held(h, tol, i)
    BY DEF Trail, n
  <2> HIDE DEF first
  <2> QED
    BY <1>2, <2>1, <2>2 DEF Rested, n
<1>3. ASSUME Rested(h, tol) PROVE s >= 1 /\ s * Ts >= Confirm
  <2>1. PICK first \in 2 .. n : /\ \A i \in first .. n : Held(h, tol, i)
                                /\ (n - first + 1) * Ts >= Confirm
    BY <1>3 DEF Rested, n
  <2>2. first > n - s
    <3> SUFFICES ASSUME first <= n - s PROVE FALSE
      BY <1>1, <2>1
    <3> DEFINE i == n - s
    <3>1. i \in first .. n /\ i >= 2
      BY <1>1, <2>1
    <3>2. ~Held(h, tol, i)
      BY <3>1 DEF Trail, n
    <3> HIDE DEF i
    <3> QED
      BY <2>1, <3>1, <3>2
  <2> DEFINE m == n - first + 1
  <2>3. m \in Int /\ m <= s /\ m >= 1
    BY <1>1, <2>1, <2>2
  <2>4. m * Ts >= Confirm
    BY <2>1
  <2> HIDE DEF m
  <2>5. m * Ts \in Int /\ s * Ts \in Int /\ m * Ts <= s * Ts
    BY <1>1, <2>3, LaterTime
  <2> QED
    BY <1>1, <2>3, <2>4, <2>5, Sizes
<1> QED
  BY <1>2, <1>3

\* One observation more: it prolongs the rest, or ends it.
LEMMA TrailGrows ==
    ASSUME NEW h \in Seq(Observations), NEW tol, NEW s, Trail(h, tol, s),
           NEW o \in Observations
    PROVE  LET r == Append(h, o) IN
           /\ r \in Seq(Observations) /\ r # <<>> /\ Len(r) = Len(h) + 1
           /\ r[Len(r)] = o
           /\ h # <<>> => r[Len(r) - 1] = h[Len(h)]
           /\ h # <<>> /\ Held(r, tol, Len(r)) => Trail(r, tol, s + 1)
           /\ h = <<>> \/ ~Held(r, tol, Len(r)) => Trail(r, tol, 0)
<1> DEFINE n == Len(h)
           r == Append(h, o)
<1>1. /\ n \in Nat /\ s \in Nat /\ s <= n /\ (h # <<>> => s < n /\ n >= 1)
      /\ (h = <<>> => n = 0)
  BY DEF Trail
<1>2. /\ r \in Seq(Observations) /\ r # <<>> /\ Len(r) = n + 1
      /\ r[n + 1] = o /\ \A i \in 1 .. n : r[i] = h[i]
  OBVIOUS
<1> HIDE DEF n, r
<1>3. ASSUME NEW i \in 2 .. n PROVE Held(r, tol, i) <=> Held(h, tol, i)
  <2> DEFINE j == i - 1
  <2>1. i \in 1 .. n /\ j \in 1 .. n
    BY <1>1
  <2>2. Held(r, tol, i) <=> Distance(r[i].y, r[j].y) <= tol * Ts /\ r[i].at * Ts >= MinHold
    BY DEF Held
  <2>3. Held(h, tol, i) <=> Distance(h[i].y, h[j].y) <= tol * Ts /\ h[i].at * Ts >= MinHold
    BY DEF Held
  <2> HIDE DEF j
  <2> QED
    BY <1>2, <2>1, <2>2, <2>3
<1>4. ASSUME h # <<>> PROVE r[Len(r) - 1] = h[n]
  <2>1. Len(r) - 1 = n /\ n \in 1 .. n
    BY <1>1, <1>2, <1>4
  <2> QED
    BY <1>2, <2>1
<1>5. ASSUME h # <<>>, Held(r, tol, n + 1) PROVE Trail(r, tol, s + 1)
  <2>1. s + 1 \in Nat /\ s + 1 <= n + 1 /\ s + 1 < n + 1
    BY <1>1, <1>5
  <2>2. ASSUME NEW i \in (n + 1) - (s + 1) + 1 .. n + 1 PROVE Held(r, tol, i)
    <3>1. CASE i = n + 1
      BY <1>5, <3>1
    <3>2. CASE i # n + 1
      <4>1. i \in 2 .. n /\ i \in n - s + 1 .. n
        BY <1>1, <1>5, <2>2, <3>2
      <4>2. Held(h, tol, i)
        BY <4>1 DEF Trail, n
      <4> QED
        BY <1>3, <4>1, <4>2
    <3> QED
      BY <3>1, <3>2
  <2>3. ASSUME (n + 1) - (s + 1) >= 2 PROVE ~Held(r, tol, (n + 1) - (s + 1))
    <3> DEFINE i == n - s
    <3>1. (n + 1) - (s + 1) = i /\ i \in 2 .. n
      BY <1>1, <2>3
    <3>2. ~Held(h, tol, i)
      BY <3>1 DEF Trail, n
    <3> HIDE DEF i
    <3> QED
      BY <1>3, <3>1, <3>2
  <2> QED
    BY <1>2, <2>1, <2>2, <2>3 DEF Trail
<1>6. ASSUME h = <<>> \/ ~Held(r, tol, n + 1) PROVE Trail(r, tol, 0)
  <2>1. (n + 1) - 0 + 1 .. n + 1 = {} /\ (n + 1) - 0 = n + 1
    BY <1>1
  <2>2. n + 1 >= 2 => ~Held(r, tol, n + 1)
    BY <1>1, <1>6
  <2> QED
    BY <1>1, <1>2, <2>1, <2>2 DEF Trail
<1> QED
  BY <1>1, <1>2, <1>4, <1>5, <1>6 DEF n, r

LEMMA StepStepWatches ==
    ASSUME ExcitationTypes, Watching, StepStep
    PROVE  ExcitationTypes' /\ Watching' /\ gen'.kind = "step"
<1> DEFINE k == gen.k
<1>1. gen.kind = "step" /\ gen \in StepGenerators /\ heard' = heard /\ ~gen.finished
  BY KindIs DEF StepStep
<1>2. /\ gen = StepRecord(gen.tol, k, gen.settle_k, gen.prev, gen.finished, gen.settled)
      /\ gen.tol \in RateTols /\ gen.tol \in Nat /\ k \in Nat
      /\ gen.settle_k \in Nat /\ gen.prev \in Seq(Int)
      /\ gen.finished = FALSE /\ gen.settled \in BOOLEAN
  BY <1>1, StepRecordIs
<1>3. /\ samples' \in Nat /\ samples' <= MaxSamples
      /\ samples' < MaxSamples => samples < MaxSamples /\ samples' = samples + 1
  <2>1. Emit(1)
    BY DEF StepStep
  <2> QED
    BY <2>1, EmitCounts DEF ExcitationTypes
<1> DEFINE late == (k + 1) * Ts >= MaxHold
           due  == (k + 1) * Ts >= MinHold
<1>4. [gen EXCEPT !.k = @ + 1]
        = StepRecord(gen.tol, k + 1, gen.settle_k, gen.prev, FALSE, gen.settled)
  <2> DEFINE s == gen.settle_k
             p == gen.prev
             f == gen.finished
             d == gen.settled
             tol == gen.tol
  <2>1. gen = StepRecord(tol, k, s, p, f, d) /\ f = FALSE
    BY <1>2
  <2> HIDE DEF k, s, p, f, d, tol
  <2>2. [StepRecord(tol, k, s, p, f, d) EXCEPT !.k = k + 1] = StepRecord(tol, k + 1, s, p, f, d)
    BY DEF StepRecord
  <2>3. [gen EXCEPT !.k = @ + 1] = [gen EXCEPT !.k = k + 1]
    BY DEF k
  <2> QED
    BY <2>1, <2>2, <2>3 DEF s, p, d, tol
<1>5. gen' = Timed(StepRecord(gen.tol, k + 1, gen.settle_k, gen.prev, FALSE, gen.settled))
  BY <1>4 DEF StepStep
<1>6. gen' = IF gen.tol > 0
             THEN StepRecord(gen.tol, k + 1, gen.settle_k, gen.prev, late, gen.settled)
             ELSE StepRecord(gen.tol, k + 1, gen.settle_k, gen.prev, due, due)
  <2> DEFINE j == k + 1
  <2>1. j \in Nat
    BY <1>2
  <2> HIDE DEF j
  <2>2. Timed(StepRecord(gen.tol, j, gen.settle_k, gen.prev, FALSE, gen.settled))
          = IF gen.tol > 0
            THEN StepRecord(gen.tol, j, gen.settle_k, gen.prev, j * Ts >= MaxHold, gen.settled)
            ELSE StepRecord(gen.tol, j, gen.settle_k, gen.prev,
                            j * Ts >= MinHold, j * Ts >= MinHold)
    BY <1>2, <2>1, TimedIs
  <2> QED
    BY <1>5, <2>2 DEF j
<1>7. late \in BOOLEAN /\ due \in BOOLEAN /\ k + 1 \in Nat
  BY <1>2
<1> HIDE DEF late, due
<1>8. CASE gen.tol > 0
  <2>1. gen' = StepRecord(gen.tol, k + 1, gen.settle_k, gen.prev, late, gen.settled)
    BY <1>6, <1>8
  <2>2. /\ gen' \in StepGenerators /\ gen'.kind = "step" /\ gen'.tol = gen.tol
        /\ gen'.k = k + 1 /\ gen'.settle_k = gen.settle_k /\ gen'.prev = gen.prev
        /\ gen'.finished = late /\ gen'.settled = gen.settled
    BY <1>2, <1>7, <2>1 DEF StepRecord, StepGenerators
  <2>3. Watching'
    <3> SUFFICES ASSUME samples' < MaxSamples
                 PROVE  /\ gen'.k = samples'
                        /\ (gen'.k - 1) * Ts < MaxHold
                        /\ gen'.settled <=> Rested(heard', gen'.tol)
                        /\ gen'.settled => gen'.finished
                        /\ gen'.finished => gen'.settled \/ gen'.k * Ts >= MaxHold
                        /\ ~gen'.finished =>
                             /\ gen'.k * Ts < MaxHold
                             /\ IF heard' = <<>> THEN gen'.prev = <<>>
                                ELSE gen'.prev = <<heard'[Len(heard')].y>>
                             /\ Trail(heard', gen'.tol, gen'.settle_k)
      BY DEF Watching
    <3>1. /\ k = samples /\ k * Ts < MaxHold
          /\ gen.settled <=> Rested(heard, gen.tol)
          /\ gen.settled => gen.finished
          /\ IF heard = <<>> THEN gen.prev = <<>> ELSE gen.prev = <<heard[Len(heard)].y>>
          /\ Trail(heard, gen.tol, gen.settle_k)
      BY <1>1, <1>3, <1>8 DEF Watching
    <3>2. (k + 1) - 1 = k /\ (k + 1) * Ts \in Int
      <4>1. \A a, b \in Int : (a + 1) - 1 = a /\ (a + 1) * b \in Int
        OBVIOUS
      <4> QED
        BY <1>2, <4>1, Sizes
    <3>3. ~late => (k + 1) * Ts < MaxHold
      BY <3>2, Sizes DEF late
    <3>4. gen'.k = samples' /\ (gen'.k - 1) * Ts < MaxHold
      BY <1>3, <2>2, <3>1, <3>2
    <3>5. (gen'.settled <=> Rested(heard', gen'.tol)) /\ (gen'.settled => gen'.finished)
      BY <1>1, <1>2, <2>2, <3>1
    <3>6. gen'.finished => gen'.k * Ts >= MaxHold
      BY <2>2 DEF late
    <3>7. ~gen'.finished => gen'.k * Ts < MaxHold
      BY <2>2, <3>3
    <3> QED
      BY <1>1, <2>2, <3>1, <3>4, <3>5, <3>6, <3>7
  <2> QED
    BY <1>1, <1>3, <2>2, <2>3 DEF ExcitationTypes, AllGenerators
<1>9. CASE ~(gen.tol > 0)
  <2>1. gen' = StepRecord(gen.tol, k + 1, gen.settle_k, gen.prev, due, due)
    BY <1>6, <1>9
  <2>2. gen' \in StepGenerators /\ gen'.kind = "step" /\ gen'.tol = gen.tol
    BY <1>2, <1>7, <2>1 DEF StepRecord, StepGenerators
  <2>3. Watching'
    BY <1>9, <2>2 DEF Watching
  <2> QED
    BY <1>1, <1>3, <2>2, <2>3 DEF ExcitationTypes, AllGenerators
<1> QED
  BY <1>8, <1>9

\* Counting a quiet or a loud observation, before the step is over.
SettlesAt(tol, k, s, p, d, quiet) ==
    \E c \in Nat, e \in BOOLEAN, b \in BOOLEAN :
        /\ Settling(StepRecord(tol, k, s, p, FALSE, d), quiet) = StepRecord(tol, k, c, p, e, b)
        /\ c = IF quiet THEN s + 1 ELSE 0
        /\ b <=> quiet /\ c * Ts >= Confirm
        /\ e <=> b \/ k * Ts >= MaxHold

LEMMA SettlingIs ==
    ASSUME NEW tol \in RateTols, tol > 0, NEW k \in Nat, NEW s \in Nat, NEW p \in Seq(Int),
           NEW d \in BOOLEAN, NEW quiet \in BOOLEAN
    PROVE  SettlesAt(tol, k, s, p, d, quiet)
<1> DEFINE g == StepRecord(tol, k, s, p, FALSE, d)
           c == IF quiet THEN s + 1 ELSE 0
           late == k * Ts >= MaxHold
<1>1. g.settle_k = s
  BY DEF StepRecord
<1>2. PICK b \in BOOLEAN : b = (quiet /\ c * Ts >= Confirm)
  OBVIOUS
<1>3. c \in Nat /\ b \in BOOLEAN /\ late \in BOOLEAN
  BY <1>2
<1>4. (c = IF quiet THEN s + 1 ELSE 0) /\ (b <=> quiet /\ c * Ts >= Confirm)
  BY <1>2
<1>5. Settling(g, quiet) = Timed(StepRecord(tol, k, c, p, b, b))
  <2>1. Settling(g, quiet) = Timed([g EXCEPT !.settle_k = c, !.finished = b, !.settled = b])
    BY <1>1, <1>2 DEF Settling
  <2> DEFINE f == FALSE
  <2> HIDE DEF c, f
  <2>2. [StepRecord(tol, k, s, p, f, d) EXCEPT !.settle_k = c, !.finished = b, !.settled = b]
          = StepRecord(tol, k, c, p, b, b)
    <3>1. [StepRecord(tol, k, s, p, f, d) EXCEPT !.settle_k = c] = StepRecord(tol, k, c, p, f, d)
      BY DEF StepRecord
    <3>2. [StepRecord(tol, k, c, p, f, d) EXCEPT !.finished = b] = StepRecord(tol, k, c, p, b, d)
      BY DEF StepRecord
    <3>3. [StepRecord(tol, k, c, p, b, d) EXCEPT !.settled = b] = StepRecord(tol, k, c, p, b, b)
      BY DEF StepRecord
    <3>4. \A h : [h EXCEPT !.settle_k = c, !.finished = b, !.settled = b]
                   = [[[h EXCEPT !.settle_k = c] EXCEPT !.finished = b] EXCEPT !.settled = b]
      OBVIOUS
    <3> QED
      BY <3>1, <3>2, <3>3, <3>4
  <2> QED
    BY <2>1, <2>2 DEF f
<1> HIDE DEF c
<1>6. Timed(StepRecord(tol, k, c, p, b, b))
        = IF b THEN StepRecord(tol, k, c, p, b, b) ELSE StepRecord(tol, k, c, p, late, b)
  BY <1>3, TimedIs
<1> HIDE DEF g
<1>7. Settling(g, quiet)
        = IF b THEN StepRecord(tol, k, c, p, b, b) ELSE StepRecord(tol, k, c, p, late, b)
  BY <1>5, <1>6
<1> HIDE DEF late
<1>8. \E e \in BOOLEAN : /\ Settling(g, quiet) = StepRecord(tol, k, c, p, e, b)
                         /\ e <=> b \/ late
  <2>1. CASE b
    <3>1. Settling(g, quiet) = StepRecord(tol, k, c, p, b, b)
      BY <1>7, <2>1
    <3> QED
      BY <1>3, <2>1, <3>1
  <2>2. CASE ~b
    <3>1. Settling(g, quiet) = StepRecord(tol, k, c, p, late, b)
      BY <1>7, <2>2
    <3> QED
      BY <1>3, <2>2, <3>1
  <2> QED
    BY <2>1, <2>2
<1>9. PICK e \in BOOLEAN : Settling(g, quiet) = StepRecord(tol, k, c, p, e, b)
                           /\ (e <=> b \/ late)
  BY <1>8
<1> QED
  BY <1>3, <1>4, <1>9 DEF g, late, SettlesAt

\* What observe() leaves of a step: the sample, and the rest counted so far.
LEMMA ObserveIs ==
    ASSUME ExcitationTypes, NEW y \in Outputs, Observe(y)
    PROVE  \E c \in Nat, e \in BOOLEAN, b \in BOOLEAN :
             /\ gen' = StepRecord(gen.tol, gen.k, c, <<y>>, e, b)
             /\ IF gen.tol = 0 \/ gen.finished
                THEN /\ heard' = heard
                     /\ c = gen.settle_k /\ (e <=> gen.finished) /\ (b <=> gen.settled)
                ELSE /\ heard' = Append(heard, [y |-> y, at |-> samples])
                     /\ \/ /\ gen.prev = <<>>
                           /\ c = gen.settle_k /\ ~e /\ (b <=> gen.settled)
                        \/ /\ gen.prev # <<>> /\ gen.k * Ts < MinHold
                           /\ c = 0 /\ ~e /\ (b <=> gen.settled)
                        \/ /\ gen.prev # <<>> /\ ~(gen.k * Ts < MinHold)
                           /\ LET quiet == Distance(y, gen.prev[1]) <= gen.tol * Ts IN
                              /\ c = IF quiet THEN gen.settle_k + 1 ELSE 0
                              /\ b <=> quiet /\ c * Ts >= Confirm
                              /\ e <=> b \/ gen.k * Ts >= MaxHold
<1> DEFINE tol == gen.tol
           k == gen.k
           s == gen.settle_k
           p == gen.prev
           f == gen.finished
           d == gen.settled
           q == <<y>>
           quiet == Distance(y, p[1]) <= tol * Ts
<1>1. gen.kind = "step" /\ gen \in StepGenerators
  BY KindIs DEF Observe
<1>2. /\ gen = StepRecord(tol, k, s, p, f, d)
      /\ tol \in RateTols /\ tol \in Nat /\ k \in Nat /\ s \in Nat /\ p \in Seq(Int)
      /\ f \in BOOLEAN /\ d \in BOOLEAN
  BY <1>1, StepRecordIs
<1>3. q \in Seq(Int)
  BY ExcitationAssumption
<1>4. IF tol = 0 \/ f
      THEN gen' = [gen EXCEPT !.prev = q] /\ heard' = heard
      ELSE /\ heard' = Append(heard, [y |-> y, at |-> samples])
           /\ gen' = IF p = <<>> THEN [gen EXCEPT !.prev = q]
                     ELSE IF k * Ts < MinHold THEN [[gen EXCEPT !.prev = q] EXCEPT !.settle_k = 0]
                     ELSE Settling([gen EXCEPT !.prev = q], quiet)
  BY DEF Observe
<1>5. quiet \in BOOLEAN
  OBVIOUS
<1> HIDE DEF tol, k, s, p, f, d, q, quiet
<1>6. [gen EXCEPT !.prev = q] = StepRecord(tol, k, s, q, f, d)
  <2>1. [StepRecord(tol, k, s, p, f, d) EXCEPT !.prev = q] = StepRecord(tol, k, s, q, f, d)
    BY DEF StepRecord
  <2> QED
    BY <1>2, <2>1
<1>7. [StepRecord(tol, k, s, q, f, d) EXCEPT !.settle_k = 0] = StepRecord(tol, k, 0, q, f, d)
  BY DEF StepRecord
<1> SUFFICES \E c \in Nat, e \in BOOLEAN, b \in BOOLEAN :
             /\ gen' = StepRecord(tol, k, c, q, e, b)
             /\ IF tol = 0 \/ f
                THEN /\ heard' = heard
                     /\ c = s /\ (e <=> f) /\ (b <=> d)
                ELSE /\ heard' = Append(heard, [y |-> y, at |-> samples])
                     /\ \/ /\ p = <<>>
                           /\ c = s /\ ~e /\ (b <=> d)
                        \/ /\ p # <<>> /\ k * Ts < MinHold
                           /\ c = 0 /\ ~e /\ (b <=> d)
                        \/ /\ p # <<>> /\ ~(k * Ts < MinHold)
                           /\ c = IF quiet THEN s + 1 ELSE 0
                           /\ b <=> quiet /\ c * Ts >= Confirm
                           /\ e <=> b \/ k * Ts >= MaxHold
  BY DEF tol, k, s, p, f, d, q, quiet
<1>8. CASE tol = 0 \/ f
  <2>1. gen' = StepRecord(tol, k, s, q, f, d) /\ heard' = heard
    BY <1>4, <1>6, <1>8
  <2> QED
    BY <1>2, <1>8, <2>1
<1>9. CASE ~(tol = 0 \/ f) /\ p = <<>>
  <2>1. /\ gen' = StepRecord(tol, k, s, q, f, d)
        /\ heard' = Append(heard, [y |-> y, at |-> samples])
    BY <1>4, <1>6, <1>9
  <2> QED
    BY <1>2, <1>9, <2>1
<1>10. CASE ~(tol = 0 \/ f) /\ p # <<>> /\ k * Ts < MinHold
  <2>1. /\ gen' = StepRecord(tol, k, 0, q, f, d)
        /\ heard' = Append(heard, [y |-> y, at |-> samples])
    BY <1>4, <1>6, <1>7, <1>10
  <2> QED
    BY <1>2, <1>10, <2>1
<1>11. CASE ~(tol = 0 \/ f) /\ p # <<>> /\ ~(k * Ts < MinHold)
  <2>1. /\ gen' = Settling(StepRecord(tol, k, s, q, f, d), quiet)
        /\ heard' = Append(heard, [y |-> y, at |-> samples])
    BY <1>4, <1>6, <1>11
  <2>2. f = FALSE /\ tol > 0
    BY <1>2, <1>11
  <2>3. \E c \in Nat, e \in BOOLEAN, b \in BOOLEAN :
          /\ Settling(StepRecord(tol, k, s, q, FALSE, d), quiet) = StepRecord(tol, k, c, q, e, b)
          /\ c = IF quiet THEN s + 1 ELSE 0
          /\ b <=> quiet /\ c * Ts >= Confirm
          /\ e <=> b \/ k * Ts >= MaxHold
    <3>1. SettlesAt(tol, k, s, q, d, quiet)
      BY <1>2, <1>3, <1>5, <2>2, SettlingIs
    <3> QED
      BY <3>1 DEF SettlesAt
  <2> QED
    BY <1>11, <2>1, <2>2, <2>3
<1> QED
  BY <1>8, <1>9, <1>10, <1>11

\* Under observe() too, the step is over exactly when its observations rest.
LEMMA ObserveWatches ==
    ASSUME ExcitationTypes, Watching, NEW y \in Outputs, Observe(y)
    PROVE  ExcitationTypes' /\ Watching' /\ gen'.kind = "step"
<1> DEFINE tol == gen.tol
           k == gen.k
           o == [y |-> y, at |-> samples]
           h == Append(heard, o)
<1>1. /\ gen.kind = "step" /\ gen \in StepGenerators
      /\ samples' = samples /\ samples \in Nat /\ samples <= MaxSamples
      /\ heard \in Seq(Observations)
  BY KindIs DEF Observe, ExcitationTypes
<1>2. /\ tol \in RateTols /\ tol \in Nat /\ k \in Nat /\ gen.settle_k \in Nat
      /\ gen.prev \in Seq(Int) /\ gen.finished \in BOOLEAN /\ gen.settled \in BOOLEAN
  BY <1>1, StepRecordIs
<1>3. <<y>> \in Seq(Int) /\ o \in Observations /\ h \in Seq(Observations)
  <2>1. y \in Int
    BY ExcitationAssumption
  <2>2. o \in Observations
    BY <1>1, <2>1 DEF Observations
  <2> HIDE DEF o
  <2> QED
    BY <1>1, <2>1, <2>2
<1>4. PICK c \in Nat, e \in BOOLEAN, b \in BOOLEAN :
             /\ gen' = StepRecord(tol, k, c, <<y>>, e, b)
             /\ IF tol = 0 \/ gen.finished
                THEN /\ heard' = heard
                     /\ c = gen.settle_k /\ (e <=> gen.finished) /\ (b <=> gen.settled)
                ELSE /\ heard' = h
                     /\ \/ /\ gen.prev = <<>>
                           /\ c = gen.settle_k /\ ~e /\ (b <=> gen.settled)
                        \/ /\ gen.prev # <<>> /\ gen.k * Ts < MinHold
                           /\ c = 0 /\ ~e /\ (b <=> gen.settled)
                        \/ /\ gen.prev # <<>> /\ ~(gen.k * Ts < MinHold)
                           /\ LET quiet == Distance(y, gen.prev[1]) <= gen.tol * Ts IN
                              /\ c = IF quiet THEN gen.settle_k + 1 ELSE 0
                              /\ b <=> quiet /\ c * Ts >= Confirm
                              /\ e <=> b \/ gen.k * Ts >= MaxHold
  BY ObserveIs
<1> HIDE DEF tol, k, h, o
<1>5. /\ gen' \in StepGenerators /\ gen'.kind = "step" /\ gen'.tol = tol /\ gen'.k = k
      /\ gen'.settle_k = c /\ gen'.prev = <<y>> /\ gen'.finished = e /\ gen'.settled = b
  <2> DEFINE q == <<y>>
  <2>1. /\ q \in Seq(Int) /\ c \in Nat /\ e \in BOOLEAN /\ b \in BOOLEAN
        /\ gen' = StepRecord(tol, k, c, q, e, b)
    BY <1>3, <1>4
  <2> HIDE DEF q
  <2>2. /\ gen' \in StepGenerators /\ gen'.kind = "step" /\ gen'.tol = tol /\ gen'.k = k
        /\ gen'.settle_k = c /\ gen'.prev = q /\ gen'.finished = e /\ gen'.settled = b
    BY <1>2, <2>1 DEF StepRecord, StepGenerators
  <2> QED
    BY <2>2 DEF q
<1>6. ExcitationTypes'
  <2>1. heard' \in Seq(Observations)
    BY <1>1, <1>3, <1>4
  <2> QED
    BY <1>1, <1>5, <2>1 DEF ExcitationTypes, AllGenerators
<1>7. CASE tol = 0
  BY <1>5, <1>6, <1>7 DEF Watching
<1>8. CASE samples = MaxSamples
  <2>1. ~(samples' < MaxSamples)
    BY <1>1, <1>8, Sizes
  <2> QED
    BY <1>5, <1>6, <2>1 DEF Watching
<1>9. CASE tol # 0 /\ samples # MaxSamples
  <2>1. /\ k = samples /\ (k - 1) * Ts < MaxHold
        /\ gen.settled <=> Rested(heard, tol)
        /\ gen.settled => gen.finished
        /\ gen.finished => gen.settled \/ k * Ts >= MaxHold
        /\ ~gen.finished =>
             /\ k * Ts < MaxHold
             /\ IF heard = <<>> THEN gen.prev = <<>>
                                ELSE gen.prev = <<heard[Len(heard)].y>>
             /\ Trail(heard, tol, gen.settle_k)
    <3>1. tol > 0 /\ samples < MaxSamples
      BY <1>1, <1>2, <1>9, Sizes
    <3> QED
      BY <1>1, <3>1 DEF Watching, tol, k
  <2>2. CASE gen.finished
    <3>1. heard' = heard /\ (e <=> gen.finished) /\ (b <=> gen.settled)
      BY <1>4, <2>2
    <3>2. e /\ gen'.finished
      BY <1>5, <2>2, <3>1
    <3> QED
      BY <1>1, <1>5, <1>6, <2>1, <2>2, <3>1, <3>2 DEF Watching
  <2>3. CASE ~gen.finished
    <3>1. heard' = h /\ ~(tol = 0 \/ gen.finished)
      BY <1>4, <1>9, <2>3
    <3>2. ~gen.settled /\ k * Ts < MaxHold /\ Trail(heard, tol, gen.settle_k)
      BY <2>1, <2>3
    <3>3. /\ h # <<>> /\ Len(h) = Len(heard) + 1 /\ h[Len(h)] = o
          /\ heard # <<>> => h[Len(h) - 1] = heard[Len(heard)]
          /\ heard # <<>> /\ Held(h, tol, Len(h)) => Trail(h, tol, gen.settle_k + 1)
          /\ heard = <<>> \/ ~Held(h, tol, Len(h)) => Trail(h, tol, 0)
      BY <1>1, <1>3, <3>2, TrailGrows DEF h
    <3>4. o.y = y /\ o.at = k
      BY <2>1 DEF o
    <3>5. heard # <<>> => gen.prev # <<>> /\ gen.prev[1] = heard[Len(heard)].y
      <4>1. heard # <<>> => gen.prev = <<heard[Len(heard)].y>>
        BY <2>1, <2>3
      <4> QED
        BY <4>1
    <3>6. heard = <<>> => gen.prev = <<>> /\ gen.settle_k = 0
      <4>1. heard = <<>> => gen.prev = <<>>
        BY <2>1, <2>3
      <4>2. heard = <<>> => Len(heard) = 0
        OBVIOUS
      <4>3. gen.settle_k <= Len(heard)
        BY <3>2 DEF Trail
      <4> QED
        BY <1>2, <4>1, <4>2, <4>3
    <3>7. heard # <<>> =>
            (Held(h, tol, Len(h)) <=> Distance(y, gen.prev[1]) <= tol * Ts /\ k * Ts >= MinHold)
      BY <3>3, <3>4, <3>5 DEF Held
    <3>8. (k * Ts >= MinHold <=> ~(k * Ts < MinHold)) /\ (k * Ts < MaxHold => ~(k * Ts >= MaxHold))
      <4>1. k * Ts \in Int
        <5>1. \A x, z \in Nat : x * z \in Int
          OBVIOUS
        <5> QED
          BY <1>2, <5>1, Sizes
      <4> QED
        BY <4>1, Sizes
    <3>9. Trail(h, tol, c) /\ ~(e /\ ~b) /\ (b => e) /\ (b <=> c >= 1 /\ c * Ts >= Confirm)
      <4> DEFINE quiet == Distance(y, gen.prev[1]) <= tol * Ts
      <4>1. CASE heard = <<>>
        <5>1. c = 0 /\ ~e /\ ~b
          BY <1>4, <3>1, <3>2, <3>6, <4>1 DEF tol, k
        <5> QED
          BY <3>3, <4>1, <5>1
      <4>2. CASE heard # <<>> /\ k * Ts < MinHold
        <5>1. c = 0 /\ ~e /\ ~b
          BY <1>4, <3>1, <3>2, <3>5, <4>2 DEF tol, k
        <5> QED
          BY <3>3, <3>7, <3>8, <4>2, <5>1
      <4>3. CASE heard # <<>> /\ ~(k * Ts < MinHold)
        <5>1. /\ c = IF quiet THEN gen.settle_k + 1 ELSE 0
              /\ b <=> quiet /\ c * Ts >= Confirm
              /\ e <=> b \/ k * Ts >= MaxHold
          BY <1>4, <3>1, <3>5, <4>3 DEF tol, k
        <5>2. e <=> b
          BY <3>2, <3>8, <5>1
        <5>3. Held(h, tol, Len(h)) <=> quiet
          BY <3>7, <3>8, <4>3
        <5> HIDE DEF quiet
        <5>4. CASE quiet
          BY <1>2, <3>3, <4>3, <5>1, <5>2, <5>3, <5>4
        <5>5. CASE ~quiet
          <6>1. c = 0 /\ ~b
            BY <5>1, <5>5
          <6> QED
            BY <3>3, <5>2, <5>3, <5>5, <6>1
        <5> QED
          BY <5>4, <5>5
      <4> QED
        BY <4>1, <4>2, <4>3
    <3>10. b <=> Rested(h, tol)
      BY <1>3, <3>9, RestedIs
    <3>11. <<y>> = <<h[Len(h)].y>>
      BY <3>3, <3>4
    <3>12. Watching'
      BY <1>1, <1>5, <2>1, <3>1, <3>2, <3>3, <3>9, <3>10, <3>11 DEF Watching
    <3> QED
      BY <1>5, <1>6, <3>12
  <2> QED
    BY <2>2, <2>3
<1> QED
  BY <1>7, <1>8, <1>9

-----------------------------------------------------------------------------
(* The whole of excitation/, and the two properties.                       *)

\* Every kind keeps its own schedule, and a watching step its account of the plant.
ExcitationInv ==
    /\ ExcitationTypes
    /\ ChipsOnTime
    /\ TonesOnTime
    /\ PhasesOnTime
    /\ Watching

\* A generator as it is constructed, or reset.
FreshGenerators ==
    {Prbs(o, s) : o \in Orders, s \in SUBSET Nat}
    \cup {SingleStep(tol) : tol \in RateTols}
    \cup {Counting(k) : k \in {"train", "impulse", "chirp"}}
    \cup {Slewing(target) : target \in Targets}
    \cup {Sine, MultiSine}

Restarted == gen \in FreshGenerators /\ samples = 0 /\ heard = <<>>

LEMMA RestartedInv == Restarted => ExcitationInv
<1> SUFFICES ASSUME Restarted PROVE ExcitationInv
  OBVIOUS
<1>1. gen \in FreshGenerators /\ samples = 0 /\ heard = <<>>
  BY DEF Restarted
<1>2. samples \in Nat /\ samples <= MaxSamples /\ heard \in Seq(Observations)
  BY <1>1, Sizes
<1>3. CASE \E o \in Orders, s \in SUBSET Nat : gen = Prbs(o, s)
  <2>1. PICK o \in Orders, s \in SUBSET Nat : gen = Prbs(o, s)
    BY <1>3
  <2>2. gen \in PrbsGenerators /\ gen.elapsed = 0 /\ gen.chips = 0 /\ gen.kind = "prbs"
    BY <2>1, FreshPrbs
  <2>3. 0 < Clock /\ 0 + 0 * Clock = 0 * Ts
    BY Sizes
  <2> QED
    BY <1>1, <1>2, <2>2, <2>3
    DEF ExcitationInv, ExcitationTypes, AllGenerators, ChipsOnTime, TonesOnTime,
        PhasesOnTime, Watching
<1>4. CASE \E tol \in RateTols : gen = SingleStep(tol)
  <2>1. PICK tol \in RateTols : gen = SingleStep(tol)
    BY <1>4
  <2>2. gen \in StepGenerators
    BY <2>1, FreshStep
  <2>3. /\ gen.kind = "step" /\ gen.tol = tol /\ gen.k = 0 /\ gen.settle_k = 0
        /\ gen.prev = <<>> /\ gen.finished = FALSE /\ gen.settled = FALSE
    BY <2>1 DEF SingleStep
  <2>4. (0 - 1) * Ts < MaxHold /\ 0 * Ts < MaxHold
    BY Sizes
  <2>5. Len(heard) = 0
    BY <1>1
  <2>6. ~Rested(heard, gen.tol)
    BY <2>5 DEF Rested
  <2>7. Trail(heard, gen.tol, 0)
    BY <1>1, <2>5 DEF Trail
  <2> QED
    BY <1>1, <1>2, <2>2, <2>3, <2>4, <2>6, <2>7
    DEF ExcitationInv, ExcitationTypes, AllGenerators, ChipsOnTime, TonesOnTime,
        PhasesOnTime, Watching
<1>5. CASE \/ \E k \in {"train", "impulse", "chirp"} : gen = Counting(k)
           \/ \E target \in Targets : gen = Slewing(target)
  <2>1. gen \in OtherGenerators
    BY <1>5 DEF Counting, Slewing, OtherGenerators
  <2>2. gen.kind \notin {"prbs", "step", "sine", "multi"}
    BY <1>5 DEF Counting, Slewing
  <2> QED
    BY <1>2, <2>1, <2>2
    DEF ExcitationInv, ExcitationTypes, AllGenerators, ChipsOnTime, TonesOnTime,
        PhasesOnTime, Watching
<1>6. CASE gen = Sine
  <2>1. gen \in SineGenerators
    BY <1>6, FreshSine
  <2>2. gen.kind = "sine" /\ gen.index = 1 /\ gen.k = 0
    BY <1>6 DEF Sine
  <2>3. SumTo(Dwells)[1 - 1] = 0
    BY DwellsSum
  <2>4. Freqs[1] * 0 * Ts < CyclesPerFreq * Turn
    <3>1. Freqs[1] \in Nat
      BY FreqsArePositive
    <3>2. \A x, y \in Nat : x * 0 * y = 0
      OBVIOUS
    <3>3. \A x, y \in Nat : x > 0 /\ y > 0 => 0 < x * y
      OBVIOUS
    <3> QED
      BY <3>1, <3>2, <3>3, Sizes
  <2>5. SumTo(Dwells)[gen.index - 1] + gen.k = 0
    BY <2>2, <2>3
  <2> QED
    BY <1>1, <1>2, <2>1, <2>2, <2>4, <2>5
    DEF ExcitationInv, ExcitationTypes, AllGenerators, ChipsOnTime, TonesOnTime,
        PhasesOnTime, Watching
<1>7. CASE gen = MultiSine
  <2>1. gen \in MultiGenerators
    BY <1>7, FreshMulti
  <2>2. gen.kind = "multi" /\ \A i \in DOMAIN Tones : gen.phases[i] = Wrapped(Tones[i].phase)
    BY <1>7 DEF MultiSine
  <2>3. ASSUME NEW i \in DOMAIN Tones
        PROVE  \E q \in Int : gen.phases[i]
                                = Tones[i].phase + samples * Ts * Tones[i].f + q * Turn
    <3> DEFINE p == Tones[i].phase
               f == Tones[i].f
    <3>1. p \in Int /\ f \in Nat
      BY TonesAre
    <3> HIDE DEF p, f
    <3>2. PICK q \in Int : Wrapped(p) = p + q * Turn
      BY <3>1, WrappedTurns
    <3>3. 0 * Ts * f = 0
      <4>1. \A x, y \in Nat : 0 * x * y = 0
        OBVIOUS
      <4> QED
        BY <3>1, <4>1, Sizes
    <3>4. \A x, y \in Int : x + y = (x + 0) + y
      OBVIOUS
    <3>5. q * Turn \in Int
      BY Sizes
    <3>6. Wrapped(p) = p + samples * Ts * f + q * Turn
      BY <1>1, <3>1, <3>2, <3>3, <3>4, <3>5
    <3> QED
      BY <2>2, <3>6 DEF p, f
  <2> QED
    BY <1>2, <2>1, <2>2, <2>3
    DEF ExcitationInv, ExcitationTypes, AllGenerators, ChipsOnTime, TonesOnTime,
        PhasesOnTime, Watching
<1> QED
  BY <1>1, <1>3, <1>4, <1>5, <1>6, <1>7 DEF FreshGenerators

LEMMA ExcitationInitInv == ExcitationInit => ExcitationInv
<1>1. ExcitationInit => Restarted
  <2>1. Seeds \subseteq SUBSET Nat
    BY ExcitationAssumption
  <2> QED
    BY <2>1 DEF ExcitationInit, Restarted, Generators, FreshGenerators
<1> QED
  BY <1>1, RestartedInv

\* reset() constructs the generator again.
LEMMA ResetRestarts ==
    ASSUME ExcitationTypes, GeneratorReset
    PROVE  Restarted'
<1>1. gen' \in FreshGenerators
  <2>1. CASE gen \in PrbsGenerators
    <3>1. gen.kind = "prbs" /\ gen.order \in Orders /\ gen.seed \in SUBSET Nat
      BY <2>1 DEF PrbsGenerators
    <3> QED
      BY <3>1 DEF GeneratorReset, Fresh, FreshGenerators
  <2>2. CASE gen \in StepGenerators
    <3>1. gen.kind = "step" /\ gen.tol \in RateTols
      BY <2>2 DEF StepGenerators
    <3> QED
      BY <3>1 DEF GeneratorReset, Fresh, FreshGenerators
  <2>3. CASE gen \in SineGenerators
    <3>1. gen.kind = "sine"
      BY <2>3 DEF SineGenerators
    <3> QED
      BY <3>1 DEF GeneratorReset, Fresh, FreshGenerators
  <2>4. CASE gen \in MultiGenerators
    <3>1. gen.kind = "multi"
      BY <2>4 DEF MultiGenerators
    <3> QED
      BY <3>1 DEF GeneratorReset, Fresh, FreshGenerators
  <2>5. CASE gen \in [kind : {"ramp"}, target : Targets, k : Nat]
    <3>1. gen.kind = "ramp" /\ gen.target \in Targets
      BY <2>5
    <3> QED
      BY <3>1 DEF GeneratorReset, Fresh, FreshGenerators
  <2>6. CASE gen \in [kind : {"train", "impulse", "chirp"}, k : Nat]
    <3>1. gen.kind \in {"train", "impulse", "chirp"}
      BY <2>6
    <3>2. gen' = Counting(gen.kind)
      BY <3>1 DEF GeneratorReset, Fresh
    <3> QED
      BY <3>1, <3>2 DEF FreshGenerators
  <2> QED
    BY <2>1, <2>2, <2>3, <2>4, <2>5, <2>6
    DEF ExcitationTypes, AllGenerators, OtherGenerators
<1> QED
  BY <1>1 DEF GeneratorReset, Restarted

\* The generators whose only state is a count of samples.
LEMMA CountingInv ==
    ASSUME ExcitationTypes, TrainStep \/ RampStep \/ ImpulseStep \/ ChirpStep
    PROVE  ExcitationInv'
<1>1. /\ gen.kind \notin {"prbs", "step", "sine", "multi"} /\ gen \in OtherGenerators
      /\ heard' = heard /\ gen' = [gen EXCEPT !.k = @ + 1]
  BY KindIs DEF TrainStep, RampStep, ImpulseStep, ChirpStep
<1>2. samples' \in Nat /\ samples' <= MaxSamples
  <2>1. \E v : Emit(v)
    BY DEF TrainStep, RampStep, ImpulseStep, ChirpStep
  <2> QED
    BY <2>1, EmitCounts DEF ExcitationTypes
<1>3. gen' \in OtherGenerators /\ gen'.kind = gen.kind
  BY <1>1 DEF OtherGenerators
<1> QED
  BY <1>1, <1>2, <1>3
  DEF ExcitationInv, ExcitationTypes, AllGenerators, ChipsOnTime, TonesOnTime,
      PhasesOnTime, Watching

\* What a generator of one kind does leaves the schedules of the others alone.
LEMMA ExcitationStepInv == ExcitationInv /\ [ExcitationNext]_excitationVars => ExcitationInv'
<1> SUFFICES ASSUME ExcitationInv, [ExcitationNext]_excitationVars
             PROVE  ExcitationInv'
  OBVIOUS
<1> USE DEF ExcitationInv
<1>1. CASE PrbsStep
  BY <1>1, PrbsStepTime DEF TonesOnTime, PhasesOnTime, Watching
<1>2. CASE StepStep
  BY <1>2, StepStepWatches DEF ChipsOnTime, TonesOnTime, PhasesOnTime
<1>3. CASE TrainStep \/ RampStep \/ ImpulseStep \/ ChirpStep
  BY <1>3, CountingInv
<1>4. CASE SineStep
  BY <1>4, SineStepTime DEF ChipsOnTime, PhasesOnTime, Watching
<1>5. CASE MultiStep
  BY <1>5, MultiStepTime DEF ChipsOnTime, TonesOnTime, Watching
<1>6. CASE StepDone \/ UNCHANGED excitationVars
  BY <1>6 DEF StepDone, excitationVars, ExcitationTypes, ChipsOnTime, TonesOnTime,
              PhasesOnTime, Watching
<1>7. ASSUME NEW y \in Outputs, Observe(y) PROVE ExcitationInv'
  BY <1>7, ObserveWatches DEF ChipsOnTime, TonesOnTime, PhasesOnTime
<1>8. CASE GeneratorReset
  BY <1>8, ResetRestarts, RestartedInv, PTL
<1> QED
  BY <1>1, <1>2, <1>3, <1>4, <1>5, <1>6, <1>7, <1>8 DEF ExcitationNext, Step

LEMMA ExcitationInductive == ExcitationSpec => []ExcitationInv
  BY ExcitationInitInv, ExcitationStepInv, PTL DEF ExcitationSpec

\* The chips of a PRBS, the tone of a stepped sine and the phases of a multisine are
\* those of the time since the reset, for any sample period, clock, tones and resets:
\* no sample falls into the wrong chip or tone, and no phase drifts by wrapping.
THEOREM SchedulesAreKept == ExcitationSpec => []ScheduleKept
<1>1. ExcitationInv => ScheduleKept
  <2> SUFFICES ASSUME ExcitationInv, samples < MaxSamples PROVE ScheduleKept
    BY DEF ScheduleKept
  <2>1. ASSUME gen.kind = "prbs" PROVE gen.chips = (samples * Ts) \div Clock
    <3> DEFINE e == gen.elapsed
               c == gen.chips
               a == samples * Ts
    <3>1. gen \in PrbsGenerators /\ samples \in Nat
      BY <2>1, KindIs DEF ExcitationInv, ExcitationTypes
    <3>2. e \in Nat /\ c \in Nat /\ e < Clock /\ e + c * Clock = a
      BY <2>1, <3>1 DEF PrbsGenerators, ExcitationInv, ChipsOnTime
    <3>3. a \in Int
      <4>1. \A x, y \in Nat : x * y \in Int
        OBVIOUS
      <4> QED
        BY <3>1, <4>1, Sizes
    <3> HIDE DEF e, c, a
    <3>4. c * Clock \in Int
      <4>1. \A x, y \in Nat : x * y \in Int
        OBVIOUS
      <4> QED
        BY <3>2, <4>1, Sizes
    <3>5. c * Clock <= a /\ a < c * Clock + Clock
      BY <3>2, <3>3, <3>4, Sizes
    <3>6. a \div Clock = c
      BY <3>2, <3>3, <3>5, Sizes, QuotientIs
    <3> QED
      BY <3>6 DEF a, c
  <2>2. ASSUME gen.kind = "sine" PROVE samples = SumTo(Dwells)[gen.index - 1] + gen.k
    BY <2>2 DEF ExcitationInv, TonesOnTime
  <2>3. ASSUME gen.kind = "multi", NEW i \in DOMAIN Tones
        PROVE  (gen.phases[i] - Tones[i].phase - samples * Ts * Tones[i].f) % Turn = 0
    <3> DEFINE p == Tones[i].phase
               t == samples * Ts * Tones[i].f
               x == gen.phases[i]
    <3>1. gen \in MultiGenerators /\ samples \in Nat
      BY <2>3, KindIs DEF ExcitationInv, ExcitationTypes
    <3>2. p \in Int /\ x \in Int /\ t \in Int
      <4>1. \A a, b, c \in Nat : a * b * c \in Int
        OBVIOUS
      <4> QED
        BY <2>3, <3>1, <4>1, TonesAre, Sizes DEF MultiGenerators
    <3>3. PICK q \in Int : x = p + t + q * Turn
      BY <2>3 DEF ExcitationInv, PhasesOnTime
    <3> HIDE DEF p, t, x
    <3>4. q * Turn \in Int /\ q * Turn = Turn * q + 0
      <4>1. \A a, b \in Int : a * b \in Int /\ a * b = b * a + 0
        OBVIOUS
      <4> QED
        BY <4>1, Sizes
    <3>5. x - p - t = Turn * q + 0
      <4>1. x - p - t = q * Turn
        BY <3>2, <3>3, <3>4
      <4> QED
        BY <3>4, <4>1
    <3>6. (Turn * q + 0) % Turn = 0
      BY Sizes, Unique
    <3>7. (x - p - t) % Turn = 0
      BY <3>5, <3>6
    <3> QED
      BY <3>7 DEF x, p, t
  <2> QED
    BY <2>1, <2>2, <2>3 DEF ScheduleKept
<1> QED
  BY <1>1, ExcitationInductive, PTL

\* A watching step is settled exactly when the plant has been quiet through the
\* confirmation time, after the minimum hold, and is over by the maximum hold at the
\* latest: for any holds, tolerances, answers of the plant and order of the calls.
THEOREM SettlingIsReal == ExcitationSpec => []SettleIsReal
<1>1. ExcitationInv => SettleIsReal
  <2> SUFFICES ASSUME ExcitationInv, gen.kind = "step", gen.tol > 0, samples < MaxSamples
               PROVE  SettleIsReal
    BY DEF SettleIsReal
  <2>1. \A i : Held(heard, gen.tol, i) <=> Quiet(i) /\ heard[i].at * Ts >= MinHold
    BY DEF Held, Quiet
  <2>2. Rested(heard, gen.tol) <=>
          \E first \in 2 .. Len(heard) :
             /\ \A i \in first .. Len(heard) : Quiet(i) /\ heard[i].at * Ts >= MinHold
             /\ (Len(heard) - first + 1) * Ts >= Confirm
    BY <2>1 DEF Rested
  <2> QED
    BY <2>2 DEF SettleIsReal, ExcitationInv, Watching
<1> QED
  BY <1>1, ExcitationInductive, PTL

-----------------------------------------------------------------------------
(* How much of its run a generator has before it.                          *)

\* What a tone of a stepped sine turns through.
ToneTurns == CyclesPerFreq * Turn

\* How long a step may be held.
HoldLimit == IF gen.tol > 0 THEN MaxHold ELSE MinHold

\* A generator that is not done has something left: of its chip, its hold or its tone.
StillGoing ==
    /\ gen.kind = "prbs" => gen.elapsed < Clock
    /\ gen.kind = "step" /\ ~gen.finished => gen.k * Ts < HoldLimit
    /\ gen.kind = "sine" /\ ~gen.finished => Freqs[gen.index] * gen.k * Ts < ToneTurns

\* What is left of the run, in the unit of its kind: ticks, samples, the height and
\* hold of a ramp, or what its tones have yet to turn through.
Ahead ==
    CASE gen.kind = "prbs"    -> (Period(gen.order) - gen.chips) * Clock - gen.elapsed
      [] gen.kind = "step"    -> HoldLimit - gen.k * Ts
      [] gen.kind = "train"   -> 2 * Cycles * Hold - Time
      [] gen.kind = "ramp"    -> (Magnitude(gen) + HoldAtEnd * Rate) - Time * Rate
      [] gen.kind = "impulse" -> Width - gen.k
      [] gen.kind = "chirp"   -> Duration - Time
      [] OTHER                -> (Len(Freqs) - gen.index) * ToneTurns
                                   + (ToneTurns - Freqs[gen.index] * gen.k * Ts)

RunLeft == IF Done THEN 0 ELSE Ahead

Products == \A a, b, c \in Int : a * b \in Int /\ a * b * c \in Int

LEMMA ProductsAre == Products
BY DEF Products

LEMMA MoreSizes ==
    /\ Hold \in Nat /\ Cycles \in Nat /\ Rate \in Nat /\ Rate > 0 /\ Width \in Nat
    /\ Duration \in Nat /\ HoldAtEnd \in Nat /\ ToneTurns \in Nat /\ ToneTurns > 0
<1>1. /\ {Ts, Clock, MinHold, MaxHold, Hold, Cycles, Rate, Width, Turn, Duration}
           \subseteq Nat \ {0}
      /\ {Confirm, HoldAtEnd, MaxSamples} \subseteq Nat
  BY ExcitationAssumption
<1>2. \A a, b \in Nat : a > 0 /\ b > 0 => a * b \in Nat /\ a * b > 0
  OBVIOUS
<1> QED
  BY <1>1, <1>2, Sizes DEF ToneTurns

LEMMA PeriodIs ==
    ASSUME NEW o \in Orders
    PROVE  Period(o) \in Int
<1>1. o \in Nat
  BY ExcitationAssumption
<1>2. 2 ^ o \in Int
  BY <1>1
<1> QED
  BY <1>2 DEF Period

\* What is left is positive as long as the generator is not done.
LEMMA AheadIs ==
    ASSUME ExcitationTypes, StillGoing, ~Done, gen.kind # "multi"
    PROVE  Ahead \in Nat /\ Ahead # 0
<1>1. CASE gen.kind = "prbs"
  <2> DEFINE e == gen.elapsed
             c == gen.chips
             n == Period(gen.order)
  <2>1. e \in Nat /\ c \in Nat /\ gen.order \in Orders /\ e < Clock
    BY <1>1, KindIs DEF PrbsGenerators, StillGoing
  <2>2. n \in Int
    BY <2>1, PeriodIs
  <2>3. c < n
    BY <1>1, <2>1, <2>2 DEF Done
  <2>4. Ahead = (n - c) * Clock - e
    BY <1>1 DEF Ahead
  <2> DEFINE d == n - c
  <2>5. d \in Int /\ 0 < d
    BY <2>1, <2>2, <2>3
  <2> HIDE DEF e, c, n, d
  <2>6. d * Clock \in Int /\ 0 * Clock + Clock <= d * Clock
    BY <2>5, Spaced, Sizes
  <2> DEFINE p == d * Clock
  <2>7. p \in Int /\ Clock <= p
    BY <2>6, Sizes
  <2>8. Ahead = p - e
    BY <2>4 DEF d
  <2> HIDE DEF p
  <2> QED
    BY <2>1, <2>7, <2>8, Sizes
<1>2. CASE gen.kind = "step"
  <2>1. gen.k \in Nat /\ gen.finished \in BOOLEAN /\ HoldLimit \in Nat
    BY <1>2, KindIs, Sizes DEF StepGenerators, HoldLimit
  <2>2. gen.k * Ts < HoldLimit
    BY <1>2 DEF Done, StillGoing
  <2>3. gen.k * Ts \in Int
    BY <2>1, ProductsAre, Sizes DEF Products
  <2> QED
    BY <1>2, <2>1, <2>2, <2>3 DEF Ahead
<1>3. CASE gen.kind = "sine"
  <2> DEFINE j == Len(Freqs) - gen.index
             p == j * ToneTurns
             q == Freqs[gen.index] * gen.k * Ts
  <2>1. gen.k \in Nat /\ gen.index \in 1 .. Len(Freqs) /\ Len(Freqs) \in Nat
    BY <1>3, KindIs, FreqsArePositive DEF SineGenerators
  <2>2. j \in Nat /\ Freqs[gen.index] \in Nat
    BY <2>1, FreqsArePositive
  <2>3. q < ToneTurns
    BY <1>3 DEF Done, StillGoing
  <2>4. q \in Int
    BY <2>1, <2>2, ProductsAre, Sizes DEF Products
  <2> HIDE DEF j
  <2>5. p \in Nat
    BY <2>2, MoreSizes
  <2>6. Ahead = p + (ToneTurns - q)
    BY <1>3 DEF Ahead, j
  <2> HIDE DEF p, q
  <2> QED
    BY <2>3, <2>4, <2>5, <2>6, MoreSizes
<1>4. CASE gen.kind \in {"train", "impulse", "chirp", "ramp"}
  <2>1. gen.k \in Nat /\ (gen.kind = "ramp" => gen.target \in Int)
    BY <1>4, KindIs, ExcitationAssumption DEF OtherGenerators
  <2>2. Time \in Int /\ Time * Rate \in Int /\ HoldAtEnd * Rate \in Int /\ 2 * Cycles * Hold \in Int
    <3>1. Time \in Int
      BY <2>1, ProductsAre, Sizes DEF Time, Products
    <3> QED
      BY <3>1, ProductsAre, MoreSizes DEF Products
  <2>3. gen.kind = "ramp" => Magnitude(gen) \in Int
    BY <2>1 DEF Magnitude, Distance
  <2>4. CASE gen.kind = "train"
    BY <2>2, <2>4 DEF Done, Ahead
  <2>5. CASE gen.kind = "ramp"
    BY <2>2, <2>3, <2>5 DEF Done, Ahead
  <2>6. CASE gen.kind = "impulse"
    BY <2>1, <2>6, MoreSizes DEF Done, Ahead
  <2>7. CASE gen.kind = "chirp"
    BY <2>2, <2>7, MoreSizes DEF Done, Ahead
  <2> QED
    BY <1>4, <2>4, <2>5, <2>6, <2>7
<1> QED
  BY <1>1, <1>2, <1>3, <1>4
  DEF ExcitationTypes, AllGenerators, PrbsGenerators, StepGenerators, SineGenerators,
      MultiGenerators, OtherGenerators

\* A chip is used up by the clock.
LEMMA PrbsUsesUp ==
    ASSUME ExcitationTypes, StillGoing, PrbsStep
    PROVE  StillGoing' /\ gen'.kind = "prbs" /\ Ahead' < Ahead
<1> DEFINE e == gen.elapsed
           c == gen.chips
           n == Period(gen.order)
           time == e + Ts
<1>1. /\ gen \in PrbsGenerators /\ gen.kind = "prbs" /\ e \in Nat /\ c \in Nat
      /\ gen.order \in Orders /\ e < Clock
  BY KindIs DEF PrbsStep, PrbsGenerators, StillGoing
<1>2. n \in Int
  BY <1>1, PeriodIs
<1>3. Ahead = (n - c) * Clock - e
  BY <1>1 DEF Ahead
<1> DEFINE d == n - c
           p == d * Clock
<1>4. d \in Int /\ p \in Int /\ (d - 1) * Clock = p - Clock
  BY <1>1, <1>2, Sizes
<1>5. CASE time >= Clock
  <2>1. gen' = [gen EXCEPT !.elapsed = time - Clock, !.chips = @ + 1,
                           !.state = Advanced(@, gen.order)]
    BY <1>5 DEF PrbsStep
  <2> DEFINE a == Advanced(gen.state, gen.order)
             l == time - Clock
  <2> HIDE DEF a, l
  <2>2. /\ gen'.elapsed = l /\ gen'.chips = c + 1 /\ gen'.kind = "prbs"
        /\ gen'.order = gen.order
    BY <1>1, <2>1 DEF PrbsGenerators, a, l
  <2>3. Ahead' = (n - (c + 1)) * Clock - l
    BY <2>2 DEF Ahead
  <2>4. n - (c + 1) = d - 1
    BY <1>1, <1>2
  <2>5. Ahead' = (p - Clock) - l /\ Ahead = p - e
    BY <1>3, <1>4, <2>3, <2>4
  <2>6. l \in Int /\ l = (e + Ts) - Clock /\ l < Clock
    BY <1>1, Sizes DEF l
  <2> HIDE DEF p, d, n, c, e
  <2>7. Ahead' < Ahead
    <3>1. e \in Int
      BY <1>1
    <3> QED
      BY <1>4, <2>5, <2>6, <3>1, Sizes
  <2> QED
    BY <2>2, <2>6, <2>7 DEF StillGoing
<1>6. CASE ~(time >= Clock)
  <2>1. gen' = [gen EXCEPT !.elapsed = time]
    BY <1>6 DEF PrbsStep
  <2> HIDE DEF time
  <2>2. /\ gen'.elapsed = time /\ gen'.chips = c /\ gen'.kind = "prbs"
        /\ gen'.order = gen.order
    BY <1>1, <2>1 DEF PrbsGenerators
  <2>3. Ahead' = p - time /\ Ahead = p - e
    BY <1>3, <2>2 DEF Ahead
  <2>4. time \in Int /\ time = e + Ts /\ time < Clock
    BY <1>1, <1>6, Sizes DEF time
  <2> HIDE DEF p, e
  <2>5. Ahead' < Ahead
    BY <1>1, <1>4, <2>3, <2>4, Sizes DEF e
  <2> QED
    BY <2>2, <2>4, <2>5 DEF StillGoing
<1> QED
  BY <1>5, <1>6

\* A hold is used up by the samples.
LEMMA HoldUsesUp ==
    ASSUME ExcitationTypes, StillGoing, StepStep
    PROVE  StillGoing' /\ gen'.kind = "step" /\ Ahead' < Ahead
<1> DEFINE k == gen.k
           j == k + 1
<1>1. gen.kind = "step" /\ gen \in StepGenerators /\ ~gen.finished
  BY KindIs DEF StepStep
<1>2. /\ gen = StepRecord(gen.tol, k, gen.settle_k, gen.prev, gen.finished, gen.settled)
      /\ gen.tol \in RateTols /\ gen.tol \in Nat /\ k \in Nat
      /\ gen.settle_k \in Nat /\ gen.prev \in Seq(Int)
      /\ gen.finished = FALSE /\ gen.settled \in BOOLEAN
  BY <1>1, StepRecordIs
<1>3. [gen EXCEPT !.k = @ + 1]
        = StepRecord(gen.tol, j, gen.settle_k, gen.prev, FALSE, gen.settled)
  <2> DEFINE s == gen.settle_k
             p == gen.prev
             f == gen.finished
             d == gen.settled
             tol == gen.tol
  <2>1. gen = StepRecord(tol, k, s, p, f, d) /\ f = FALSE
    BY <1>2
  <2> HIDE DEF k, s, p, f, d, tol
  <2>2. [StepRecord(tol, k, s, p, f, d) EXCEPT !.k = k + 1] = StepRecord(tol, k + 1, s, p, f, d)
    BY DEF StepRecord
  <2>3. [gen EXCEPT !.k = @ + 1] = [gen EXCEPT !.k = k + 1]
    BY DEF k
  <2> QED
    BY <2>1, <2>2, <2>3 DEF s, p, d, tol
<1>4. gen' = Timed(StepRecord(gen.tol, j, gen.settle_k, gen.prev, FALSE, gen.settled))
  BY <1>3 DEF StepStep
<1>5. j \in Nat /\ j = k + 1
  BY <1>2
<1> HIDE DEF j
<1>6. gen' = IF gen.tol > 0
             THEN StepRecord(gen.tol, j, gen.settle_k, gen.prev, j * Ts >= MaxHold, gen.settled)
             ELSE StepRecord(gen.tol, j, gen.settle_k, gen.prev,
                             j * Ts >= MinHold, j * Ts >= MinHold)
  <2>1. j \in Nat
    BY <1>5
  <2>2. Timed(StepRecord(gen.tol, j, gen.settle_k, gen.prev, FALSE, gen.settled))
          = IF gen.tol > 0
            THEN StepRecord(gen.tol, j, gen.settle_k, gen.prev, j * Ts >= MaxHold, gen.settled)
            ELSE StepRecord(gen.tol, j, gen.settle_k, gen.prev,
                            j * Ts >= MinHold, j * Ts >= MinHold)
    BY <1>2, <2>1, TimedIs
  <2> QED
    BY <1>4, <2>2
<1>7. /\ gen'.kind = "step" /\ gen'.tol = gen.tol /\ gen'.k = j
      /\ gen'.finished <=> j * Ts >= HoldLimit
  BY <1>2, <1>6 DEF StepRecord, HoldLimit
<1>8. HoldLimit' = HoldLimit /\ HoldLimit \in Nat
  BY <1>7, Sizes DEF HoldLimit
<1>9. Ahead' = HoldLimit - j * Ts /\ Ahead = HoldLimit - k * Ts
  BY <1>1, <1>7, <1>8 DEF Ahead
<1>10. j * Ts \in Int /\ k * Ts \in Int /\ k * Ts + Ts <= j * Ts
  BY <1>2, <1>5, Sizes, Spaced
<1>11. ~gen'.finished => gen'.k * Ts < HoldLimit'
  BY <1>7, <1>8, <1>10
<1> QED
  BY <1>7, <1>8, <1>9, <1>10, <1>11, Sizes DEF StillGoing

\* What an observation leaves of a hold.
LEMMA ObserveUsesUp ==
    ASSUME ExcitationTypes, StillGoing, NEW y \in Outputs, Observe(y)
    PROVE  StillGoing' /\ gen'.kind = "step" /\ Ahead' = Ahead /\ (Done => Done')
<1>1. gen.kind = "step" /\ gen \in StepGenerators
  BY KindIs DEF Observe
<1>2. gen.tol \in Nat /\ gen.k \in Nat /\ gen.finished \in BOOLEAN
  BY <1>1, StepRecordIs
<1>3. PICK c \in Nat, e \in BOOLEAN, b \in BOOLEAN :
        /\ gen' = StepRecord(gen.tol, gen.k, c, <<y>>, e, b)
        /\ gen.finished => e
  BY ObserveIs
<1>4. /\ gen'.kind = "step" /\ gen'.tol = gen.tol /\ gen'.k = gen.k
      /\ gen.finished => gen'.finished
  BY <1>3 DEF StepRecord
<1>5. HoldLimit' = HoldLimit
  BY <1>4 DEF HoldLimit
<1>6. ~gen'.finished => gen'.k * Ts < HoldLimit'
  BY <1>1, <1>4, <1>5 DEF StillGoing
<1> QED
  BY <1>1, <1>4, <1>5, <1>6 DEF StillGoing, Ahead, Done

\* A tone turns on with every sample, and the next tone has all its turns to go.
LEMMA ToneUsesUp ==
    ASSUME ExcitationTypes, StillGoing, SineStep
    PROVE  StillGoing' /\ gen'.kind = "sine" /\ (Done' \/ Ahead' < Ahead)
<1> DEFINE i == gen.index
           k == gen.k
           g == [gen EXCEPT !.k = @ + 1]
           f == Freqs[i]
           q == f * k * Ts
           r == f * (k + 1) * Ts
           goal == ToneTurns
           p == (Len(Freqs) - i) * goal
<1>1. gen.kind = "sine" /\ gen \in SineGenerators /\ ~gen.finished
  BY KindIs DEF SineStep
<1>2. i \in 1 .. Len(Freqs) /\ k \in Nat /\ Len(Freqs) \in Nat
  BY <1>1, FreqsArePositive DEF SineGenerators
<1>3. /\ g.index = i /\ g.k = k + 1 /\ g.finished = FALSE /\ g.kind = "sine"
      /\ g \in SineGenerators
  BY <1>1, <1>2 DEF SineGenerators
<1>4. gen' = IF r >= goal THEN NextTone(g) ELSE g
  BY <1>3 DEF SineStep, ToneTurns
<1>5. f \in Nat \ {0} /\ q < goal
  BY <1>1, <1>2, FreqsArePositive DEF StillGoing
<1>6. q \in Int /\ r \in Int /\ q < r
  <2> HIDE DEF f
  <2>1. f * k \in Int /\ f * (k + 1) = f * k + f
    BY <1>2, <1>5
  <2> DEFINE a == f * k
             b == f * (k + 1)
  <2>2. a \in Int /\ b \in Int /\ a < b
    BY <1>5, <2>1
  <2> HIDE DEF a, b
  <2>3. a * Ts \in Int /\ b * Ts \in Int /\ a * Ts + Ts <= b * Ts
    BY <2>2, Sizes, Spaced
  <2> QED
    BY <2>3, Sizes DEF a, b
<1>7. goal \in Nat /\ goal > 0 /\ p \in Int
  BY <1>2, MoreSizes
<1>8. Ahead = p + (goal - q)
  BY <1>1 DEF Ahead
<1>9. CASE ~(r >= goal)
  <2>1. gen'.kind = "sine" /\ gen'.index = i /\ gen'.k = k + 1 /\ gen'.finished = FALSE
    BY <1>3, <1>4, <1>9
  <2>2. Ahead' = p + (goal - r) /\ (Freqs[gen.index] * gen.k * Ts)' = r
    BY <2>1 DEF Ahead, ToneTurns
  <2> HIDE DEF p, q, r, goal
  <2>3. Ahead' < Ahead /\ r < goal
    BY <1>6, <1>7, <1>8, <1>9, <2>2
  <2> QED
    BY <2>1, <2>2, <2>3 DEF StillGoing, ToneTurns, goal
<1>10. CASE r >= goal /\ i < Len(Freqs)
  <2> DEFINE j == i + 1
  <2>1. j \in 1 .. Len(Freqs)
    BY <1>2, <1>10
  <2>2. gen' = [g EXCEPT !.index = j, !.k = 0]
    BY <1>3, <1>4, <1>10 DEF NextTone
  <2> HIDE DEF g, j
  <2>3. gen'.kind = "sine" /\ gen'.index = j /\ gen'.k = 0 /\ gen'.finished = FALSE
    BY <1>3, <2>1, <2>2 DEF SineGenerators
  <2>4. Freqs[j] * 0 * Ts = 0
    <3>1. Freqs[j] \in Int
      BY <2>1, FreqsArePositive
    <3>2. \A a, b \in Int : a * 0 * b = 0
      OBVIOUS
    <3> QED
      BY <3>1, <3>2, Sizes
  <2>5. (Len(Freqs) - j) * goal = p - goal
    <3>1. \A a, b \in Int : (a - 1) * b = a * b - b
      OBVIOUS
    <3>2. Len(Freqs) - j = (Len(Freqs) - i) - 1 /\ Len(Freqs) - i \in Int
      BY <1>2 DEF j
    <3> QED
      BY <1>7, <3>1, <3>2
  <2>6. Ahead' = (Len(Freqs) - j) * goal + (goal - Freqs[j] * 0 * Ts)
    BY <2>3 DEF Ahead, ToneTurns
  <2> HIDE DEF p, q, r, goal
  <2>7. Ahead' = (p - goal) + (goal - 0)
    BY <2>4, <2>5, <2>6
  <2>8. Ahead' < Ahead
    BY <1>5, <1>6, <1>7, <1>8, <2>7
  <2>9. (Freqs[gen.index] * gen.k * Ts)' < ToneTurns'
    BY <1>7, <2>3, <2>4 DEF goal, ToneTurns
  <2> QED
    BY <2>3, <2>8, <2>9 DEF StillGoing
<1>11. CASE r >= goal /\ ~(i < Len(Freqs))
  <2>1. gen' = [g EXCEPT !.finished = TRUE]
    BY <1>3, <1>4, <1>11 DEF NextTone
  <2> HIDE DEF g
  <2>2. gen'.kind = "sine" /\ gen'.finished = TRUE
    BY <1>3, <2>1 DEF SineGenerators
  <2> QED
    BY <2>2 DEF StillGoing, Done
<1> QED
  BY <1>9, <1>10, <1>11

\* The generators that only count samples.
LEMMA CountUsesUp ==
    ASSUME ExcitationTypes, TrainStep \/ RampStep \/ ImpulseStep \/ ChirpStep
    PROVE  StillGoing' /\ gen'.kind = gen.kind /\ Ahead' < Ahead
<1> DEFINE k == gen.k
           a == k * Ts
           b == (k + 1) * Ts
<1>1. /\ gen.kind \in {"train", "ramp", "impulse", "chirp"} /\ gen \in OtherGenerators
      /\ gen' = [gen EXCEPT !.k = @ + 1]
  BY KindIs DEF TrainStep, RampStep, ImpulseStep, ChirpStep
<1>2. /\ gen'.kind = gen.kind /\ gen'.k = k + 1 /\ k \in Nat
      /\ gen.kind = "ramp" => gen'.target = gen.target /\ gen.target \in Int
  BY <1>1, ExcitationAssumption DEF OtherGenerators
<1>3. a \in Int /\ b \in Int /\ a < b /\ Time = a /\ Time' = b
  <2>1. a \in Int /\ b \in Int /\ a + Ts <= b
    BY <1>2, Sizes, Spaced
  <2> QED
    BY <1>2, <2>1, Sizes DEF Time
<1> HIDE DEF a, b
<1>4. StillGoing'
  BY <1>1, <1>2 DEF StillGoing
<1>5. CASE gen.kind = "train"
  <2>1. 2 * Cycles * Hold \in Int
    BY ProductsAre, MoreSizes DEF Products
  <2> DEFINE c == 2 * Cycles * Hold
  <2>2. Ahead = c - a /\ Ahead' = c - b
    BY <1>2, <1>3, <1>5 DEF Ahead
  <2> HIDE DEF c
  <2> QED
    BY <1>2, <1>3, <1>4, <2>1, <2>2 DEF c
<1>6. CASE gen.kind = "ramp"
  <2>1. Magnitude(gen) \in Int /\ HoldAtEnd * Rate \in Int
    BY <1>2, <1>6, MoreSizes DEF Magnitude, Distance
  <2> DEFINE c == Magnitude(gen) + HoldAtEnd * Rate
  <2>2. c \in Int
    BY <2>1
  <2>3. Magnitude(gen') = Magnitude(gen)
    BY <1>2, <1>6 DEF Magnitude
  <2>4. Ahead = c - a * Rate /\ Ahead' = c - b * Rate
    BY <1>2, <1>3, <1>6, <2>3 DEF Ahead
  <2>5. a * Rate \in Int /\ b * Rate \in Int /\ a * Rate + Rate <= b * Rate
    BY <1>3, MoreSizes, Spaced
  <2> HIDE DEF c
  <2> QED
    BY <1>2, <1>4, <2>2, <2>4, <2>5, MoreSizes
<1>7. CASE gen.kind = "impulse"
  <2>1. Ahead = Width - k /\ Ahead' = Width - (k + 1)
    BY <1>2, <1>7 DEF Ahead
  <2> QED
    BY <1>2, <1>4, <2>1, MoreSizes
<1>8. CASE gen.kind = "chirp"
  <2>1. Ahead = Duration - a /\ Ahead' = Duration - b
    BY <1>2, <1>3, <1>8 DEF Ahead
  <2> QED
    BY <1>2, <1>3, <1>4, <2>1, MoreSizes
<1> QED
  BY <1>1, <1>5, <1>6, <1>7, <1>8

LEMMA RestartedGoes == Restarted => StillGoing
<1> SUFFICES ASSUME Restarted PROVE StillGoing
  OBVIOUS
<1>1. gen \in FreshGenerators
  BY DEF Restarted
<1>2. CASE \E o \in Orders, s \in SUBSET Nat : gen = Prbs(o, s)
  BY <1>2, Sizes DEF Prbs, StillGoing
<1>3. CASE \E tol \in RateTols : gen = SingleStep(tol)
  <2>1. gen.kind = "step" /\ gen.k = 0
    BY <1>3 DEF SingleStep
  <2>2. 0 * Ts < MaxHold /\ 0 * Ts < MinHold
    BY Sizes, ExcitationAssumption
  <2> QED
    BY <2>1, <2>2 DEF StillGoing, HoldLimit
<1>4. CASE \/ \E k \in {"train", "impulse", "chirp"} : gen = Counting(k)
           \/ \E target \in Targets : gen = Slewing(target)
  BY <1>4 DEF Counting, Slewing, StillGoing
<1>5. CASE gen = Sine
  <2>1. gen.kind = "sine" /\ gen.index = 1 /\ gen.k = 0
    BY <1>5 DEF Sine
  <2>2. Freqs[1] * 0 * Ts = 0
    <3>1. Freqs[1] \in Int
      BY FreqsArePositive
    <3>2. \A a, b \in Int : a * 0 * b = 0
      OBVIOUS
    <3> QED
      BY <3>1, <3>2, Sizes
  <2> QED
    BY <2>1, <2>2, MoreSizes DEF StillGoing
<1>6. CASE gen = MultiSine
  BY <1>6 DEF MultiSine, StillGoing
<1> QED
  BY <1>1, <1>2, <1>3, <1>4, <1>5, <1>6 DEF FreshGenerators

\* What a step of the generator itself does, and what anything else does.
LEMMA StepUsesUp ==
    ASSUME ExcitationTypes, StillGoing, Step
    PROVE  /\ StillGoing'
           /\ gen'.kind = gen.kind
           /\ gen.kind # "multi" /\ ~Done => Done' \/ Ahead' < Ahead
           /\ Done => Done'
<1>1. CASE PrbsStep
  <2>1. gen.kind = "prbs" /\ ~Done
    <3>1. gen.kind = "prbs" /\ gen.chips \in Nat /\ gen.order \in Orders
          /\ gen.chips < Period(gen.order)
      BY <1>1, KindIs DEF PrbsStep, PrbsGenerators
    <3>2. Period(gen.order) \in Int
      BY <3>1, PeriodIs
    <3>3. ~(gen.chips >= Period(gen.order))
      BY <3>1, <3>2
    <3> QED
      BY <3>1, <3>3 DEF Done
  <2> QED
    BY <1>1, <2>1, PrbsUsesUp
<1>2. CASE StepStep
  BY <1>2, HoldUsesUp DEF StepStep, Done
<1>3. CASE TrainStep \/ RampStep \/ ImpulseStep \/ ChirpStep
  <2>1. ~Done
    <3>1. gen.k \in Nat /\ (gen.kind = "ramp" => gen.target \in Int)
      BY <1>3, KindIs, ExcitationAssumption
      DEF OtherGenerators, TrainStep, RampStep, ImpulseStep, ChirpStep
    <3>2. Time \in Int /\ Time * Rate \in Int /\ HoldAtEnd * Rate \in Int
          /\ 2 * Cycles * Hold \in Int
      <4>1. Time \in Int
        BY <3>1, ProductsAre, Sizes DEF Time, Products
      <4> QED
        BY <4>1, ProductsAre, MoreSizes DEF Products
    <3>3. gen.kind = "ramp" => Magnitude(gen) \in Int
      BY <3>1 DEF Magnitude, Distance
    <3>4. CASE TrainStep
      BY <3>2, <3>4 DEF TrainStep, Done
    <3>5. CASE RampStep
      BY <3>2, <3>3, <3>5 DEF RampStep, Done
    <3>6. CASE ImpulseStep
      BY <3>1, <3>6, MoreSizes DEF ImpulseStep, Done
    <3>7. CASE ChirpStep
      BY <3>2, <3>7, MoreSizes DEF ChirpStep, Done
    <3> QED
      BY <1>3, <3>4, <3>5, <3>6, <3>7
  <2> QED
    BY <1>3, <2>1, CountUsesUp
<1>4. CASE SineStep
  BY <1>4, ToneUsesUp DEF SineStep, Done
<1>5. CASE MultiStep
  <2>1. gen.kind = "multi" /\ gen \in MultiGenerators
    BY <1>5, KindIs DEF MultiStep
  <2>2. gen'.kind = "multi"
    BY <1>5, <2>1 DEF MultiStep, MultiGenerators
  <2> QED
    BY <2>1, <2>2 DEF StillGoing, Done
<1>6. CASE StepDone
  <2>1. gen' = gen /\ Done
    BY <1>6 DEF StepDone
  <2> QED
    BY <2>1 DEF StillGoing, HoldLimit, Done, Time
<1> QED
  BY <1>1, <1>2, <1>3, <1>4, <1>5, <1>6 DEF Step

\* What a step of a generator does to the run it has left.
RunGoesOn ==
    gen.kind # "multi" /\ ~GeneratorReset =>
        RunLeft' <= RunLeft /\ (Step /\ ~Done => RunLeft' < RunLeft)

RunInv == ExcitationInv /\ StillGoing

LEMMA RestartedGoesAgain == Restarted' => StillGoing'
BY RestartedGoes, PTL

RunTyped == gen.kind # "multi" => RunLeft \in Nat /\ (RunLeft = 0 <=> Done)

LEMMA RunLeftIs == RunInv => RunTyped
BY AheadIs DEF RunInv, ExcitationInv, RunLeft, RunTyped

LEMMA RunLeftIsAgain == RunInv' => RunTyped'
BY RunLeftIs, PTL

LEMMA RunStep ==
    ASSUME RunInv, [ExcitationNext]_excitationVars
    PROVE  RunInv' /\ RunGoesOn
<1>1. ExcitationInv' /\ ExcitationTypes /\ StillGoing
  BY ExcitationStepInv DEF RunInv, ExcitationInv
<1>2. CASE Step
  <2>1. /\ RunInv'
        /\ gen'.kind = gen.kind
        /\ gen.kind # "multi" /\ ~Done => Done' \/ Ahead' < Ahead
        /\ Done => Done'
    BY <1>1, <1>2, StepUsesUp DEF RunInv
  <2>2. RunGoesOn
    <3> SUFFICES ASSUME gen.kind # "multi"
                 PROVE  RunLeft' <= RunLeft /\ (~Done => RunLeft' < RunLeft)
      BY DEF RunGoesOn
    <3>1. RunLeft \in Nat /\ (RunLeft = 0 <=> Done) /\ RunLeft' \in Nat
      BY <2>1, RunLeftIs, RunLeftIsAgain DEF RunTyped
    <3>2. CASE Done'
      BY <2>1, <3>1, <3>2 DEF RunLeft
    <3>3. CASE ~Done'
      BY <2>1, <3>1, <3>3 DEF RunLeft
    <3> QED
      BY <3>2, <3>3
  <2> QED
    BY <2>1, <2>2
<1>3. CASE ~Step /\ \E y \in Outputs : Observe(y)
  <2>1. StillGoing' /\ gen'.kind = "step" /\ Ahead' = Ahead /\ (Done => Done')
    BY <1>1, <1>3, ObserveUsesUp
  <2>2. RunInv' /\ gen.kind = "step"
    BY <1>1, <1>3, <2>1 DEF RunInv, Observe
  <2>3. RunLeft \in Nat /\ RunLeft' \in Nat /\ (RunLeft = 0 <=> Done)
    BY <2>1, <2>2, RunLeftIs, RunLeftIsAgain DEF RunTyped
  <2>4. CASE Done'
    <3>1. RunLeft' = 0
      BY <2>4 DEF RunLeft
    <3>2. RunLeft' <= RunLeft
      BY <2>3, <3>1
    <3> QED
      BY <1>3, <2>2, <3>2 DEF RunGoesOn
  <2>5. CASE ~Done'
    <3>1. RunLeft' = Ahead' /\ RunLeft = Ahead
      BY <2>1, <2>5 DEF RunLeft
    <3>2. RunLeft' <= RunLeft
      BY <2>1, <2>3, <3>1
    <3> QED
      BY <1>3, <2>2, <3>2 DEF RunGoesOn
  <2> QED
    BY <2>4, <2>5
<1>4. CASE GeneratorReset
  BY <1>1, <1>4, ResetRestarts, RestartedGoesAgain DEF RunInv, RunGoesOn
<1>5. CASE ~Step /\ UNCHANGED excitationVars
  <2>1. gen' = gen
    BY <1>5 DEF excitationVars
  <2>2. RunInv'
    BY <1>1, <2>1 DEF RunInv, StillGoing, HoldLimit
  <2>3. RunLeft' = RunLeft
    BY <2>1 DEF RunLeft, Ahead, Done, Time, HoldLimit
  <2>4. gen.kind # "multi" => RunLeft \in Nat
    BY RunLeftIs DEF RunTyped
  <2> QED
    BY <1>5, <2>2, <2>3, <2>4 DEF RunGoesOn
<1> QED
  BY <1>2, <1>3, <1>4, <1>5 DEF ExcitationNext

\* step() of every generator but MultiSine: a run has only so much left, and no
\* observation gives any of it back.
THEOREM GeneratorsRunOut ==
    ExcitationSpec =>
        /\ [](gen.kind # "multi" => RunLeft \in Nat /\ (RunLeft = 0 <=> Done))
        /\ [][RunGoesOn]_excitationVars
<1>1. ExcitationInit => RunInv
  <2>1. ExcitationInit => Restarted
    <3>1. Seeds \subseteq SUBSET Nat
      BY ExcitationAssumption
    <3> QED
      BY <3>1 DEF ExcitationInit, Restarted, Generators, FreshGenerators
  <2> QED
    BY <2>1, RestartedInv, RestartedGoes DEF RunInv
<1>2. RunInv /\ [ExcitationNext]_excitationVars => RunInv' /\ [RunGoesOn]_excitationVars
  BY RunStep
<1>3. RunInv => (gen.kind # "multi" => RunLeft \in Nat /\ (RunLeft = 0 <=> Done))
  BY RunLeftIs DEF RunTyped
<1> QED
  BY <1>1, <1>2, <1>3, PTL DEF ExcitationSpec
=============================================================================
