------------------------- MODULE FrequencyResponse -------------------------
(***************************************************************************)
(* The lock-in estimator of a frequency-response table,                    *)
(* src/inc/damp/estimation/frequency_response.hpp: class                   *)
(* FrequencyResponseEstimator with its FrfLockIn correlators.              *)
(*                                                                         *)
(* What the sums are made of stands for the sums: a block is the run of    *)
(* samples a correlator multiplied with its phasor and added up, the       *)
(* accumulators S_yu, S_uu, S_yy are the blocks added to them, and a point *)
(* of the table is the blocks it was computed from.  A block may be        *)
(* silent: its U is zero, as of an input that was not excited.             *)
(***************************************************************************)
EXTENDS Naturals, Sequences

CONSTANTS
    NFreq,       \* bins of the table
    Indices,     \* the indices callers pass; some may be out of range
    BlockSizes, Counts, Settles  \* block_size, num_blocks, settle_samples

ASSUME FrfAssumption ==
    /\ NFreq \in Nat \ {0}
    /\ Indices \subseteq Nat
    /\ BlockSizes \subseteq Nat /\ Counts \subseteq Nat /\ Settles \subseteq Nat

Bins == 0 .. NFreq - 1

VARIABLES
    fs,                 \* is a sample rate set?
    table,              \* per bin: valid, coherence measured?, the blocks averaged
    lock,               \* the correlator of the sequential path
    sums,               \* the blocks in S_yu, S_uu and S_yy
    active_index, blocks_target, blocks_done, settle_left, sequential_active,
    bank, bank_active,  \* the correlators of the parallel path
    asked,              \* history, per bin: its last begin_bin() not refused
    pushed,             \* history: samples pushed since the last begin_bin()
    owner               \* history, per bin: the path that wrote the point

sequential == <<lock, active_index, blocks_target, blocks_done, settle_left,
                sequential_active>>
vars == <<fs, table, sequential, sums, bank, bank_active, asked, pushed, owner>>

EmptyPoint == [valid |-> FALSE, coherence |-> FALSE, average |-> <<>>]

\* A correlator: samples per block, samples of the current block, and samples in
\* its sums of u and y.
Correlator(size) == [block |-> size, count |-> 0, terms |-> 0]

\* FrfLockIn::push: the correlator after one more sample; the sample after a full
\* block clears it.
Correlated(c) ==
    IF c.count = c.block
    THEN [block |-> c.block, count |-> 1, terms |-> 1]
    ELSE [block |-> c.block, count |-> c.count + 1, terms |-> c.terms + 1]

\* push() returns true: a block is complete.
Completes(c) == Correlated(c).count = c.block

\* accumulate_block: what the block of bin i that the sample number last
\* completes in c adds to the sums.
Block(c, i, last, live) ==
    [bin |-> i, size |-> Correlated(c).terms, last |-> last, live |-> live]

\* finalize_point: the point the sums give; the coherence needs two blocks.
\* (measured or not: it also stays 0 for an output that is zero throughout).
Point(blocks, done) ==
    IF \E k \in DOMAIN blocks : blocks[k].live
    THEN [valid |-> TRUE, coherence |-> done >= 2, average |-> blocks]
    ELSE EmptyPoint

\* bin_ok, with a frequency in (0, fs/2) or not.
BinOk(i, freq_ok, size) == i \in Bins /\ fs /\ freq_ok /\ size > 0

NoneAsked == [size |-> 0, blocks |-> 0, settle |-> 0]

Init ==
    /\ fs \in BOOLEAN
    /\ table = [i \in Bins |-> EmptyPoint]
    /\ lock = Correlator(0)
    /\ sums = <<>>
    /\ active_index = 0 /\ blocks_target = 1 /\ blocks_done = 0
    /\ settle_left = 0 /\ sequential_active = FALSE
    /\ bank = [i \in Bins |-> Correlator(0)]
    /\ bank_active = [i \in Bins |-> FALSE]
    /\ asked = [i \in Bins |-> NoneAsked] /\ pushed = 0
    /\ owner = [i \in Bins |-> "none"]

-----------------------------------------------------------------------------
(* The sequential path.                                                    *)

\* Mutant of BeginBin: the sums of the bin before are not cleared.
BeginBinKeepsSums(i, freq_ok, size, blocks, settle) ==
    /\ BinOk(i, freq_ok, size) /\ blocks > 0
    /\ active_index' = i
    /\ blocks_target' = blocks /\ blocks_done' = 0
    /\ settle_left' = settle
    /\ lock' = Correlator(size)
    /\ sequential_active' = TRUE
    /\ table' = [table EXCEPT ![i] = EmptyPoint]
    /\ asked' = [asked EXCEPT ![i] = [size |-> size, blocks |-> blocks, settle |-> settle]]
    /\ pushed' = 0
    /\ owner' = [owner EXCEPT ![i] = "none"]
    /\ UNCHANGED <<fs, sums, bank, bank_active>>

BeginBin(i, freq_ok, size, blocks, settle) ==
    /\ BinOk(i, freq_ok, size) /\ blocks > 0
    /\ active_index' = i
    /\ blocks_target' = blocks /\ blocks_done' = 0
    /\ settle_left' = settle
    /\ sums' = <<>>
    /\ lock' = Correlator(size)
    /\ sequential_active' = TRUE
    /\ table' = [table EXCEPT ![i] = EmptyPoint]
    /\ asked' = [asked EXCEPT ![i] = [size |-> size, blocks |-> blocks, settle |-> settle]]
    /\ pushed' = 0
    /\ owner' = [owner EXCEPT ![i] = "none"]
    /\ UNCHANGED <<fs, bank, bank_active>>

\* A refused begin_bin() ends the measurement that was active.
BeginBinRefused(i, freq_ok, size, blocks) ==
    /\ ~(BinOk(i, freq_ok, size) /\ blocks > 0)
    /\ sequential_active' = FALSE
    /\ UNCHANGED <<fs, table, lock, sums, active_index, blocks_target, blocks_done,
                   settle_left, bank, bank_active, asked, pushed, owner>>

PushSettle ==
    /\ sequential_active /\ settle_left > 0
    /\ settle_left' = settle_left - 1
    /\ pushed' = pushed + 1
    /\ UNCHANGED <<fs, table, lock, sums, active_index, blocks_target, blocks_done,
                   sequential_active, bank, bank_active, asked, owner>>

PushSample ==
    /\ sequential_active /\ settle_left = 0
    /\ ~Completes(lock)
    /\ lock' = Correlated(lock)
    /\ pushed' = pushed + 1
    /\ UNCHANGED <<fs, table, sums, active_index, blocks_target, blocks_done,
                   settle_left, sequential_active, bank, bank_active, asked, owner>>

\* The sample that completes a block, but not the last one.
PushBlock(live) ==
    /\ sequential_active /\ settle_left = 0
    /\ Completes(lock)
    /\ blocks_done + 1 < blocks_target
    /\ lock' = Correlated(lock)
    /\ sums' = Append(sums, Block(lock, active_index, pushed + 1, live))
    /\ blocks_done' = blocks_done + 1
    /\ pushed' = pushed + 1
    /\ UNCHANGED <<fs, table, active_index, blocks_target, settle_left,
                   sequential_active, bank, bank_active, asked, owner>>

\* The sample that completes the last block: push() returns true.
PushLast(live) ==
    /\ sequential_active /\ settle_left = 0
    /\ Completes(lock)
    /\ blocks_done + 1 >= blocks_target
    /\ lock' = Correlated(lock)
    /\ sums' = Append(sums, Block(lock, active_index, pushed + 1, live))
    /\ blocks_done' = blocks_done + 1
    /\ table' = [table EXCEPT ![active_index] = Point(sums', blocks_done')]
    /\ owner' = [owner EXCEPT ![active_index] = "sequential"]
    /\ sequential_active' = FALSE
    /\ pushed' = pushed + 1
    /\ UNCHANGED <<fs, active_index, blocks_target, settle_left, bank, bank_active, asked>>

-----------------------------------------------------------------------------
(* The parallel bank.                                                      *)

ConfigureBin(i, freq_ok, size) ==
    /\ BinOk(i, freq_ok, size)
    /\ bank' = [bank EXCEPT ![i] = Correlator(size)]
    /\ bank_active' = [bank_active EXCEPT ![i] = TRUE]
    /\ table' = [table EXCEPT ![i] = EmptyPoint]
    /\ owner' = [owner EXCEPT ![i] = "none"]
    /\ UNCHANGED <<fs, sequential, sums, asked, pushed>>

\* One sample into every configured bin.  Each bin that completes a block clears
\* the sums, adds its block and writes its point, in the order of the table.
BankCompletes == {i \in Bins : bank_active[i] /\ Completes(bank[i])}

SumsAfterBank(i, live) == <<Block(bank[i], i, 0, live[i])>>

PushBank(live) ==
    /\ \E i \in Bins : bank_active[i]
    /\ bank' = [i \in Bins |-> IF bank_active[i] THEN Correlated(bank[i]) ELSE bank[i]]
    /\ table' = [i \in Bins |->
                   IF i \in BankCompletes THEN Point(SumsAfterBank(i, live), 1) ELSE table[i]]
    /\ owner' = [i \in Bins |-> IF i \in BankCompletes THEN "bank" ELSE owner[i]]
    /\ \/ BankCompletes = {} /\ sums' = sums
       \/ \E last \in BankCompletes :
            /\ \A i \in BankCompletes : i <= last
            /\ sums' = SumsAfterBank(last, live)
    /\ UNCHANGED <<fs, sequential, bank_active, asked, pushed>>

SetSampleRate(set) ==
    /\ fs' = set
    /\ UNCHANGED <<table, sequential, sums, bank, bank_active, asked, pushed, owner>>

\* reset() clears neither the sums nor the sample rate.
Reset ==
    /\ sequential_active' = FALSE /\ blocks_done' = 0 /\ settle_left' = 0
    /\ table' = [i \in Bins |-> EmptyPoint]
    /\ bank' = [i \in Bins |-> Correlator(0)]
    /\ bank_active' = [i \in Bins |-> FALSE]
    /\ lock' = Correlator(0)
    /\ owner' = [i \in Bins |-> "none"]
    /\ UNCHANGED <<fs, sums, active_index, blocks_target, asked, pushed>>

Configure ==
    \E i \in Indices, freq_ok \in BOOLEAN, size \in BlockSizes :
        \/ ConfigureBin(i, freq_ok, size)
        \/ \E blocks \in Counts :
             \/ BeginBinRefused(i, freq_ok, size, blocks)
             \/ \E settle \in Settles : BeginBin(i, freq_ok, size, blocks, settle)

Push == PushSettle \/ PushSample \/ \E live \in BOOLEAN : PushBlock(live) \/ PushLast(live)

Others == (\E set \in BOOLEAN : SetSampleRate(set)) \/ Reset

\* Any order of calls.
Next == Configure \/ Push \/ (\E live \in [Bins -> BOOLEAN] : PushBank(live)) \/ Others

Spec == Init /\ [][Next]_vars

\* The two usage modes of the class one at a time: nothing is pushed into the
\* bank while a sequential measurement is active.
OneModeNext ==
    \/ Configure
    \/ Push
    \/ ~sequential_active /\ \E live \in [Bins -> BOOLEAN] : PushBank(live)
    \/ Others

OneModeSpec == Init /\ [][OneModeNext]_vars

-----------------------------------------------------------------------------
(***************************************************************************)
(* Properties                                                              *)
(***************************************************************************)

Blocks == [bin : Bins, size : Nat, last : Nat, live : BOOLEAN]
Points == [valid : BOOLEAN, coherence : BOOLEAN, average : Seq(Blocks)]
Correlators == [block : Nat, count : Nat, terms : Nat]
Paths == {"none", "sequential", "bank"}
Requests == [size : Nat, blocks : Nat, settle : Nat]

\* Types; a correlator never holds more than a block.
TypeOK ==
    /\ fs \in BOOLEAN
    /\ table \in [Bins -> Points]
    /\ lock \in Correlators /\ lock.count <= lock.block
    /\ sums \in Seq(Blocks)
    /\ active_index \in Bins
    /\ blocks_target \in Nat /\ blocks_done \in Nat /\ settle_left \in Nat
    /\ sequential_active \in BOOLEAN
    /\ bank \in [Bins -> Correlators]
    /\ \A i \in Bins : bank[i].count <= bank[i].block
    /\ bank_active \in [Bins -> BOOLEAN]
    /\ asked \in [Bins -> Requests]
    /\ pushed \in Nat
    /\ owner \in [Bins -> Paths]

\* "Averages num_blocks successive blocks of block_size samples (after discarding
\* settle_samples)" (begin_bin): a valid point of the sequential path comes from
\* exactly those samples, whatever bins were measured, aborted or refused before.
SequentialAverage ==
    \A i \in Bins :
        owner[i] = "sequential" /\ table[i].valid =>
            LET a == asked[i] avg == table[i].average IN
            /\ Len(avg) = a.blocks
            /\ \A k \in 1 .. a.blocks :
                 /\ avg[k].bin = i
                 /\ avg[k].size = a.size
                 /\ avg[k].last = a.settle + k * a.size

\* A point of the bank comes from one whole block of its own bin, and reports no
\* coherence, whatever runs on the sequential path.
BankPointIsOneBlock ==
    \A i \in Bins :
        owner[i] = "bank" /\ table[i].valid =>
            /\ Len(table[i].average) = 1
            /\ table[i].average[1].bin = i
            /\ table[i].average[1].size = bank[i].block
            /\ ~table[i].coherence

\* An active measurement still lacks samples: push() returns true no later than
\* with the last sample of the last block.
NotOverdue ==
    sequential_active =>
        LET a == asked[active_index]
        IN pushed < a.settle + a.blocks * a.size
=============================================================================
