--------------------------- MODULE RandomnessProofs ---------------------------
(***************************************************************************)
(* Theorems about Randomness, for every program, every length of every     *)
(* party's buffers and every interleaving of threads and callbacks.        *)
(*                                                                         *)
(* First, the three parties' draws fit.  The n-th draw of a party takes    *)
(* the n-th words of the two counter-mode streams, however its buffers cut *)
(* them: they hold the words from 2*base on, and 2*base + idx draws have   *)
(* been made.  Two neighbours have the same key, as a channel's first      *)
(* message is the sender's seed.                                           *)
(*                                                                         *)
(* Then, every transfer gives its receiver the messages of its choices,    *)
(* and no block masks two of them, for every HelpStep.  Help is a fold     *)
(* over the steps that the code makes; HelpIs gives it in closed form.     *)
(* The rest follows from counting: the transfers to r among a party's      *)
(* operations so far (MessagesTo) say where in the channels it and its     *)
(* receives are, the lengths of their choices (BlocksTo) how much of the   *)
(* key has been used.                                                      *)
(***************************************************************************)
EXTENDS Randomness, FoldFacts, SequenceTheorems, TLAPS

(* What Append does to any sequence, whatever its elements.                *)
IsSeq(s) == \E S : s \in Seq(S)

LEMMA AppendToSeq ==
  ASSUME NEW s, IsSeq(s), NEW e
  PROVE  /\ IsSeq(Append(s, e))
         /\ Len(s) \in Nat /\ DOMAIN s = 1 .. Len(s)
         /\ Len(Append(s, e)) = Len(s) + 1
         /\ DOMAIN Append(s, e) = 1 .. Len(s) + 1
         /\ \A i \in 1 .. Len(s) : Append(s, e)[i] = s[i]
         /\ Append(s, e)[Len(s) + 1] = e
         /\ Append(s, e) # <<>>
<1>1. PICK S : s \in Seq(S)
  BY DEF IsSeq
<1>2. s \in Seq(S \cup {e}) /\ e \in S \cup {e}
  BY <1>1
<1>3. Append(s, e) \in Seq(S \cup {e})
  BY <1>2
<1>4. Len(s) \in Nat /\ DOMAIN s = 1 .. Len(s)
  BY <1>2
<1> QED
  BY <1>2, <1>3, <1>4, AppendProperties DEF IsSeq

-----------------------------------------------------------------------------
Key(p, i) == << IF i = 0 THEN prevOf(p) ELSE p, 0 >>

(* A generator, field by field; and one whose buffers begin at block       *)
(* "base", after "taken" common words.                                     *)
Gen(size, prev, next, keys, genIdx, idx, buff) ==
  [size |-> size, mPrevCommon |-> prev, mNextCommon |-> next, mShareGen |-> keys,
   mShareGenIdx |-> genIdx, mShareIdx |-> idx, mShareBuff |-> buff]

BuffersAt(p, base) == [i \in 0 .. 1 |-> CounterMode(Key(p, i), base, BuffSize[p])]

GenAt(p, base, idx, taken) ==
  Gen(BuffSize[p], [seed |-> prevOf(p), pos |-> 4 + taken], [seed |-> p, pos |-> 4 + taken],
      [i \in 0 .. 1 |-> Key(p, i)], base + BuffSize[p], idx, BuffersAt(p, base))

(* The logs, the channels and the generator of a party.                    *)
LogsInv(p) ==
  /\ IsSeq(draws[p]) /\ IsSeq(tuples[p])
  /\ \A n \in 1 .. Len(draws[p]) :
       draws[p][n] = [prev |-> <<Key(p, 0), n - 1>>, next |-> <<Key(p, 1), n - 1>>]
  /\ \A n \in 1 .. Len(tuples[p]) :
       tuples[p][n] = [prev |-> <<prevOf(p), 3 + n>>, next |-> <<p, 3 + n>>]

ChannelInv(p) ==
  /\ DOMAIN sent[p] = Party
  /\ \A q \in Party : IsSeq(sent[p][q])
  /\ pc[p] = 0 <=> sent[p][nextOf(p)] = <<>>
  /\ sent[p][nextOf(p)] # <<>> => sent[p][nextOf(p)][1] = p

GenInv(p) ==
  /\ pc[p] < 2 => draws[p] = <<>> /\ tuples[p] = <<>>
  /\ pc[p] >= 2 => \E base \in Nat, idx \in 0 .. 2 * BuffSize[p] :
                     /\ gen[p] = GenAt(p, base, idx, Len(tuples[p]))
                     /\ Len(draws[p]) = 2 * base + idx

Domains ==
  /\ pc \in [Party -> Nat]
  /\ DOMAIN gen = Party /\ DOMAIN sent = Party /\ DOMAIN draws = Party /\ DOMAIN tuples = Party

RandomInv == Domains /\ \A p \in Party : LogsInv(p) /\ ChannelInv(p) /\ GenInv(p)

LEMMA PartyFacts ==
  \A p \in Party : /\ nextOf(p) \in Party /\ prevOf(p) \in Party /\ nextOf(prevOf(p)) = p
                   /\ prevOf(nextOf(p)) = p /\ prevOf(p) # p
                   /\ BuffSize[p] \in Nat \ {0}
  BY BuffSizeAssumption DEF Party, nextOf, prevOf

(* A refill.                                                               *)
LEMMA Refilled ==
  ASSUME NEW size, NEW prev, NEW next, NEW keys, NEW genIdx, NEW idx, NEW buff
  PROVE  Refill(Gen(size, prev, next, keys, genIdx, idx, buff))
           = Gen(size, prev, next, keys, genIdx + size, 0, [i \in 0 .. 1 |-> CounterMode(keys[i], genIdx, size)])
<1> DEFINE g == Gen(size, prev, next, keys, genIdx, idx, buff)
           b == [i \in 0 .. 1 |-> CounterMode(keys[i], genIdx, size)]
           to == genIdx + size
<1>1. Refill(g) = [g EXCEPT !.mShareBuff = b, !.mShareGenIdx = to, !.mShareIdx = 0]
  BY DEF Refill, RefillAt, Gen
<1> HIDE DEF b, to
<1>2. [g EXCEPT !.mShareBuff = b, !.mShareGenIdx = to, !.mShareIdx = 0]
        = [[[g EXCEPT !.mShareBuff = b] EXCEPT !.mShareGenIdx = to] EXCEPT !.mShareIdx = 0]
  BY DEF Gen
<1>3. [[[g EXCEPT !.mShareBuff = b] EXCEPT !.mShareGenIdx = to] EXCEPT !.mShareIdx = 0]
        = Gen(size, prev, next, keys, to, 0, b)
  <2>1. [g EXCEPT !.mShareBuff = b] = Gen(size, prev, next, keys, genIdx, idx, b)
    BY DEF Gen
  <2>2. [Gen(size, prev, next, keys, genIdx, idx, b) EXCEPT !.mShareGenIdx = to] = Gen(size, prev, next, keys, to, idx, b)
    BY DEF Gen
  <2>3. [Gen(size, prev, next, keys, to, idx, b) EXCEPT !.mShareIdx = 0] = Gen(size, prev, next, keys, to, 0, b)
    BY DEF Gen
  <2> QED
    BY <2>1, <2>2, <2>3
<1>4. Refill(g) = Gen(size, prev, next, keys, to, 0, b)
  BY <1>1, <1>2, <1>3
<1> QED
  BY <1>4 DEF to, b

(* A new generator is at block 0 (its two keys for the transfers are taken *)
(* by Sh3Evaluator::init).                                                 *)
Keyed(g) == [g EXCEPT !.mNextCommon = AfterBlock(@), !.mPrevCommon = AfterBlock(@)]

LEMMA NewGen ==
  ASSUME NEW p \in Party
  PROVE  Keyed(NewShareGen(prevOf(p), p, BuffSize[p])) = GenAt(p, 0, 0, 0)
<1> DEFINE keys == [i \in 0 .. 1 |-> Key(p, i)]
           size == BuffSize[p]
           At2(seed) == [seed |-> seed, pos |-> 2]
           At4(seed) == [seed |-> seed, pos |-> 4]
           start == Gen(size, At2(prevOf(p)), At2(p), keys, 0, 0, [i \in 0 .. 1 |-> <<>>])
           new == Gen(size, At2(prevOf(p)), At2(p), keys, size, 0, BuffersAt(p, 0))
<1>1. size \in Nat
  BY PartyFacts
<1>2. \A seed : AfterBlock(SetSeed(seed)) = At2(seed) /\ AfterBlock(At2(seed)) = At4(seed) /\ Word(SetSeed(seed)) = <<seed, 0>>
  BY DEF AfterBlock, SetSeed, Word
<1>3. [i \in 0 .. 1 |-> Word(SetSeed(IF i = 0 THEN prevOf(p) ELSE p))] = keys
  BY <1>2 DEF Key
<1>4. [i \in 0 .. 1 |-> CounterMode(keys[i], 0, size)] = BuffersAt(p, 0)
  BY DEF BuffersAt
<1> HIDE DEF keys, size
<1>5. NewShareGen(prevOf(p), p, size) = Refill(start)
  BY <1>2, <1>3 DEF NewShareGen, Gen
<1>6. Refill(start) = new
  BY <1>1, <1>4, Refilled
<1>7. new.mNextCommon = At2(p) /\ new.mPrevCommon = At2(prevOf(p))
  BY DEF Gen
<1> DEFINE x == At4(p)
           y == At4(prevOf(p))
<1>8. Keyed(new) = [new EXCEPT !.mNextCommon = x, !.mPrevCommon = y]
  BY <1>2, <1>7 DEF Keyed
<1>9. [new EXCEPT !.mNextCommon = x, !.mPrevCommon = y] = [[new EXCEPT !.mNextCommon = x] EXCEPT !.mPrevCommon = y]
  <2> HIDE DEF x, y
  <2> QED
    BY DEF Gen
<1>10. [[new EXCEPT !.mNextCommon = x] EXCEPT !.mPrevCommon = y] = Gen(size, y, x, keys, size, 0, BuffersAt(p, 0))
  <2> HIDE DEF x, y, At2
  <2>1. [new EXCEPT !.mNextCommon = x] = Gen(size, At2(prevOf(p)), x, keys, size, 0, BuffersAt(p, 0))
    BY DEF Gen
  <2>2. [Gen(size, At2(prevOf(p)), x, keys, size, 0, BuffersAt(p, 0)) EXCEPT !.mPrevCommon = y]
          = Gen(size, y, x, keys, size, 0, BuffersAt(p, 0))
    BY DEF Gen
  <2> QED
    BY <2>1, <2>2
<1>11. Gen(size, y, x, keys, size, 0, BuffersAt(p, 0)) = GenAt(p, 0, 0, 0)
  BY <1>1 DEF GenAt, keys, size
<1> HIDE DEF new, start, x, y
<1> QED
  BY <1>5, <1>6, <1>8, <1>9, <1>10, <1>11 DEF size

(* A draw takes word 2*base + idx, after a refill if the buffers are used  *)
(* up, and leaves the generator one word further.                          *)
LEMMA OneDraw ==
  ASSUME NEW p \in Party, NEW base \in Nat, NEW idx \in 0 .. 2 * BuffSize[p], NEW taken \in Nat
  PROVE  LET g == GenAt(p, base, idx, taken)
         IN /\ Drawn(g) = [prev |-> <<Key(p, 0), 2 * base + idx>>, next |-> <<Key(p, 1), 2 * base + idx>>]
            /\ \E base2 \in Nat, idx2 \in 0 .. 2 * BuffSize[p] :
                 /\ AfterDraw(g) = GenAt(p, base2, idx2, taken)
                 /\ 2 * base2 + idx2 = 2 * base + idx + 1
<1> DEFINE g == GenAt(p, base, idx, taken)
           size == BuffSize[p]
<1>0. size \in Nat \ {0}
  BY PartyFacts
<1>1. \E b \in Nat, i \in 0 .. 2 * size - 1 :
        Ready(g) = GenAt(p, b, i, taken) /\ 2 * b + i = 2 * base + idx
  <2>1. CASE idx = 2 * size
    <3>1. Ready(g) = Refill(g)
      BY <2>1, <1>0 DEF Ready, Exhausted, GenAt, Gen
    <3>2. [i \in 0 .. 1 |-> CounterMode([k \in 0 .. 1 |-> Key(p, k)][i], base + size, size)] = BuffersAt(p, base + size)
      BY DEF BuffersAt
    <3>3. Refill(g) = GenAt(p, base + size, 0, taken)
      BY <3>2, Refilled DEF GenAt
    <3> QED
      BY <3>1, <3>3, <2>1, <1>0
  <2>2. CASE idx # 2 * size
    <3>1. Ready(g) = g
      BY <2>2, <1>0 DEF Ready, Exhausted, GenAt, Gen
    <3> QED
      BY <3>1, <2>2, <1>0
  <2> QED
    BY <2>1, <2>2
<1>2. PICK b \in Nat, i \in 0 .. 2 * size - 1 :
        Ready(g) = GenAt(p, b, i, taken) /\ 2 * b + i = 2 * base + idx
  BY <1>1
<1>3. \A k \in 0 .. 1 : BuffersAt(p, b)[k][i + 1] = <<Key(p, k), 2 * base + idx>>
  <2> TAKE k \in 0 .. 1
  <2>1. BuffersAt(p, b)[k] = CounterMode(Key(p, k), b, size)
    BY DEF BuffersAt
  <2>2. CounterMode(Key(p, k), b, size)[i + 1] = <<Key(p, k), 2 * b + (i + 1) - 1>>
    BY <1>0 DEF CounterMode
  <2>3. 2 * b + (i + 1) - 1 = 2 * base + idx
    BY <1>2
  <2> QED
    BY <2>1, <2>2, <2>3
<1>4. /\ Ready(g).mShareBuff = BuffersAt(p, b)
      /\ Ready(g).mShareIdx = i
  BY <1>2 DEF GenAt, Gen
<1>5. Drawn(g) = [prev |-> <<Key(p, 0), 2 * base + idx>>, next |-> <<Key(p, 1), 2 * base + idx>>]
  BY <1>3, <1>4 DEF Drawn
<1>6. AfterDraw(g) = GenAt(p, b, i + 1, taken)
  <2>1. AfterDraw(g) = [GenAt(p, b, i, taken) EXCEPT !.mShareIdx = i + 1]
    BY <1>2, <1>4 DEF AfterDraw
  <2> QED
    BY <2>1 DEF GenAt, Gen
<1> QED
  BY <1>0, <1>2, <1>5, <1>6

-----------------------------------------------------------------------------
(* What a step leaves alone of a party.                                    *)
LEMMA SameLogs ==
  ASSUME NEW q \in Party, LogsInv(q), draws'[q] = draws[q], tuples'[q] = tuples[q]
  PROVE  LogsInv(q)'
  BY DEF LogsInv

LEMMA SameChannel ==
  ASSUME NEW q \in Party, ChannelInv(q), sent'[q] = sent[q], pc'[q] = pc[q] \/ (pc[q] # 0 /\ pc'[q] # 0)
  PROVE  ChannelInv(q)'
  BY DEF ChannelInv

LEMMA SameGen ==
  ASSUME NEW q \in Party, GenInv(q), gen'[q] = gen[q], draws'[q] = draws[q], tuples'[q] = tuples[q],
         pc[q] \in Nat, pc'[q] \in Nat,
         pc'[q] = pc[q] \/ (pc[q] < 2 /\ pc'[q] < 2) \/ (pc[q] >= 2 /\ pc'[q] >= 2)
  PROVE  GenInv(q)'
<1>1. CASE pc'[q] < 2 /\ pc[q] < 2
  BY <1>1 DEF GenInv
<1>2. CASE pc'[q] >= 2 /\ pc[q] >= 2
  <2>1. PICK base \in Nat, idx \in 0 .. 2 * BuffSize[q] :
          gen[q] = GenAt(q, base, idx, Len(tuples[q])) /\ Len(draws[q]) = 2 * base + idx
    BY <1>2 DEF GenInv
  <2>2. gen'[q] = GenAt(q, base, idx, Len(tuples'[q])) /\ Len(draws'[q]) = 2 * base + idx
    BY <2>1
  <2> QED
    BY <1>2, <2>2 DEF GenInv
<1> QED
  BY <1>1, <1>2

(* A channel that carries one message more.                                *)
LEMMA OneMore ==
  ASSUME RandomInv, NEW p \in Party, NEW to, NEW payload, SendTo(p, to, payload),
         pc'[p] # 0,
         pc[p] = 0 => to = nextOf(p) /\ payload = p,
         \A q \in Party : q # p => pc'[q] = pc[q]
  PROVE  DOMAIN sent' = Party /\ \A q \in Party : ChannelInv(q)'
<1>1. DOMAIN sent = Party /\ ChannelInv(p) /\ DOMAIN sent[p] = Party
  BY DEF RandomInv, Domains, ChannelInv
<1>2. /\ DOMAIN sent' = Party
      /\ \A q \in Party : q # p => sent'[q] = sent[q]
      /\ DOMAIN sent'[p] = Party
      /\ \A r \in Party : sent'[p][r] = IF r = to THEN Append(sent[p][to], payload) ELSE sent[p][r]
  BY <1>1 DEF SendTo
<1>3. ASSUME NEW q \in Party, q # p
      PROVE  ChannelInv(q)'
  BY <1>2, <1>3, SameChannel DEF RandomInv
<1>4. ASSUME to \in Party
      PROVE  ChannelInv(p)'
  <2>1. IsSeq(sent[p][to])
    BY <1>1, <1>4 DEF ChannelInv
  <2>2. /\ IsSeq(Append(sent[p][to], payload)) /\ Append(sent[p][to], payload) # <<>>
        /\ Len(sent[p][to]) \in Nat
        /\ \A i \in 1 .. Len(sent[p][to]) : Append(sent[p][to], payload)[i] = sent[p][to][i]
        /\ Append(sent[p][to], payload)[Len(sent[p][to]) + 1] = payload
    BY <2>1, AppendToSeq
  <2>3. \A r \in Party : IsSeq(sent'[p][r])
    BY <1>1, <1>2, <2>2 DEF ChannelInv
  <2>4. ASSUME to = nextOf(p)
        PROVE  Append(sent[p][to], payload)[1] = p
    <3>1. CASE sent[p][to] = <<>>
      <4>1. CASE pc[p] = 0
        BY <2>2, <3>1, <4>1
      <4>2. CASE pc[p] # 0
        BY <4>2, <3>1, <2>4, <1>1 DEF ChannelInv
      <4> QED
        BY <4>1, <4>2
    <3>2. CASE sent[p][to] # <<>>
      <4>1. 1 \in 1 .. Len(sent[p][to])
        BY <3>2, <2>1, <2>2 DEF IsSeq
      <4> QED
        BY <4>1, <2>2, <2>4, <3>2, <1>1 DEF ChannelInv
    <3> QED
      BY <3>1, <3>2
  <2>5. nextOf(p) \in Party
    BY PartyFacts
  <2>6. sent'[p][nextOf(p)] # <<>>
    BY <1>1, <1>2, <2>2, <2>5 DEF ChannelInv
  <2>7. sent'[p][nextOf(p)][1] = p
    BY <1>1, <1>2, <2>4, <2>5 DEF ChannelInv
  <2> QED
    BY <1>2, <2>3, <2>6, <2>7 DEF ChannelInv
<1>5. ASSUME to \notin Party
      PROVE  ChannelInv(p)'
  <2>1. \A r \in Party : sent'[p][r] = sent[p][r]
    BY <1>2, <1>5
  <2>2. pc[p] # 0
    BY <1>5, PartyFacts
  <2>3. nextOf(p) \in Party
    BY PartyFacts
  <2> QED
    BY <1>1, <1>2, <2>1, <2>2, <2>3 DEF ChannelInv
<1> QED
  BY <1>2, <1>3, <1>4, <1>5

(* A party that has drawn, and one that has taken a pair of common words.  *)
LEMMA DrawKeeps ==
  ASSUME RandomInv, NEW p \in Party, Draw(p)
  PROVE  LogsInv(p)' /\ GenInv(p)'
<1>1. /\ pc[p] \in Nat /\ pc[p] >= 2 /\ pc'[p] = pc[p] + 1
      /\ draws'[p] = Append(draws[p], Drawn(gen[p])) /\ gen'[p] = AfterDraw(gen[p]) /\ tuples'[p] = tuples[p]
  BY DEF RandomInv, Domains, Draw, At, Advance
<1>2. LogsInv(p) /\ GenInv(p)
  BY DEF RandomInv
<1>3. PICK base \in Nat, idx \in 0 .. 2 * BuffSize[p] :
        gen[p] = GenAt(p, base, idx, Len(tuples[p])) /\ Len(draws[p]) = 2 * base + idx
  BY <1>1, <1>2 DEF GenInv
<1>4. Len(tuples[p]) \in Nat
  BY <1>2, AppendToSeq DEF LogsInv
<1>5. /\ IsSeq(draws'[p]) /\ Len(draws[p]) \in Nat /\ Len(draws'[p]) = Len(draws[p]) + 1
      /\ \A n \in 1 .. Len(draws[p]) : draws'[p][n] = draws[p][n]
      /\ draws'[p][Len(draws[p]) + 1] = Drawn(gen[p])
  BY <1>1, <1>2, AppendToSeq DEF LogsInv
<1>6. Drawn(gen[p]) = [prev |-> <<Key(p, 0), Len(draws[p])>>, next |-> <<Key(p, 1), Len(draws[p])>>]
  <2>1. Drawn(GenAt(p, base, idx, Len(tuples[p])))
          = [prev |-> <<Key(p, 0), 2 * base + idx>>, next |-> <<Key(p, 1), 2 * base + idx>>]
    BY <1>4, OneDraw
  <2> QED
    BY <2>1, <1>3
<1>7. PICK base2 \in Nat, idx2 \in 0 .. 2 * BuffSize[p] :
        /\ gen'[p] = GenAt(p, base2, idx2, Len(tuples[p]))
        /\ 2 * base2 + idx2 = Len(draws[p]) + 1
  <2>1. \E base2 \in Nat, idx2 \in 0 .. 2 * BuffSize[p] :
          /\ AfterDraw(gen[p]) = GenAt(p, base2, idx2, Len(tuples[p]))
          /\ 2 * base2 + idx2 = 2 * base + idx + 1
    BY <1>3, <1>4, OneDraw, SMTT(60)
  <2> QED
    BY <2>1, <1>1, <1>3
<1>8. GenInv(p)'
  BY <1>1, <1>5, <1>7 DEF GenInv
<1>9. LogsInv(p)'
  <2>1. \A n \in 1 .. Len(draws'[p]) :
          draws'[p][n] = [prev |-> <<Key(p, 0), n - 1>>, next |-> <<Key(p, 1), n - 1>>]
    <3> TAKE n \in 1 .. Len(draws'[p])
    <3>1. CASE n \in 1 .. Len(draws[p])
      BY <1>2, <1>5, <3>1 DEF LogsInv
    <3>2. CASE n = Len(draws[p]) + 1
      <4>1. n - 1 = Len(draws[p])
        BY <1>5, <3>2
      <4> QED
        BY <1>5, <1>6, <3>2, <4>1
    <3> QED
      BY <1>5, <3>1, <3>2
  <2> QED
    BY <1>1, <1>2, <1>5, <2>1 DEF LogsInv
<1> QED
  BY <1>8, <1>9

LEMMA TupleKeeps ==
  ASSUME RandomInv, NEW p \in Party, Tuple(p)
  PROVE  LogsInv(p)' /\ GenInv(p)'
<1> DEFINE pair == [next |-> Word(gen[p].mNextCommon), prev |-> Word(gen[p].mPrevCommon)]
           after == [gen[p] EXCEPT !.mNextCommon = AfterWord(@), !.mPrevCommon = AfterWord(@)]
<1>1. /\ pc[p] \in Nat /\ pc[p] >= 2 /\ pc'[p] = pc[p] + 1
      /\ tuples'[p] = Append(tuples[p], pair) /\ gen'[p] = after /\ draws'[p] = draws[p]
  BY DEF RandomInv, Domains, Tuple, At, Advance
<1>2. LogsInv(p) /\ GenInv(p)
  BY DEF RandomInv
<1>3. PICK base \in Nat, idx \in 0 .. 2 * BuffSize[p] :
        gen[p] = GenAt(p, base, idx, Len(tuples[p])) /\ Len(draws[p]) = 2 * base + idx
  BY <1>1, <1>2 DEF GenInv
<1>5. /\ IsSeq(tuples'[p]) /\ Len(tuples[p]) \in Nat /\ Len(tuples'[p]) = Len(tuples[p]) + 1
      /\ \A n \in 1 .. Len(tuples[p]) : tuples'[p][n] = tuples[p][n]
      /\ tuples'[p][Len(tuples[p]) + 1] = pair
  BY <1>1, <1>2, AppendToSeq DEF LogsInv
<1>6. /\ gen[p].mNextCommon = [seed |-> p, pos |-> 4 + Len(tuples[p])]
      /\ gen[p].mPrevCommon = [seed |-> prevOf(p), pos |-> 4 + Len(tuples[p])]
  BY <1>3 DEF GenAt, Gen
<1>7. pair = [prev |-> <<prevOf(p), 4 + Len(tuples[p])>>, next |-> <<p, 4 + Len(tuples[p])>>]
  BY <1>6 DEF Word
<1>8. gen'[p] = GenAt(p, base, idx, Len(tuples[p]) + 1)
  <2> DEFINE keys == [i \in 0 .. 1 |-> Key(p, i)]
             x == AfterWord(gen[p].mNextCommon)
             y == AfterWord(gen[p].mPrevCommon)
             At4(seed, k) == [seed |-> seed, pos |-> 4 + k]
             G(prev, next) == Gen(BuffSize[p], prev, next, keys, base + BuffSize[p], idx, BuffersAt(p, base))
             at == G(At4(prevOf(p), Len(tuples[p])), At4(p, Len(tuples[p])))
  <2>1. x = At4(p, Len(tuples[p]) + 1) /\ y = At4(prevOf(p), Len(tuples[p]) + 1)
    BY <1>5, <1>6 DEF AfterWord
  <2>2. gen[p] = at
    BY <1>3 DEF GenAt
  <2>3. after = [at EXCEPT !.mNextCommon = x, !.mPrevCommon = y]
    BY <2>2
  <2> HIDE DEF x, y, keys, At4
  <2>4. [at EXCEPT !.mNextCommon = x, !.mPrevCommon = y] = [[at EXCEPT !.mNextCommon = x] EXCEPT !.mPrevCommon = y]
    BY DEF Gen
  <2>5. [at EXCEPT !.mNextCommon = x] = G(At4(prevOf(p), Len(tuples[p])), x)
    BY DEF Gen
  <2>6. [G(At4(prevOf(p), Len(tuples[p])), x) EXCEPT !.mPrevCommon = y] = G(y, x)
    BY DEF Gen
  <2>7. G(y, x) = GenAt(p, base, idx, Len(tuples[p]) + 1)
    BY <2>1 DEF GenAt, keys, At4
  <2> HIDE DEF at, G
  <2> QED
    BY <1>1, <2>3, <2>4, <2>5, <2>6, <2>7
<1>9. GenInv(p)'
  BY <1>1, <1>3, <1>5, <1>8 DEF GenInv
<1>10. LogsInv(p)'
  <2>1. \A n \in 1 .. Len(tuples'[p]) : tuples'[p][n] = [prev |-> <<prevOf(p), 3 + n>>, next |-> <<p, 3 + n>>]
    <3> TAKE n \in 1 .. Len(tuples'[p])
    <3>1. CASE n \in 1 .. Len(tuples[p])
      BY <1>2, <1>5, <3>1 DEF LogsInv
    <3>2. CASE n = Len(tuples[p]) + 1
      <4>1. 3 + n = 4 + Len(tuples[p])
        BY <1>5, <3>2
      <4> HIDE DEF pair
      <4> QED
        BY <1>5, <1>7, <3>2, <4>1
    <3> QED
      BY <1>5, <3>1, <3>2
  <2> QED
    BY <1>1, <1>2, <1>5, <2>1 DEF LogsInv
<1> QED
  BY <1>9, <1>10

(* The seed that a party receives is its neighbour's.                      *)
LEMMA RecvSeedKeeps ==
  ASSUME RandomInv, NEW p \in Party, RecvSeed(p)
  PROVE  GenInv(p)'
<1> DEFINE g == NewShareGen(sent[prevOf(p)][p][1], p, BuffSize[p])
<1>1. /\ pc[p] = 1 /\ pc'[p] = 2 /\ draws'[p] = draws[p] /\ tuples'[p] = tuples[p]
      /\ gen'[p] = Keyed(g)
  BY DEF RandomInv, Domains, RecvSeed, Advance, Keyed
<1>2. sent[prevOf(p)][p][1] = prevOf(p)
  <2>1. ChannelInv(prevOf(p)) /\ nextOf(prevOf(p)) = p /\ sent[prevOf(p)][p] # <<>>
    BY PartyFacts DEF RandomInv, RecvSeed
  <2> QED
    BY <2>1 DEF ChannelInv
<1>3. gen'[p] = GenAt(p, 0, 0, 0)
  BY <1>1, <1>2, NewGen
<1>4. draws'[p] = <<>> /\ tuples'[p] = <<>>
  BY <1>1 DEF RandomInv, GenInv
<1>5. gen'[p] = GenAt(p, 0, 0, Len(tuples'[p])) /\ Len(draws'[p]) = 2 * 0 + 0
  BY <1>3, <1>4
<1>6. 0 \in Nat /\ 0 \in 0 .. 2 * BuffSize[p]
  BY PartyFacts
<1>7. \E base \in Nat, idx \in 0 .. 2 * BuffSize[p] :
        gen'[p] = GenAt(p, base, idx, Len(tuples'[p])) /\ Len(draws'[p]) = 2 * base + idx
  BY <1>5, <1>6
<1> QED
  BY <1>1, <1>7 DEF GenInv

-----------------------------------------------------------------------------
(* The invariant holds at the start and is kept by every step.             *)
THEOREM RandomInvariant == Spec => []RandomInv
<1>1. Init => RandomInv
  <2> SUFFICES ASSUME Init PROVE RandomInv
    OBVIOUS
  <2>1. IsSeq(<<>>) /\ Len(<<>>) = 0
    <3>1. <<>> \in Seq({})
      OBVIOUS
    <3> QED
      BY <3>1 DEF IsSeq
  <2>2. Domains
    BY DEF Init, Domains
  <2>3. \A p \in Party : pc[p] = 0 /\ draws[p] = <<>> /\ tuples[p] = <<>>
    BY DEF Init
  <2>4. \A p \in Party : DOMAIN sent[p] = Party /\ \A q \in Party : sent[p][q] = <<>>
    BY DEF Init
  <2>5. \A p \in Party : LogsInv(p)
    BY <2>1, <2>3 DEF LogsInv
  <2>6. \A p \in Party : ChannelInv(p)
    BY <2>1, <2>3, <2>4, PartyFacts DEF ChannelInv
  <2>7. \A p \in Party : GenInv(p)
    BY <2>3 DEF GenInv
  <2> QED
    BY <2>2, <2>5, <2>6, <2>7 DEF RandomInv
<1>2. RandomInv /\ [Next]_vars => RandomInv'
  <2> SUFFICES ASSUME RandomInv, [Next]_vars PROVE RandomInv'
    OBVIOUS
  <2>0. /\ pc \in [Party -> Nat] /\ DOMAIN gen = Party /\ DOMAIN sent = Party
        /\ DOMAIN draws = Party /\ DOMAIN tuples = Party
        /\ \A q \in Party : LogsInv(q) /\ ChannelInv(q) /\ GenInv(q)
    BY DEF RandomInv, Domains
  <2>1. ASSUME NEW p \in Party, SendSeed(p) PROVE RandomInv'
    <3>1. /\ pc' \in [Party -> Nat] /\ pc[p] = 0 /\ pc'[p] = 1 /\ \A q \in Party : q # p => pc'[q] = pc[q]
          /\ gen' = gen /\ draws' = draws /\ tuples' = tuples /\ SendTo(p, nextOf(p), p)
      BY <2>0, <2>1 DEF SendSeed, Advance
    <3>2. DOMAIN sent' = Party /\ \A q \in Party : ChannelInv(q)'
      BY <3>1, OneMore, PartyFacts
    <3>3. \A q \in Party : LogsInv(q)'
      BY <2>0, <3>1, SameLogs
    <3>4. \A q \in Party : GenInv(q)'
      BY <2>0, <3>1, SameGen
    <3> QED
      BY <2>0, <3>1, <3>2, <3>3, <3>4 DEF RandomInv, Domains
  <2>2. ASSUME NEW p \in Party, RecvSeed(p) PROVE RandomInv'
    <3>1. /\ pc' \in [Party -> Nat] /\ pc[p] = 1 /\ pc'[p] = 2 /\ \A q \in Party : q # p => pc'[q] = pc[q]
          /\ DOMAIN gen' = Party /\ \A q \in Party : q # p => gen'[q] = gen[q]
          /\ sent' = sent /\ draws' = draws /\ tuples' = tuples
      BY <2>0, <2>2 DEF RecvSeed, Advance
    <3>2. \A q \in Party : ChannelInv(q)'
      BY <2>0, <3>1, SameChannel
    <3>3. \A q \in Party : LogsInv(q)'
      BY <2>0, <3>1, SameLogs
    <3>4. \A q \in Party : GenInv(q)'
      BY <2>0, <2>2, <3>1, SameGen, RecvSeedKeeps
    <3> QED
      BY <2>0, <3>1, <3>2, <3>3, <3>4 DEF RandomInv, Domains
  <2>3. ASSUME NEW p \in Party, Draw(p) \/ Tuple(p) PROVE RandomInv'
    <3>1. /\ pc' \in [Party -> Nat] /\ pc[p] >= 2 /\ pc'[p] = pc[p] + 1
          /\ \A q \in Party : q # p => pc'[q] = pc[q]
          /\ DOMAIN gen' = Party /\ DOMAIN draws' = Party /\ DOMAIN tuples' = Party
          /\ \A q \in Party : q # p => gen'[q] = gen[q] /\ draws'[q] = draws[q] /\ tuples'[q] = tuples[q]
          /\ sent' = sent
      BY <2>0, <2>3 DEF Draw, Tuple, At, Advance
    <3>2. \A q \in Party : ChannelInv(q)'
      BY <2>0, <3>1, SameChannel
    <3>3. LogsInv(p)' /\ GenInv(p)'
      BY <2>3, DrawKeeps, TupleKeeps
    <3>4. \A q \in Party : LogsInv(q)'
      BY <2>0, <3>1, <3>3, SameLogs
    <3>5. \A q \in Party : GenInv(q)'
      BY <2>0, <3>1, <3>3, SameGen
    <3> QED
      BY <2>0, <3>1, <3>2, <3>4, <3>5 DEF RandomInv, Domains
  <2>4. ASSUME NEW p \in Party, Gives(p) \/ Takes(p) \/ Get(p) PROVE RandomInv'
    <3>1. /\ pc' \in [Party -> Nat] /\ pc[p] >= 2 /\ pc'[p] = pc[p] + 1
          /\ \A q \in Party : q # p => pc'[q] = pc[q]
          /\ gen' = gen /\ draws' = draws /\ tuples' = tuples
      <4>1. pc[p] >= 2 /\ Advance(p) /\ gen' = gen /\ draws' = draws /\ tuples' = tuples
        BY <2>4 DEF Gives, Takes, Get, At
      <4> QED
        BY <2>0, <4>1 DEF Advance
    <3>2. DOMAIN sent' = Party /\ \A q \in Party : ChannelInv(q)'
      <4>1. CASE Gives(p)
        <5>1. PICK to, payload : SendTo(p, to, payload)
          BY <4>1 DEF Gives
        <5>2. pc'[p] # 0 /\ pc[p] # 0
          BY <2>0, <3>1
        <5> QED
          BY <5>1, <5>2, <3>1, OneMore
      <4>2. CASE Takes(p) \/ Get(p)
        <5>1. sent' = sent
          BY <4>2 DEF Takes, Get
        <5> QED
          BY <5>1, <2>0, <3>1, SameChannel
      <4> QED
        BY <2>4, <4>1, <4>2
    <3>3. \A q \in Party : LogsInv(q)'
      BY <2>0, <3>1, SameLogs
    <3>4. \A q \in Party : GenInv(q)'
      BY <2>0, <3>1, SameGen
    <3> QED
      BY <2>0, <3>1, <3>2, <3>3, <3>4 DEF RandomInv, Domains
  <2>5. ASSUME UNCHANGED <<pc, gen, sent, draws, tuples>> PROVE RandomInv'
    BY <2>5 DEF RandomInv, Domains, LogsInv, ChannelInv, GenInv
  <2>6. ASSUME NEW p \in Party, InputOutput(p) PROVE RandomInv'
    BY <2>5, <2>6 DEF InputOutput, Arrive, CountDown, Complete, Becomes
  <2>7. CASE UNCHANGED vars
    BY <2>5, <2>7 DEF vars
  <2> QED
    BY <2>1, <2>2, <2>3, <2>4, <2>6, <2>7 DEF Next, Thread
<1> QED
  BY <1>1, <1>2, PTL DEF Spec

(* The n-th draws of neighbours share a word, from the buffers and from the*)
(* common streams, whatever the lengths of the buffers and whoever is ahead*)
(* (getShare, getBinaryShare, getRandIntShare and getTruncationTuple).     *)
THEOREM SharesAgreeHolds == Spec => []SharesAgree
<1>1. RandomInv => SharesAgree
  <2> SUFFICES ASSUME RandomInv, NEW p \in Party
               PROVE  /\ \A n \in DOMAIN draws[p] \cap DOMAIN draws[nextOf(p)] :
                           draws[p][n].next = draws[nextOf(p)][n].prev
                      /\ \A n \in DOMAIN tuples[p] \cap DOMAIN tuples[nextOf(p)] :
                           tuples[p][n].next = tuples[nextOf(p)][n].prev
    BY DEF SharesAgree, Fit
  <2>1. LogsInv(p) /\ LogsInv(nextOf(p)) /\ prevOf(nextOf(p)) = p
    BY PartyFacts DEF RandomInv
  <2>2. /\ DOMAIN draws[p] = 1 .. Len(draws[p]) /\ DOMAIN tuples[p] = 1 .. Len(tuples[p])
        /\ DOMAIN draws[nextOf(p)] = 1 .. Len(draws[nextOf(p)])
        /\ DOMAIN tuples[nextOf(p)] = 1 .. Len(tuples[nextOf(p)])
    BY <2>1, AppendToSeq DEF LogsInv
  <2>3. Key(p, 1) = Key(nextOf(p), 0)
    BY <2>1 DEF Key
  <2>4. ASSUME NEW n \in DOMAIN draws[p] \cap DOMAIN draws[nextOf(p)]
        PROVE  draws[p][n].next = draws[nextOf(p)][n].prev
    <3>1. /\ draws[p][n] = [prev |-> <<Key(p, 0), n - 1>>, next |-> <<Key(p, 1), n - 1>>]
          /\ draws[nextOf(p)][n] = [prev |-> <<Key(nextOf(p), 0), n - 1>>, next |-> <<Key(nextOf(p), 1), n - 1>>]
      BY <2>1, <2>2, <2>4 DEF LogsInv
    <3> QED
      BY <2>3, <3>1
  <2>5. ASSUME NEW n \in DOMAIN tuples[p] \cap DOMAIN tuples[nextOf(p)]
        PROVE  tuples[p][n].next = tuples[nextOf(p)][n].prev
    <3>1. /\ tuples[p][n] = [prev |-> <<prevOf(p), 3 + n>>, next |-> <<p, 3 + n>>]
          /\ tuples[nextOf(p)][n] = [prev |-> <<prevOf(nextOf(p)), 3 + n>>, next |-> <<nextOf(p), 3 + n>>]
      BY <2>1, <2>2, <2>5 DEF LogsInv
    <3> QED
      BY <2>1, <3>1
  <2> QED
    BY <2>4, <2>5
<1> QED
  BY <1>1, RandomInvariant, PTL

(* No word of a buffer or of a common stream is drawn twice, across all the*)
(* refills (the part of NothingReused that is about Sh3ShareGen).          *)
THEOREM DrawsOnceHolds == Spec => []DrawsOnce
<1>1. RandomInv => DrawsOnce
  <2> SUFFICES ASSUME RandomInv, NEW p \in Party
               PROVE  Once(draws[p]) /\ Once(tuples[p])
    BY DEF DrawsOnce
  <2>1. LogsInv(p)
    BY DEF RandomInv
  <2>2. /\ DOMAIN draws[p] = 1 .. Len(draws[p]) /\ Len(draws[p]) \in Nat
        /\ DOMAIN tuples[p] = 1 .. Len(tuples[p]) /\ Len(tuples[p]) \in Nat
    BY <2>1, AppendToSeq DEF LogsInv
  <2>3. ASSUME NEW m \in DOMAIN draws[p], NEW n \in DOMAIN draws[p], m # n
        PROVE  draws[p][m].next # draws[p][n].next /\ draws[p][m].prev # draws[p][n].prev
    <3>1. m - 1 # n - 1
      BY <2>2, <2>3
    <3>2. /\ draws[p][m] = [prev |-> <<Key(p, 0), m - 1>>, next |-> <<Key(p, 1), m - 1>>]
          /\ draws[p][n] = [prev |-> <<Key(p, 0), n - 1>>, next |-> <<Key(p, 1), n - 1>>]
      BY <2>1, <2>2, <2>3 DEF LogsInv
    <3> QED
      BY <3>1, <3>2
  <2>4. ASSUME NEW m \in DOMAIN tuples[p], NEW n \in DOMAIN tuples[p], m # n
        PROVE  tuples[p][m].next # tuples[p][n].next /\ tuples[p][m].prev # tuples[p][n].prev
    <3>1. 3 + m # 3 + n
      BY <2>2, <2>4
    <3>2. /\ tuples[p][m] = [prev |-> <<prevOf(p), 3 + m>>, next |-> <<p, 3 + m>>]
          /\ tuples[p][n] = [prev |-> <<prevOf(p), 3 + n>>, next |-> <<p, 3 + n>>]
      BY <2>1, <2>2, <2>4 DEF LogsInv
    <3> QED
      BY <3>1, <3>2
  <2> QED
    BY <2>3, <2>4 DEF Once
<1> QED
  BY <1>1, RandomInvariant, PTL

-----------------------------------------------------------------------------
(* What help gives: the word of each choice, block after block, whatever   *)
(* the steps in which the blocks are made.                                 *)
WordsFrom(key, idx, choices, m, len) == [j \in 1 .. len |-> <<key, 2 * (idx + j - 1) + choices[m + j]>>]
Helped(key, idx, choices, m) ==
  [ot |-> [key |-> key, mIdx |-> idx + m], payload |-> WordsFrom(key, idx, choices, 0, m)]

(* One step of help.                                                       *)
HelpChunk(h, len, choices) ==
  [ot |-> [h.ot EXCEPT !.mIdx = @ + len],
   payload |-> h.payload \o [j \in 1 .. len |-> MaskWord(h.ot, h.ot.mIdx + j - 1, choices[Len(h.payload) + j])]]

LEMMA ChunkOnRecord ==
  ASSUME NEW key, NEW m, NEW len, NEW payload, NEW choices, m \in Nat, len \in Nat
  PROVE  HelpChunk([ot |-> [key |-> key, mIdx |-> m], payload |-> payload], len, choices)
           = [ot |-> [key |-> key, mIdx |-> m + len],
              payload |-> payload \o WordsFrom(key, m, choices, Len(payload), len)]
<1> DEFINE obj == [key |-> key, mIdx |-> m]
<1>1. [obj EXCEPT !.mIdx = @ + len] = [key |-> key, mIdx |-> m + len]
  OBVIOUS
<1>2. \A j \in 1 .. len : MaskWord(obj, obj.mIdx + j - 1, choices[Len(payload) + j])
                            = <<key, 2 * (m + j - 1) + choices[Len(payload) + j]>>
  BY DEF MaskWord
<1>3. [j \in 1 .. len |-> MaskWord(obj, obj.mIdx + j - 1, choices[Len(payload) + j])]
        = [j \in 1 .. len |-> <<key, 2 * (m + j - 1) + choices[Len(payload) + j]>>]
  BY <1>2
<1> QED
  BY <1>1, <1>3 DEF HelpChunk, WordsFrom

LEMMA DivideSteps ==
  ASSUME NEW n \in Nat
  PROVE  /\ n \div HelpStep \in Nat
         /\ n - (n \div HelpStep) * HelpStep \in Nat
  BY HelpStepAssumption

HelpSteps(n) == n \div HelpStep
HelpRest(n) == n - HelpSteps(n) * HelpStep
HelpCalls(n) == HelpSteps(n) + HelpRest(n)

LEMMA LengthsAre ==
  ASSUME NEW n \in Nat
  PROVE  /\ HelpSteps(n) \in Nat /\ HelpRest(n) \in Nat /\ HelpCalls(n) \in Nat
         /\ DOMAIN HelpLengths(n) = 1 .. HelpCalls(n)
         /\ \A k \in 1 .. HelpCalls(n) : HelpLengths(n)[k] = IF k <= HelpSteps(n) THEN HelpStep ELSE 1
<1> DEFINE a == [k \in 1 .. HelpSteps(n) |-> HelpStep]
           b == [k \in 1 .. HelpRest(n) |-> 1]
<1>1. HelpSteps(n) \in Nat /\ HelpRest(n) \in Nat /\ HelpCalls(n) \in Nat
  BY DivideSteps DEF HelpSteps, HelpRest, HelpCalls
<1>2. a \in Seq(Nat) /\ b \in Seq(Nat) /\ Len(a) = HelpSteps(n) /\ Len(b) = HelpRest(n)
  BY <1>1, HelpStepAssumption
<1>3. HelpLengths(n) = a \o b
  BY DEF HelpLengths, HelpSteps, HelpRest
<1>4. a \o b \in Seq(Nat) /\ Len(a \o b) = HelpCalls(n)
  <2> HIDE DEF a, b
  <2> QED
    BY <1>2, ConcatProperties DEF HelpCalls
<1>5. \A k \in 1 .. HelpCalls(n) : (a \o b)[k] = IF k <= HelpSteps(n) THEN a[k] ELSE b[k - HelpSteps(n)]
  <2> HIDE DEF a, b
  <2>1. \A k \in 1 .. Len(a) + Len(b) : (a \o b)[k] = IF k <= Len(a) THEN a[k] ELSE b[k - Len(a)]
    BY <1>2, ConcatProperties, Zenon
  <2> QED
    BY <1>1, <1>2, <2>1 DEF HelpCalls
<1>6. ASSUME NEW k \in 1 .. HelpCalls(n)
      PROVE  (a \o b)[k] = IF k <= HelpSteps(n) THEN HelpStep ELSE 1
  <2>1. CASE k <= HelpSteps(n)
    BY <1>1, <1>5, <2>1
  <2>2. CASE ~ k <= HelpSteps(n)
    <3>1. k - HelpSteps(n) \in 1 .. HelpRest(n)
      BY <1>1, <2>2 DEF HelpCalls
    <3> QED
      BY <1>5, <2>2, <3>1
  <2> QED
    BY <2>1, <2>2
<1>7. DOMAIN (a \o b) = 1 .. HelpCalls(n)
  <2> HIDE DEF a, b
  <2> QED
    BY <1>4, LenProperties
<1> QED
  BY <1>1, <1>3, <1>6, <1>7

(* The words of choices from number m on; what help gives is of these.     *)
ChoiceWords(key, choices) == {<<key, 2 * x[1] + choices[x[2]]>> : x \in Nat \X Nat}

LEMMA WordsFromAre ==
  ASSUME NEW key, NEW choices, NEW idx, NEW m, NEW len, idx \in Nat, m \in Nat, len \in Nat
  PROVE  /\ WordsFrom(key, idx, choices, m, len) \in Seq(ChoiceWords(key, choices))
         /\ Len(WordsFrom(key, idx, choices, m, len)) = len
<1>1. ASSUME NEW j \in 1 .. len
      PROVE  <<key, 2 * (idx + j - 1) + choices[m + j]>> \in ChoiceWords(key, choices)
  <2>1. <<idx + j - 1, m + j>> \in Nat \X Nat
    OBVIOUS
  <2> QED
    BY <2>1 DEF ChoiceWords
<1>2. WordsFrom(key, idx, choices, m, len) \in [1 .. len -> ChoiceWords(key, choices)]
  BY <1>1 DEF WordsFrom
<1>3. Len(WordsFrom(key, idx, choices, m, len)) = len
  BY DEF WordsFrom
<1> QED
  BY <1>2, <1>3

(* What the fold passes through.                                           *)
HelpStates(key, choices) == [ot : [key : {key}, mIdx : Nat], payload : Seq(ChoiceWords(key, choices))]

LEMMA ChunkKeeps ==
  ASSUME NEW key, NEW choices, NEW h, NEW len, h \in HelpStates(key, choices), len \in Nat
  PROVE  HelpChunk(h, len, choices) \in HelpStates(key, choices)
<1> DEFINE V == ChoiceWords(key, choices)
           m == h.ot.mIdx
           w == h.payload
           more == WordsFrom(key, m, choices, Len(w), len)
<1>1. m \in Nat /\ w \in Seq(V) /\ Len(w) \in Nat /\ h = [ot |-> [key |-> key, mIdx |-> m], payload |-> w]
  BY DEF HelpStates
<1>2. more \in Seq(V)
  <2> HIDE DEF m, w
  <2> QED
    BY <1>1, WordsFromAre
<1>3. w \o more \in Seq(V)
  <2> HIDE DEF V, m, w, more
  <2> QED
    BY <1>1, <1>2, ConcatProperties
<1>4. HelpChunk(h, len, choices) = [ot |-> [key |-> key, mIdx |-> m + len], payload |-> w \o more]
  <2> HIDE DEF m, w
  <2>1. HelpChunk([ot |-> [key |-> key, mIdx |-> m], payload |-> w], len, choices)
          = [ot |-> [key |-> key, mIdx |-> m + len], payload |-> w \o more]
    BY <1>1, ChunkOnRecord, ZenonT(60)
  <2> QED
    BY <1>1, <2>1
<1> HIDE DEF more, w, m
<1>5. m + len \in Nat
  BY <1>1
<1> HIDE DEF V
<1> QED
  BY <1>3, <1>4, <1>5 DEF HelpStates, V

LEMMA ChunkOnWords ==
  ASSUME NEW key, NEW choices, NEW idx, NEW m, NEW len, idx \in Nat, m \in Nat, len \in Nat
  PROVE  HelpChunk(Helped(key, idx, choices, m), len, choices) = Helped(key, idx, choices, m + len)
<1> DEFINE w == WordsFrom(key, idx, choices, 0, m)
<1>0. 0 \in Nat /\ idx + m \in Nat
  OBVIOUS
<1>1. Len(w) = m
  BY <1>0, WordsFromAre
<1>2. HelpChunk([ot |-> [key |-> key, mIdx |-> idx + m], payload |-> w], len, choices)
        = [ot |-> [key |-> key, mIdx |-> idx + m + len], payload |-> w \o WordsFrom(key, idx + m, choices, m, len)]
  <2> HIDE DEF w
  <2>1. HelpChunk([ot |-> [key |-> key, mIdx |-> idx + m], payload |-> w], len, choices)
          = [ot |-> [key |-> key, mIdx |-> idx + m + len],
             payload |-> w \o WordsFrom(key, idx + m, choices, Len(w), len)]
    BY <1>0, ChunkOnRecord, ZenonT(60)
  <2> QED
    BY <1>1, <2>1
<1>3. w \o WordsFrom(key, idx + m, choices, m, len) = WordsFrom(key, idx, choices, 0, m + len)
  <2> DEFINE V == ChoiceWords(key, choices)
             a == WordsFrom(key, idx, choices, 0, m)
             b == WordsFrom(key, idx + m, choices, m, len)
             c == WordsFrom(key, idx, choices, 0, m + len)
  <2>0. 0 \in Nat /\ idx + m \in Nat /\ m + len \in Nat
    OBVIOUS
  <2>1. a \in Seq(V) /\ Len(a) = m
    BY <2>0, WordsFromAre
  <2>2. b \in Seq(V) /\ Len(b) = len
    BY <2>0, WordsFromAre
  <2>3. c \in Seq(V) /\ Len(c) = m + len
    BY <2>0, WordsFromAre
  <2>7. /\ \A j \in 1 .. m : a[j] = <<key, 2 * (idx + j - 1) + choices[0 + j]>>
        /\ \A j \in 1 .. len : b[j] = <<key, 2 * (idx + m + j - 1) + choices[m + j]>>
        /\ \A j \in 1 .. (m + len) : c[j] = <<key, 2 * (idx + j - 1) + choices[0 + j]>>
    BY DEF WordsFrom
  <2> HIDE DEF V, a, b, c
  <2>4. /\ a \o b \in Seq(V) /\ Len(a \o b) = m + len
        /\ \A j \in 1 .. (m + len) : (a \o b)[j] = IF j <= m THEN a[j] ELSE b[j - m]
    BY <2>1, <2>2, ConcatProperties
  <2>5. ASSUME NEW j \in 1 .. (m + len) PROVE (a \o b)[j] = c[j]
    <3>1. CASE j <= m
      <4>1. j \in 1 .. m
        BY <3>1
      <4> QED
        BY <2>7, <2>4, <3>1, <4>1
    <3>2. CASE ~ j <= m
      <4>1. j - m \in 1 .. len /\ idx + m + (j - m) - 1 = idx + j - 1 /\ m + (j - m) = 0 + j
        BY <3>2
      <4>2. b[j - m] = <<key, 2 * (idx + m + (j - m) - 1) + choices[m + (j - m)]>>
        BY <2>7, <4>1
      <4> QED
        BY <2>7, <2>4, <3>2, <4>1, <4>2
    <3> QED
      BY <3>1, <3>2
  <2>6. a \o b = c
    BY <2>3, <2>4, <2>5, SeqEqual
  <2> QED
    BY <2>6 DEF a, b, c
<1>4. idx + m + len = idx + (m + len)
  OBVIOUS
<1> HIDE DEF w
<1> QED
  BY <1>2, <1>3, <1>4 DEF Helped, w

LEMMA HelpIs ==
  ASSUME NEW key, NEW idx \in Nat, NEW choices, Len(choices) \in Nat
  PROVE  Help([key |-> key, mIdx |-> idx], choices) = Helped(key, idx, choices, Len(choices))
<1> DEFINE n == Len(choices)
           seq == HelpLengths(n)
           L == HelpCalls(n)
           obj == [key |-> key, mIdx |-> idx]
           base == [ot |-> obj, payload |-> <<>>]
           D == HelpStates(key, choices)
           St == [x \in D \X (1 .. L) |-> HelpChunk(x[1], seq[x[2]], choices)]
<1>1. /\ HelpSteps(n) \in Nat /\ HelpRest(n) \in Nat /\ L \in Nat /\ DOMAIN seq = 1 .. L
      /\ \A k \in 1 .. L : seq[k] = IF k <= HelpSteps(n) THEN HelpStep ELSE 1
      /\ HelpStep \in Nat
  BY LengthsAre, HelpStepAssumption
<1>2. base \in D
  BY DEF HelpStates
<1> HIDE DEF base, seq, L, D
<1>3. \A h \in D : \A k \in 1 .. L : HelpChunk(h, seq[k], choices) \in D
  BY <1>1, ChunkKeeps DEF D
<1>4. St \in [D \X (1 .. L) -> D]
  BY <1>3
<1>5. PICK F \in [SUBSET (1 .. L) -> D] : Folds(F, L, base, St)
  <2> HIDE DEF St
  <2> QED
    BY <1>1, <1>2, <1>4, FoldExists
<1>6. F = [s \in SUBSET (1 .. L) |-> IF s = {} THEN base ELSE HelpChunk(F[s \ {Max(s)}], seq[Max(s)], choices)]
  <2>1. ASSUME NEW s \in SUBSET (1 .. L), s # {}
        PROVE  St[<<F[s \ {Max(s)}], Max(s)>>] = HelpChunk(F[s \ {Max(s)}], seq[Max(s)], choices)
    <3>1. Max(s) \in 1 .. L
      BY <1>1, <2>1, MaxOfSubset
    <3>2. F[s \ {Max(s)}] \in D
      BY <1>5
    <3> HIDE DEF Max
    <3> QED
      BY <3>1, <3>2
  <2> HIDE DEF St
  <2>2. \A s \in SUBSET (1 .. L) : s # {} => St[<<F[s \ {Max(s)}], Max(s)>>] = HelpChunk(F[s \ {Max(s)}], seq[Max(s)], choices)
    BY <2>1
  <2> QED
    BY <1>5, <2>2 DEF Folds
<1>7. PICK G : /\ G = [s \in SUBSET (1 .. L) |-> IF s = {} THEN base ELSE HelpChunk(G[s \ {Max(s)}], seq[Max(s)], choices)]
               /\ Help(obj, choices) = G[1 .. L]
  <2>1. DOMAIN HelpLengths(Len(choices)) = 1 .. L
    BY <1>1 DEF seq
  <2>2. F = [s \in SUBSET (DOMAIN HelpLengths(Len(choices))) |-> IF s = {} THEN [ot |-> obj, payload |-> <<>>]
                ELSE HelpChunk(F[s \ {Max(s)}], HelpLengths(Len(choices))[Max(s)], choices)]
    BY <1>6, <2>1, Zenon DEF base, seq
  <2> HIDE DEF obj
  <2>3. PICK G : /\ G = [s \in SUBSET (DOMAIN HelpLengths(Len(choices))) |-> IF s = {} THEN [ot |-> obj, payload |-> <<>>]
                       ELSE HelpChunk(G[s \ {Max(s)}], HelpLengths(Len(choices))[Max(s)], choices)]
                 /\ Help(obj, choices) = G[DOMAIN HelpLengths(Len(choices))]
    BY <2>2, ZenonT(60) DEF Help, FoldLeft, MapThenFoldSet, HelpChunk
  <2> QED
    BY <2>1, <2>3, Zenon DEF base, seq
<1> DEFINE Upto(k) == IF k <= HelpSteps(n) THEN k * HelpStep ELSE HelpSteps(n) * HelpStep + (k - HelpSteps(n))
           T == {k \in Nat : k <= L => G[1 .. k] = Helped(key, idx, choices, Upto(k))}
<1>8. 0 \in T
  <2>1. 1 .. 0 = {}
    OBVIOUS
  <2>2. G[{}] = base
    BY <1>7
  <2>3. Upto(0) = 0
    BY <1>1
  <2>4. Helped(key, idx, choices, 0) = base
    BY DEF Helped, WordsFrom, base
  <2> QED
    BY <2>1, <2>2, <2>3, <2>4
<1>9. ASSUME NEW k \in Nat, k \in T, k + 1 <= L
      PROVE  G[1 .. (k + 1)] = Helped(key, idx, choices, Upto(k + 1))
  <2>1. G[1 .. k] = Helped(key, idx, choices, Upto(k))
    BY <1>1, <1>9
  <2>2. G[1 .. (k + 1)] = HelpChunk(G[1 .. k], seq[k + 1], choices)
    <3>1. 1 .. (k + 1) \in SUBSET (1 .. L)
      BY <1>1, <1>9
    <3>2. /\ 1 .. (k + 1) # {}
          /\ Max(1 .. (k + 1)) = k + 1
          /\ (1 .. (k + 1)) \ {k + 1} = 1 .. k
      BY MaxOfPrefix
    <3> DEFINE s == 1 .. (k + 1)
    <3>3. G[s] = HelpChunk(G[s \ {Max(s)}], seq[Max(s)], choices)
      <4> HIDE DEF s
      <4> QED
        BY <3>1, <3>2, <1>7 DEF s
    <3> QED
      BY <3>2, <3>3
  <2>3. Upto(k) \in Nat /\ seq[k + 1] \in Nat /\ Upto(k + 1) = Upto(k) + seq[k + 1]
    <3>1. k + 1 \in 1 .. L
      BY <1>9
    <3>2. seq[k + 1] = IF k + 1 <= HelpSteps(n) THEN HelpStep ELSE 1
      BY <1>1, <3>1
    <3>3. (k + 1) * HelpStep = k * HelpStep + HelpStep /\ k * HelpStep \in Nat /\ HelpSteps(n) * HelpStep \in Nat
      BY <1>1
    <3>4. CASE k + 1 <= HelpSteps(n)
      BY <1>1, <3>2, <3>3, <3>4
    <3>5. CASE k = HelpSteps(n)
      <4>1. Upto(k) = k * HelpStep /\ Upto(k + 1) = k * HelpStep + (k + 1 - k) /\ seq[k + 1] = 1
        BY <1>1, <3>2, <3>5
      <4> HIDE DEF Upto
      <4> QED
        BY <3>3, <4>1
    <3>6. CASE k > HelpSteps(n)
      <4>1. /\ Upto(k) = HelpSteps(n) * HelpStep + (k - HelpSteps(n))
            /\ Upto(k + 1) = HelpSteps(n) * HelpStep + (k + 1 - HelpSteps(n))
            /\ seq[k + 1] = 1
        BY <1>1, <3>2, <3>6
      <4> DEFINE sum == HelpSteps(n) * HelpStep
      <4>2. sum \in Nat
        BY <3>3
      <4> HIDE DEF Upto, sum
      <4> QED
        BY <1>1, <3>6, <4>1, <4>2 DEF sum
    <3> QED
      BY <1>1, <3>4, <3>5, <3>6
  <2> HIDE DEF Upto
  <2> QED
    BY <2>1, <2>2, <2>3, ChunkOnWords
<1>10. L \in T
  <2>1. \A k \in Nat : k \in T => k + 1 \in T
    BY <1>9
  <2> HIDE DEF T
  <2> QED
    BY <1>1, <1>8, <2>1, NatInduct
<1>11. Upto(L) = n
  <2>1. HelpSteps(n) * HelpStep \in Nat /\ L = HelpSteps(n) + HelpRest(n) /\ HelpRest(n) = n - HelpSteps(n) * HelpStep
    BY <1>1 DEF L, HelpCalls, HelpRest
  <2>2. CASE HelpRest(n) = 0
    BY <1>1, <2>1, <2>2, SMTT(60)
  <2>3. CASE HelpRest(n) # 0
    BY <1>1, <2>1, <2>3
  <2> QED
    BY <2>2, <2>3
<1>12. L <= L
  BY <1>1
<1> HIDE DEF Upto
<1> QED
  BY <1>7, <1>10, <1>11, <1>12

-----------------------------------------------------------------------------
(* The n-th operation is a transfer to r; the transfers to r up to it, and *)
(* the blocks that they take.                                              *)
Toward(prog, r, n) == n \in 1 .. Len(prog) /\ prog[n].op = "transfer" /\ Receiver(prog[n]) = r
MessagesTo(prog, r) == Totals([n \in Nat |-> IF Toward(prog, r, n) THEN 1 ELSE 0])
BlocksTo(prog, r) == Totals([n \in Nat |-> IF Toward(prog, r, n) THEN Len(prog[n].choices) ELSE 0])

LEMMA TowardFacts ==
  ASSUME NEW prog \in Seq(Operations), NEW r, NEW n, Toward(prog, r, n)
  PROVE  /\ n \in Nat /\ n > 0
         /\ r \in Party /\ prog[n].sender \in Party \ {r} /\ prog[n].helper \in Party \ {r}
         /\ prog[n].sender # prog[n].helper /\ \A q \in Party : q \in {r, prog[n].sender, prog[n].helper}
         /\ prog[n].choices \in Seq({0, 1}) /\ Len(prog[n].choices) \in Nat
<1>1. n \in 1 .. Len(prog) /\ prog[n] \in Operations /\ prog[n].op = "transfer" /\ Receiver(prog[n]) = r
  BY DEF Toward
<1>2. prog[n] \in Transfers /\ prog[n].sender # prog[n].helper
  BY <1>1 DEF Operations
<1>3. prog[n].sender \in Party /\ prog[n].helper \in Party /\ prog[n].choices \in Seq({0, 1})
  BY <1>2 DEF Transfers
<1>4. r = 3 - prog[n].sender - prog[n].helper
  BY <1>1 DEF Receiver
<1> QED
  BY <1>1, <1>2, <1>3, <1>4 DEF Party

LEMMA CountsAre ==
  ASSUME NEW prog \in Seq(Operations), NEW r
  PROVE  /\ MessagesTo(prog, r)[0] = 0 /\ BlocksTo(prog, r)[0] = 0
         /\ \A n \in Nat : MessagesTo(prog, r)[n] \in Nat /\ BlocksTo(prog, r)[n] \in Nat
         /\ \A n \in Nat :
              IF Toward(prog, r, n + 1)
              THEN /\ MessagesTo(prog, r)[n + 1] = MessagesTo(prog, r)[n] + 1
                   /\ BlocksTo(prog, r)[n + 1] = BlocksTo(prog, r)[n] + Len(prog[n + 1].choices)
              ELSE /\ MessagesTo(prog, r)[n + 1] = MessagesTo(prog, r)[n]
                   /\ BlocksTo(prog, r)[n + 1] = BlocksTo(prog, r)[n]
         /\ \A m, n \in Nat : m <= n => /\ MessagesTo(prog, r)[m] <= MessagesTo(prog, r)[n]
                                        /\ BlocksTo(prog, r)[m] <= BlocksTo(prog, r)[n]
<1> DEFINE wm == [n \in Nat |-> IF Toward(prog, r, n) THEN 1 ELSE 0]
           wb == [n \in Nat |-> IF Toward(prog, r, n) THEN Len(prog[n].choices) ELSE 0]
<1>1. wm \in [Nat -> Nat] /\ wb \in [Nat -> Nat]
  <2>1. \A n \in Nat : Toward(prog, r, n) => Len(prog[n].choices) \in Nat
    BY TowardFacts
  <2> QED
    BY <2>1
<1>2. \A n \in Nat : /\ n + 1 \in Nat
                     /\ wm[n + 1] = IF Toward(prog, r, n + 1) THEN 1 ELSE 0
                     /\ wb[n + 1] = IF Toward(prog, r, n + 1) THEN Len(prog[n + 1].choices) ELSE 0
  OBVIOUS
<1>3. MessagesTo(prog, r) = Totals(wm) /\ BlocksTo(prog, r) = Totals(wb)
  BY DEF MessagesTo, BlocksTo
<1> HIDE DEF wm, wb
<1>4. /\ Totals(wm) \in [Nat -> Nat] /\ Totals(wm)[0] = 0
      /\ \A n \in Nat : Totals(wm)[n + 1] = Totals(wm)[n] + wm[n + 1]
      /\ \A m, n \in Nat : m <= n => Totals(wm)[m] <= Totals(wm)[n]
  BY <1>1, TotalsAre
<1>5. /\ Totals(wb) \in [Nat -> Nat] /\ Totals(wb)[0] = 0
      /\ \A n \in Nat : Totals(wb)[n + 1] = Totals(wb)[n] + wb[n + 1]
      /\ \A m, n \in Nat : m <= n => Totals(wb)[m] <= Totals(wb)[n]
  BY <1>1, TotalsAre
<1>6. \A n \in Nat :
        IF Toward(prog, r, n + 1)
        THEN Totals(wm)[n + 1] = Totals(wm)[n] + 1 /\ Totals(wb)[n + 1] = Totals(wb)[n] + Len(prog[n + 1].choices)
        ELSE Totals(wm)[n + 1] = Totals(wm)[n] /\ Totals(wb)[n + 1] = Totals(wb)[n]
  <2> TAKE n \in Nat
  <2>1. /\ Totals(wm)[n + 1] = Totals(wm)[n] + wm[n + 1] /\ Totals(wm)[n] \in Nat
        /\ Totals(wb)[n + 1] = Totals(wb)[n] + wb[n + 1] /\ Totals(wb)[n] \in Nat
    BY <1>4, <1>5
  <2>2. /\ wm[n + 1] = IF Toward(prog, r, n + 1) THEN 1 ELSE 0
        /\ wb[n + 1] = IF Toward(prog, r, n + 1) THEN Len(prog[n + 1].choices) ELSE 0
    BY <1>2
  <2> QED
    BY <2>1, <2>2
<1> QED
  BY <1>3, <1>4, <1>5, <1>6

-----------------------------------------------------------------------------
(* Operations that a party has done.                                       *)
Done(p) == IF pc[p] >= 2 THEN pc[p] - 2 ELSE 0

(* The key that the two others use towards r, and the word of it that hides*)
(* message "bit" of transfer i of operation n; what the sender and the     *)
(* helper send of operation n.                                             *)
OtKey(r) == <<nextOf(r), 2>>
HidingWord(prog, r, n, i, bit) == <<OtKey(r), 2 * (BlocksTo(prog, r)[n - 1] + i - 1) + bit>>
Payload(prog, q, r, n) ==
  IF q = prog[n].sender
    THEN [i \in 1 .. Len(prog[n].choices) |->
            [bit \in 0 .. 1 |-> [mask |-> HidingWord(prog, r, n, i, bit), msg |-> <<n, i, bit>>]]]
    ELSE [i \in 1 .. Len(prog[n].choices) |-> HidingWord(prog, r, n, i, prog[n].choices[i])]
Result(prog, n) == [i \in DOMAIN prog[n].choices |-> <<n, i, prog[n].choices[i]>>]

(* Where in the channel from q to r the n-th operation's message is: behind*)
(* those of the transfers to r before it, and behind the seed.             *)
Seeded(q, r) == IF r = nextOf(q) THEN 1 ELSE 0
Slot(prog, q, r, n) == Seeded(q, r) + MessagesTo(prog, r)[n]

(* The parties' counts of the blocks, the channels and the receives are    *)
(* where the operations done have brought them.                            *)
OtObject(prog, r, n) == [key |-> OtKey(r), mIdx |-> BlocksTo(prog, r)[n]]
KeysInv(p) ==
  pc[p] >= 2 => ot[p] = [mOtPrevRecver |-> OtObject(program, prevOf(p), Done(p)),
                         mOtNextRecver |-> OtObject(program, nextOf(p), Done(p))]

SentInv(p, r) ==
  /\ Len(sent[p][r]) = IF pc[p] > 0 THEN Slot(program, p, r, Done(p)) ELSE 0
  /\ \A n \in 1 .. Done(p) :
       Toward(program, r, n) => sent[p][r][Slot(program, p, r, n)] = Payload(program, p, r, n)

PostedInv(p, q) == posted[p][q] = IF pc[p] >= 2 THEN Slot(program, q, p, Done(p)) ELSE 0

(* An asyncRecv: the two messages are those of its operation, and the count*)
(* is of the callbacks that are left.                                      *)
Waiting(called) == (IF "sender" \in called THEN 0 ELSE 1) + (IF "helper" \in called THEN 0 ELSE 1)

TransferOK(prog, p, n, t) ==
  /\ DOMAIN t = {"slot", "data", "called", "mAtomic", "last", "recvMsgs", "ready"}
  /\ \A s \in Sides : t.slot[s] = Slot(prog, prog[n][s], p, n)
  /\ DOMAIN t.data = Sides
  /\ \A s \in Sides : t.data[s] = <<>> \/ t.data[s] = Payload(prog, prog[n][s], p, n)
  /\ t.called \subseteq Sides /\ \A s \in t.called : t.data[s] # <<>>
  /\ t.mAtomic = Waiting(t.called)
  /\ t.last => t.called = Sides
  /\ t.ready => t.recvMsgs = Result(prog, n)

TransfersInv(p) ==
  /\ DOMAIN transfers[p] = {n \in 1 .. Done(p) : Toward(program, p, n)}
  /\ \A n \in DOMAIN transfers[p] : TransferOK(program, p, n, transfers[p][n])

PartyInv(p) ==
  /\ pc[p] <= Len(program) + 2
  /\ KeysInv(p) /\ TransfersInv(p)
  /\ \A q \in Party \ {p} : SentInv(p, q) /\ PostedInv(p, q)

OtDomains ==
  /\ program \in Programs
  /\ DOMAIN ot = Party /\ DOMAIN transfers = Party
  /\ DOMAIN posted = Party /\ \A p \in Party : DOMAIN posted[p] = Party

OtInv == OtDomains /\ \A p \in Party : PartyInv(p)

-----------------------------------------------------------------------------
LEMMA ProgramFacts ==
  ASSUME OtInv
  PROVE  program \in Seq(Operations) /\ Len(program) \in Nat
<1>1. program \in Seq(Operations)
  BY ProgramsAssumption DEF OtInv, OtDomains
<1> QED
  BY <1>1

LEMMA NeighbourFacts ==
  \A p \in Party : /\ nextOf(p) \in Party \ {p} /\ prevOf(p) \in Party \ {p} /\ nextOf(p) # prevOf(p)
                   /\ Party \ {p} = {nextOf(p), prevOf(p)}
                   /\ nextOf(prevOf(p)) = p /\ nextOf(nextOf(p)) = prevOf(p)
  BY DEF Party, nextOf, prevOf

LEMMA SlotFacts ==
  ASSUME NEW prog, NEW q, NEW r, NEW n, prog \in Seq(Operations), n \in Nat
  PROVE  /\ Seeded(q, r) \in Nat /\ Slot(prog, q, r, n) \in Nat
         /\ Slot(prog, q, r, 0) = Seeded(q, r)
         /\ Toward(prog, r, n + 1) => Slot(prog, q, r, n + 1) = Slot(prog, q, r, n) + 1
         /\ ~ Toward(prog, r, n + 1) => Slot(prog, q, r, n + 1) = Slot(prog, q, r, n)
         /\ \A m \in Nat : m <= n => Slot(prog, q, r, m) <= Slot(prog, q, r, n)
<1>1. Seeded(q, r) \in Nat
  BY DEF Seeded
<1>2. /\ MessagesTo(prog, r)[0] = 0 /\ \A m \in Nat : MessagesTo(prog, r)[m] \in Nat
      /\ Toward(prog, r, n + 1) => MessagesTo(prog, r)[n + 1] = MessagesTo(prog, r)[n] + 1
      /\ ~ Toward(prog, r, n + 1) => MessagesTo(prog, r)[n + 1] = MessagesTo(prog, r)[n]
      /\ \A m \in Nat : m <= n => MessagesTo(prog, r)[m] <= MessagesTo(prog, r)[n]
  BY CountsAre
<1>3. /\ Slot(prog, q, r, n + 1) = Seeded(q, r) + MessagesTo(prog, r)[n + 1]
      /\ Slot(prog, q, r, n) = Seeded(q, r) + MessagesTo(prog, r)[n]
      /\ Slot(prog, q, r, 0) = Seeded(q, r) + MessagesTo(prog, r)[0]
  BY DEF Slot
<1>4. \A m \in Nat : m <= n => Slot(prog, q, r, m) <= Slot(prog, q, r, n)
  <2> TAKE m \in Nat
  <2> HAVE m <= n
  <2>1. MessagesTo(prog, r)[m] \in Nat /\ MessagesTo(prog, r)[n] \in Nat /\ MessagesTo(prog, r)[m] <= MessagesTo(prog, r)[n]
    BY <1>2
  <2>2. /\ Slot(prog, q, r, m) = Seeded(q, r) + MessagesTo(prog, r)[m]
        /\ Slot(prog, q, r, n) = Seeded(q, r) + MessagesTo(prog, r)[n]
    BY DEF Slot
  <2> QED
    BY <1>1, <2>1, <2>2
<1>5. /\ MessagesTo(prog, r)[n] \in Nat /\ MessagesTo(prog, r)[0] = 0
      /\ Toward(prog, r, n + 1) => MessagesTo(prog, r)[n + 1] = MessagesTo(prog, r)[n] + 1
      /\ ~ Toward(prog, r, n + 1) => MessagesTo(prog, r)[n + 1] = MessagesTo(prog, r)[n]
  BY <1>2
<1>6. /\ Slot(prog, q, r, 0) = Seeded(q, r) /\ Slot(prog, q, r, n) \in Nat
      /\ Toward(prog, r, n + 1) => Slot(prog, q, r, n + 1) = Slot(prog, q, r, n) + 1
      /\ ~ Toward(prog, r, n + 1) => Slot(prog, q, r, n + 1) = Slot(prog, q, r, n)
  BY <1>1, <1>3, <1>5, SMTT(60)
<1> QED
  BY <1>1, <1>4, <1>6

(* A party that takes no step.                                             *)
LEMMA SameParty ==
  ASSUME NEW q \in Party, PartyInv(q), program' = program, pc'[q] = pc[q], ot'[q] = ot[q],
         sent'[q] = sent[q], posted'[q] = posted[q], transfers'[q] = transfers[q]
  PROVE  PartyInv(q)'
  BY DEF PartyInv, KeysInv, TransfersInv, SentInv, PostedInv, Done

(* A party that has done one operation more, which is none of another's    *)
(* transfers, or is no transfer to this party: what is as it was.          *)
OneMoreOp(p) ==
  /\ OtInv /\ pc[p] \in Nat /\ pc[p] >= 2 /\ pc'[p] = pc[p] + 1 /\ program' = program
  /\ Done(p) + 1 <= Len(program)

LEMMA OpFacts ==
  ASSUME NEW p \in Party, OneMoreOp(p)
  PROVE  /\ program \in Seq(Operations) /\ Len(program) \in Nat
         /\ Done(p) \in Nat /\ pc[p] = Done(p) + 2 /\ OpNo(p) = Done(p) + 1
         /\ Done(p)' = Done(p) + 1 /\ Done(p) + 1 \in 1 .. Len(program)
         /\ pc'[p] >= 2 /\ pc'[p] > 0 /\ pc'[p] <= Len(program) + 2 /\ PartyInv(p)
<1>1. program \in Seq(Operations) /\ Len(program) \in Nat
  BY ProgramFacts DEF OneMoreOp
<1>2. PartyInv(p)
  BY DEF OneMoreOp, OtInv
<1> QED
  BY <1>1, <1>2 DEF OneMoreOp, Done, OpNo

LEMMA KeyKept ==
  ASSUME NEW p \in Party, OneMoreOp(p), NEW r, ~ Toward(program, r, Done(p) + 1)
  PROVE  OtObject(program, r, Done(p) + 1) = OtObject(program, r, Done(p))
<1>1. program \in Seq(Operations) /\ Done(p) \in Nat
  BY OpFacts
<1>2. BlocksTo(program, r)[Done(p) + 1] = BlocksTo(program, r)[Done(p)]
  BY <1>1, CountsAre
<1> QED
  BY <1>2 DEF OtObject

LEMMA SentKept ==
  ASSUME NEW p \in Party, OneMoreOp(p), NEW r \in Party \ {p}, ~ Toward(program, r, Done(p) + 1), sent'[p][r] = sent[p][r]
  PROVE  SentInv(p, r)'
<1>1. /\ program \in Seq(Operations) /\ Done(p) \in Nat /\ Done(p)' = Done(p) + 1
      /\ pc[p] = Done(p) + 2 /\ pc'[p] > 0 /\ PartyInv(p) /\ program' = program
  BY OpFacts DEF OneMoreOp
<1>2. SentInv(p, r) /\ pc[p] > 0
  BY <1>1 DEF PartyInv
<1>3. Slot(program, p, r, Done(p) + 1) = Slot(program, p, r, Done(p))
  BY <1>1, SlotFacts
<1>4. ASSUME NEW n \in 1 .. Done(p) + 1, Toward(program, r, n)
      PROVE  sent[p][r][Slot(program, p, r, n)] = Payload(program, p, r, n)
  <2>1. n \in 1 .. Done(p)
    BY <1>1, <1>4
  <2> QED
    BY <1>2, <1>4, <2>1 DEF SentInv
<1>5. Len(sent[p][r]) = Slot(program, p, r, Done(p) + 1)
  BY <1>2, <1>3 DEF SentInv
<1> QED
  BY <1>1, <1>4, <1>5 DEF SentInv

LEMMA PostedKept ==
  ASSUME NEW p \in Party, OneMoreOp(p), NEW q \in Party \ {p}, ~ Toward(program, p, Done(p) + 1), posted'[p] = posted[p]
  PROVE  PostedInv(p, q)'
<1>1. /\ program \in Seq(Operations) /\ Done(p) \in Nat /\ Done(p)' = Done(p) + 1
      /\ pc[p] >= 2 /\ pc'[p] >= 2 /\ PartyInv(p) /\ program' = program
  BY OpFacts DEF OneMoreOp
<1>2. PostedInv(p, q)
  BY <1>1 DEF PartyInv
<1>3. Slot(program, q, p, Done(p) + 1) = Slot(program, q, p, Done(p))
  BY <1>1, SlotFacts
<1> QED
  BY <1>1, <1>2, <1>3 DEF PostedInv

LEMMA TransfersKept ==
  ASSUME NEW p \in Party, OneMoreOp(p), ~ Toward(program, p, Done(p) + 1), transfers'[p] = transfers[p]
  PROVE  TransfersInv(p)'
<1>1. /\ Done(p) \in Nat /\ Done(p)' = Done(p) + 1 /\ PartyInv(p) /\ program' = program
  BY OpFacts DEF OneMoreOp
<1>2. TransfersInv(p)
  BY <1>1 DEF PartyInv
<1>3. {n \in 1 .. Done(p) + 1 : Toward(program, p, n)} = {n \in 1 .. Done(p) : Toward(program, p, n)}
  <2>1. \A n \in 1 .. Done(p) + 1 : n \in 1 .. Done(p) \/ n = Done(p) + 1
    BY <1>1
  <2>2. \A n \in 1 .. Done(p) : n \in 1 .. Done(p) + 1
    BY <1>1
  <2> QED
    BY <2>1, <2>2
<1> QED
  BY <1>1, <1>2, <1>3 DEF TransfersInv

-----------------------------------------------------------------------------
Masked(key, idx, n, k) ==
  [i \in 1 .. k |-> [bit \in 0 .. 1 |-> [mask |-> <<key, 2 * (idx + i - 1) + bit>>, msg |-> <<n, i, bit>>]]]

LEMMA SendIs ==
  ASSUME NEW key, NEW idx, NEW n, NEW k, idx \in Nat, k \in Nat
  PROVE  Send([key |-> key, mIdx |-> idx], Messages(n, k))
           = [ot |-> [key |-> key, mIdx |-> idx + k], payload |-> Masked(key, idx, n, k)]
<1> DEFINE obj == [key |-> key, mIdx |-> idx]
           msgs == Messages(n, k)
<1>1. Len(msgs) = k
  BY DEF Messages
<1>2. [obj EXCEPT !.mIdx = @ + k] = [key |-> key, mIdx |-> idx + k]
  OBVIOUS
<1>3. \A i \in 1 .. k, bit \in 0 .. 1 : /\ MaskWord(obj, obj.mIdx + i - 1, bit) = <<key, 2 * (idx + i - 1) + bit>>
                                        /\ msgs[i][bit] = <<n, i, bit>>
  BY DEF MaskWord, Messages
<1> HIDE DEF msgs, obj
<1>4. [i \in 1 .. k |-> [bit \in 0 .. 1 |-> [mask |-> MaskWord(obj, obj.mIdx + i - 1, bit), msg |-> msgs[i][bit]]]]
        = Masked(key, idx, n, k)
  BY <1>3 DEF Masked
<1> QED
  BY <1>1, <1>2, <1>4 DEF Send, msgs, obj

(* What the sender and the helper send of a transfer is the operation's    *)
(* payload; and they have taken as many blocks from the key they share.    *)
LEMMA PayloadSent ==
  ASSUME NEW prog, NEW r, NEW n, prog \in Seq(Operations), n \in Nat, Toward(prog, r, n + 1)
  PROVE  /\ Send(OtObject(prog, r, n), Messages(n + 1, Len(prog[n + 1].choices)))
              = [ot |-> OtObject(prog, r, n + 1), payload |-> Payload(prog, prog[n + 1].sender, r, n + 1)]
         /\ Help(OtObject(prog, r, n), prog[n + 1].choices)
              = [ot |-> OtObject(prog, r, n + 1), payload |-> Payload(prog, prog[n + 1].helper, r, n + 1)]
<1> DEFINE op == prog[n + 1]
           idx == BlocksTo(prog, r)[n]
           k == Len(op.choices)
<1>1. k \in Nat /\ op.choices \in Seq({0, 1}) /\ op.sender # op.helper
  BY TowardFacts
<1>2. idx \in Nat /\ BlocksTo(prog, r)[n + 1] = idx + k
  BY CountsAre
<1>3. n + 1 - 1 = n
  OBVIOUS
<1> HIDE DEF op, idx, k
<1>4. OtObject(prog, r, n) = [key |-> OtKey(r), mIdx |-> idx] /\ OtObject(prog, r, n + 1) = [key |-> OtKey(r), mIdx |-> idx + k]
  BY <1>2 DEF OtObject, idx
<1>5. \A i, bit : HidingWord(prog, r, n + 1, i, bit) = <<OtKey(r), 2 * (idx + i - 1) + bit>>
  BY <1>3 DEF HidingWord, idx
<1>6. Payload(prog, op.sender, r, n + 1)
        = Masked(OtKey(r), idx, n + 1, k)
  BY <1>5 DEF Payload, Masked, op, k
<1>7. Payload(prog, op.helper, r, n + 1) = [i \in 1 .. k |-> <<OtKey(r), 2 * (idx + i - 1) + op.choices[i]>>]
  BY <1>1, <1>5 DEF Payload, op, k
<1>8. Help(OtObject(prog, r, n), op.choices) = [ot |-> OtObject(prog, r, n + 1), payload |-> Payload(prog, op.helper, r, n + 1)]
  <2>1. Help([key |-> OtKey(r), mIdx |-> idx], op.choices) = Helped(OtKey(r), idx, op.choices, Len(op.choices))
    BY <1>1, <1>2, HelpIs DEF k
  <2>2. \A j \in 1 .. k : 0 + j = j
    OBVIOUS
  <2>3. WordsFrom(OtKey(r), idx, op.choices, 0, k) = Payload(prog, op.helper, r, n + 1)
    BY <1>7, <2>2 DEF WordsFrom
  <2>4. Helped(OtKey(r), idx, op.choices, k) = [ot |-> OtObject(prog, r, n + 1), payload |-> Payload(prog, op.helper, r, n + 1)]
    BY <1>4, <2>3 DEF Helped
  <2> QED
    BY <1>4, <2>1, <2>4 DEF k
<1>9. Send(OtObject(prog, r, n), Messages(n + 1, k)) = [ot |-> OtObject(prog, r, n + 1), payload |-> Payload(prog, op.sender, r, n + 1)]
  <2>1. Send([key |-> OtKey(r), mIdx |-> idx], Messages(n + 1, k))
          = [ot |-> [key |-> OtKey(r), mIdx |-> idx + k], payload |-> Masked(OtKey(r), idx, n + 1, k)]
    BY <1>1, <1>2, SendIs
  <2> QED
    BY <1>4, <1>6, <2>1
<1> QED
  BY <1>8, <1>9 DEF op, k

-----------------------------------------------------------------------------
(* Nothing that concerns another party changes.                            *)
OnlyOf(p) ==
  /\ program' = program
  /\ DOMAIN ot' = Party /\ DOMAIN transfers' = Party
  /\ DOMAIN posted' = Party /\ \A q \in Party : DOMAIN posted'[q] = Party
  /\ \A q \in Party \ {p} : /\ pc'[q] = pc[q] /\ ot'[q] = ot[q] /\ sent'[q] = sent[q]
                            /\ posted'[q] = posted[q] /\ transfers'[q] = transfers[q]

LEMMA OnlyOneMoves ==
  ASSUME OtInv, NEW p \in Party, OnlyOf(p), PartyInv(p)'
  PROVE  OtInv'
<1>1. OtDomains'
  BY DEF OtInv, OtDomains, OnlyOf
<1>2. ASSUME NEW q \in Party \ {p}
      PROVE  PartyInv(q)'
  <2>1. PartyInv(q)
    BY DEF OtInv
  <2> QED
    BY <2>1, SameParty DEF OnlyOf
<1> QED
  BY <1>1, <1>2 DEF OtInv

LEMMA SendSeedKeepsOt ==
  ASSUME RandomInv, OtInv, NEW p \in Party, SendSeed(p)
  PROVE  OtInv'
<1>1. /\ pc[p] = 0 /\ pc'[p] = 1 /\ SendTo(p, nextOf(p), p) /\ OnlyOf(p)
      /\ program' = program /\ ot' = ot /\ posted' = posted /\ transfers' = transfers
  BY DEF RandomInv, Domains, OtInv, OtDomains, SendSeed, Advance, OnlyOf, SendTo
<1>2. PartyInv(p) /\ Done(p) = 0 /\ Done(p)' = 0 /\ program \in Seq(Operations) /\ Len(program) \in Nat
  BY <1>1, ProgramFacts DEF OtInv, Done
<1>3. ASSUME NEW r \in Party \ {p}
      PROVE  SentInv(p, r)' /\ PostedInv(p, r)'
  <2>1. SentInv(p, r) /\ PostedInv(p, r)
    BY <1>2 DEF PartyInv
  <2>2. Len(sent[p][r]) = 0 /\ IsSeq(sent[p][r]) /\ DOMAIN sent = Party /\ DOMAIN sent[p] = Party
    BY <1>1, <2>1 DEF SentInv, RandomInv, Domains, ChannelInv
  <2>3. sent'[p][r] = IF r = nextOf(p) THEN Append(sent[p][r], p) ELSE sent[p][r]
    BY <1>1, <2>2 DEF SendTo
  <2>4. Len(sent'[p][r]) = Seeded(p, r)
    BY <2>2, <2>3, AppendToSeq DEF Seeded
  <2>5. Slot(program, p, r, 0) = Seeded(p, r)
    BY <1>2, SlotFacts
  <2> QED
    BY <1>1, <1>2, <2>1, <2>4, <2>5 DEF SentInv, PostedInv
<1>4. KeysInv(p)' /\ TransfersInv(p)'
  BY <1>1, <1>2 DEF PartyInv, KeysInv, TransfersInv
<1>5. PartyInv(p)'
  BY <1>1, <1>2, <1>3, <1>4 DEF PartyInv
<1> QED
  BY <1>1, <1>5, OnlyOneMoves

(* The objects are keyed with the words that the parties share.            *)
LEMMA OtKeysAre ==
  ASSUME NEW p \in Party
  PROVE  OtKeys(NewShareGen(prevOf(p), p, BuffSize[p]))
           = [mOtPrevRecver |-> [key |-> OtKey(prevOf(p)), mIdx |-> 0],
              mOtNextRecver |-> [key |-> OtKey(nextOf(p)), mIdx |-> 0]]
<1> DEFINE g == NewShareGen(prevOf(p), p, BuffSize[p])
           start == [size |-> BuffSize[p],
                     mPrevCommon |-> AfterBlock(SetSeed(prevOf(p))),
                     mNextCommon |-> AfterBlock(SetSeed(p)),
                     mShareGen |-> [i \in 0 .. 1 |-> Word(SetSeed(IF i = 0 THEN prevOf(p) ELSE p))],
                     mShareGenIdx |-> 0, mShareIdx |-> 0, mShareBuff |-> [i \in 0 .. 1 |-> <<>>]]
<1>1. g = Refill(start)
  BY DEF NewShareGen
<1>2. start.mPrevCommon = AfterBlock(SetSeed(prevOf(p))) /\ start.mNextCommon = AfterBlock(SetSeed(p))
      /\ DOMAIN start = {"size", "mPrevCommon", "mNextCommon", "mShareGen", "mShareGenIdx", "mShareIdx", "mShareBuff"}
  OBVIOUS
<1> HIDE DEF start
<1>3. g.mPrevCommon = AfterBlock(SetSeed(prevOf(p))) /\ g.mNextCommon = AfterBlock(SetSeed(p))
  BY <1>1, <1>2 DEF Refill, RefillAt
<1>4. \A seed : Word(AfterBlock(SetSeed(seed))) = <<seed, 2>>
  BY DEF AfterBlock, SetSeed, Word
<1>5. OtKey(prevOf(p)) = <<p, 2>> /\ OtKey(nextOf(p)) = <<prevOf(p), 2>>
  BY NeighbourFacts DEF OtKey
<1> HIDE DEF g
<1> QED
  BY <1>3, <1>4, <1>5 DEF OtKeys, SetKey, g

LEMMA RecvSeedKeepsOt ==
  ASSUME RandomInv, OtInv, NEW p \in Party, RecvSeed(p)
  PROVE  OtInv'
<1>1. /\ pc[p] = 1 /\ pc'[p] = 2 /\ OnlyOf(p)
      /\ program' = program /\ sent' = sent /\ transfers' = transfers
      /\ ot'[p] = OtKeys(NewShareGen(sent[prevOf(p)][p][1], p, BuffSize[p]))
      /\ posted' = [posted EXCEPT ![p][prevOf(p)] = 1]
  BY DEF RandomInv, Domains, OtInv, OtDomains, RecvSeed, Advance, OnlyOf
<1>2. PartyInv(p) /\ Done(p) = 0 /\ Done(p)' = 0 /\ program \in Seq(Operations) /\ Len(program) \in Nat
      /\ DOMAIN posted = Party /\ DOMAIN posted[p] = Party
  BY <1>1, ProgramFacts DEF OtInv, OtDomains, Done
<1>3. ASSUME NEW r \in Party \ {p}
      PROVE  SentInv(p, r)' /\ PostedInv(p, r)'
  <2>1. SentInv(p, r) /\ posted[p][r] = 0
    BY <1>1, <1>2 DEF PartyInv, PostedInv
  <2>2. posted'[p][r] = Seeded(r, p)
    <3>1. p = nextOf(r) <=> r = prevOf(p)
      BY DEF Party, nextOf, prevOf
    <3>2. posted'[p][r] = IF r = prevOf(p) THEN 1 ELSE posted[p][r]
      BY <1>1, <1>2
    <3> QED
      BY <2>1, <3>1, <3>2 DEF Seeded
  <2>3. Slot(program, r, p, 0) = Seeded(r, p)
    BY <1>2, SlotFacts
  <2> QED
    BY <1>1, <1>2, <2>1, <2>2, <2>3 DEF SentInv, PostedInv
<1>4. sent[prevOf(p)][p][1] = prevOf(p)
  <2>1. ChannelInv(prevOf(p)) /\ nextOf(prevOf(p)) = p /\ sent[prevOf(p)][p] # <<>>
    BY PartyFacts DEF RandomInv, RecvSeed
  <2> QED
    BY <2>1 DEF ChannelInv
<1>5. KeysInv(p)'
  <2>1. BlocksTo(program, prevOf(p))[0] = 0 /\ BlocksTo(program, nextOf(p))[0] = 0
    BY <1>2, CountsAre
  <2>2. ot'[p] = [mOtPrevRecver |-> [key |-> OtKey(prevOf(p)), mIdx |-> 0],
                  mOtNextRecver |-> [key |-> OtKey(nextOf(p)), mIdx |-> 0]]
    BY <1>1, <1>4, OtKeysAre
  <2> QED
    BY <1>1, <1>2, <2>1, <2>2 DEF KeysInv, OtObject
<1>6. TransfersInv(p)'
  BY <1>1, <1>2 DEF PartyInv, TransfersInv
<1>7. PartyInv(p)'
  BY <1>1, <1>2, <1>3, <1>5, <1>6 DEF PartyInv
<1> QED
  BY <1>1, <1>7, OnlyOneMoves

(* draw, tuple and get.                                                    *)
LEMMA AtOperation ==
  ASSUME RandomInv, OtInv, NEW p \in Party, Draw(p) \/ Tuple(p) \/ Gives(p) \/ Takes(p) \/ Get(p)
  PROVE  OneMoreOp(p) /\ \A q \in Party \ {p} : pc'[q] = pc[q]
<1>1. program \in Seq(Operations) /\ Len(program) \in Nat /\ pc \in [Party -> Nat]
  BY ProgramFacts DEF RandomInv, Domains
<1>2. pc[p] >= 2 /\ OpNo(p) <= Len(program) /\ program' = program /\ Advance(p)
  BY DEF Draw, Tuple, Gives, Takes, Get, At
<1> QED
  BY <1>1, <1>2 DEF OneMoreOp, Advance, OpNo, Done

LEMMA OtherOpKeepsOt ==
  ASSUME RandomInv, OtInv, NEW p \in Party, Draw(p) \/ Tuple(p) \/ Get(p)
  PROVE  OtInv'
<1>1. OneMoreOp(p) /\ \A q \in Party \ {p} : pc'[q] = pc[q]
  BY AtOperation
<1>2. /\ OpNo(p) = Done(p) + 1 /\ Done(p)' = Done(p) + 1 /\ pc'[p] >= 2 /\ pc'[p] <= Len(program) + 2
      /\ PartyInv(p) /\ program' = program
  BY <1>1, OpFacts DEF OneMoreOp
<1>3. ot' = ot /\ sent' = sent /\ posted' = posted /\ transfers' = transfers /\ program[OpNo(p)].op # "transfer"
  BY DEF Draw, Tuple, Get, At
<1>4. \A r : ~ Toward(program, r, Done(p) + 1)
  BY <1>2, <1>3 DEF Toward
<1>5. \A r : OtObject(program, r, Done(p) + 1) = OtObject(program, r, Done(p))
  BY <1>1, <1>4, KeyKept
<1>6. KeysInv(p)'
  BY <1>1, <1>2, <1>3, <1>5 DEF PartyInv, KeysInv, OneMoreOp
<1>7. \A r \in Party \ {p} : SentInv(p, r)' /\ PostedInv(p, r)'
  BY <1>1, <1>3, <1>4, SentKept, PostedKept
<1>8. TransfersInv(p)'
  BY <1>1, <1>3, <1>4, TransfersKept
<1>9. PartyInv(p)'
  BY <1>2, <1>6, <1>7, <1>8 DEF PartyInv
<1>10. OnlyOf(p)
  BY <1>1, <1>2, <1>3 DEF OnlyOf, OtInv, OtDomains
<1> QED
  BY <1>9, <1>10, OnlyOneMoves

-----------------------------------------------------------------------------
LEMMA GivesKeepsOt ==
  ASSUME RandomInv, OtInv, NEW p \in Party, Gives(p)
  PROVE  OtInv'
<1> DEFINE n == Done(p)
           step == program[n + 1]
           r == Receiver(step)
           o == Object(p, step)
           sends == Send(ot[p][o], Messages(n + 1, Len(step.choices)))
           helps == Help(ot[p][o], step.choices)
           result == IF p = step.sender THEN sends ELSE helps
<1>1. OneMoreOp(p) /\ \A q \in Party \ {p} : pc'[q] = pc[q]
  BY AtOperation
<1>2. /\ OpNo(p) = n + 1 /\ Done(p)' = n + 1 /\ pc[p] >= 2 /\ pc'[p] >= 2 /\ pc'[p] > 0 /\ pc[p] > 0
      /\ pc'[p] <= Len(program) + 2
      /\ PartyInv(p) /\ program' = program /\ program \in Seq(Operations) /\ n \in Nat /\ n + 1 \in 1 .. Len(program)
  BY <1>1, OpFacts DEF OneMoreOp
<1>3. /\ step.op = "transfer" /\ p # r
      /\ ot' = [ot EXCEPT ![p][o] = result.ot] /\ SendTo(p, r, result.payload)
      /\ posted' = posted /\ transfers' = transfers
  BY <1>2 DEF Gives, At, Step
<1> HIDE DEF n
<1>4. Toward(program, r, n + 1)
  BY <1>2, <1>3 DEF Toward
<1>5. r \in Party \ {p} /\ p \in {step.sender, step.helper} /\ step.sender # step.helper
  BY <1>2, <1>3, <1>4, TowardFacts
<1>6. \A x \in Party \ {r} : ~ Toward(program, x, n + 1)
  BY DEF Toward
<1> HIDE DEF r, step
<1>7. ot[p] = [mOtPrevRecver |-> OtObject(program, prevOf(p), n), mOtNextRecver |-> OtObject(program, nextOf(p), n)]
  BY <1>2 DEF PartyInv, KeysInv, n
<1>8. \/ r = nextOf(p) /\ o = "mOtNextRecver"
      \/ r = prevOf(p) /\ o = "mOtPrevRecver"
  BY <1>5, NeighbourFacts DEF Object, r
<1>9. ot[p][o] = OtObject(program, r, n)
  BY <1>7, <1>8
<1>10. result = [ot |-> OtObject(program, r, n + 1), payload |-> Payload(program, p, r, n + 1)]
  <2>1. /\ Send(OtObject(program, r, n), Messages(n + 1, Len(step.choices)))
              = [ot |-> OtObject(program, r, n + 1), payload |-> Payload(program, step.sender, r, n + 1)]
        /\ Help(OtObject(program, r, n), step.choices)
              = [ot |-> OtObject(program, r, n + 1), payload |-> Payload(program, step.helper, r, n + 1)]
    BY <1>2, <1>4, PayloadSent DEF step
  <2>2. CASE p = step.sender
    BY <1>9, <2>1, <2>2
  <2>3. CASE p # step.sender
    BY <1>5, <1>9, <2>1, <2>3
  <2> QED
    BY <2>2, <2>3
<1>11. result.ot = OtObject(program, r, n + 1) /\ result.payload = Payload(program, p, r, n + 1)
  BY <1>10
<1> HIDE DEF result, o
<1>12. DOMAIN ot = Party /\ DOMAIN sent = Party /\ DOMAIN sent[p] = Party /\ \A q \in Party : IsSeq(sent[p][q])
  BY DEF OtInv, OtDomains, RandomInv, Domains, ChannelInv
<1>13. KeysInv(p)'
  <2>1. ot'[p] = [ot[p] EXCEPT ![o] = OtObject(program, r, n + 1)]
    BY <1>3, <1>11, <1>12
  <2>2. CASE r = nextOf(p) /\ o = "mOtNextRecver"
    <3>1. ~ Toward(program, prevOf(p), n + 1)
      BY <2>2, <1>6, NeighbourFacts
    <3>2. OtObject(program, prevOf(p), n + 1) = OtObject(program, prevOf(p), n)
      BY <1>1, <3>1, KeyKept DEF n
    <3>3. ot'[p] = [mOtPrevRecver |-> OtObject(program, prevOf(p), n + 1), mOtNextRecver |-> OtObject(program, nextOf(p), n + 1)]
      BY <1>7, <2>1, <2>2, <3>2
    <3> QED
      BY <1>2, <3>3 DEF KeysInv
  <2>3. CASE r = prevOf(p) /\ o = "mOtPrevRecver"
    <3>1. ~ Toward(program, nextOf(p), n + 1)
      BY <2>3, <1>6, NeighbourFacts
    <3>2. OtObject(program, nextOf(p), n + 1) = OtObject(program, nextOf(p), n)
      BY <1>1, <3>1, KeyKept DEF n
    <3>3. ot'[p] = [mOtPrevRecver |-> OtObject(program, prevOf(p), n + 1), mOtNextRecver |-> OtObject(program, nextOf(p), n + 1)]
      BY <1>7, <2>1, <2>3, <3>2
    <3> QED
      BY <1>2, <3>3 DEF KeysInv
  <2> QED
    BY <1>8, <2>2, <2>3
<1>14. ASSUME NEW x \in Party \ {p}
       PROVE  SentInv(p, x)'
  <2>1. CASE x # r
    <3>1. sent'[p][x] = sent[p][x]
      BY <1>3, <1>12, <2>1 DEF SendTo
    <3> QED
      BY <1>1, <1>6, <2>1, <3>1, SentKept DEF n
  <2>2. CASE x = r
    <3>1. SentInv(p, r)
      BY <1>2, <1>5 DEF PartyInv
    <3>2. sent'[p][r] = Append(sent[p][r], Payload(program, p, r, n + 1))
      BY <1>3, <1>5, <1>11, <1>12 DEF SendTo
    <3>3. Len(sent[p][r]) = Slot(program, p, r, n)
      BY <1>2, <3>1 DEF SentInv, n
    <3>4. Slot(program, p, r, n + 1) = Slot(program, p, r, n) + 1 /\ Slot(program, p, r, n) \in Nat
      BY <1>2, <1>4, SlotFacts
    <3>5. /\ Len(sent'[p][r]) = Slot(program, p, r, n + 1)
          /\ sent'[p][r][Slot(program, p, r, n + 1)] = Payload(program, p, r, n + 1)
          /\ \A i \in 1 .. Slot(program, p, r, n) : sent'[p][r][i] = sent[p][r][i]
      BY <1>5, <1>12, <3>2, <3>3, <3>4, AppendToSeq
    <3>6. ASSUME NEW k \in 1 .. n + 1, Toward(program, r, k)
          PROVE  sent'[p][r][Slot(program, p, r, k)] = Payload(program, p, r, k)
      <4>1. CASE k = n + 1
        BY <3>5, <4>1
      <4>2. CASE k # n + 1
        <5>1. k \in 1 .. n /\ k \in Nat /\ k <= n /\ k - 1 \in Nat /\ k - 1 + 1 = k
          BY <1>2, <4>2
        <5>2. Slot(program, p, r, k) <= Slot(program, p, r, n) /\ Slot(program, p, r, k) \in Nat
          BY <1>2, <5>1, SlotFacts
        <5>3. Slot(program, p, r, k) = Slot(program, p, r, k - 1) + 1 /\ Slot(program, p, r, k - 1) \in Nat
          BY <1>2, <3>6, <5>1, SlotFacts
        <5>4. Slot(program, p, r, k) \in 1 .. Slot(program, p, r, n)
          BY <3>4, <5>2, <5>3
        <5>5. sent[p][r][Slot(program, p, r, k)] = Payload(program, p, r, k)
          BY <3>1, <3>6, <5>1 DEF SentInv, n
        <5> QED
          BY <3>5, <5>4, <5>5
      <4> QED
        BY <4>1, <4>2
    <3> QED
      BY <1>2, <2>2, <3>5, <3>6 DEF SentInv
  <2> QED
    BY <2>1, <2>2
<1>15. ~ Toward(program, p, n + 1)
  BY <1>5, <1>6
<1>16. \A x \in Party \ {p} : PostedInv(p, x)'
  BY <1>1, <1>3, <1>15, PostedKept DEF n
<1>17. TransfersInv(p)'
  BY <1>1, <1>3, <1>15, TransfersKept DEF n
<1>18. PartyInv(p)'
  BY <1>2, <1>13, <1>14, <1>16, <1>17 DEF PartyInv
<1>19. OnlyOf(p)
  <2>1. OtDomains
    BY DEF OtInv
  <2> QED
    BY <1>1, <1>2, <1>3, <1>12, <2>1 DEF OnlyOf, OtDomains, SendTo
<1> QED
  BY <1>18, <1>19, OnlyOneMoves

LEMMA TakesKeepsOt ==
  ASSUME RandomInv, OtInv, NEW p \in Party, Takes(p)
  PROVE  OtInv'
<1> DEFINE n == Done(p)
           step == program[n + 1]
           t == [slot     |-> [s \in Sides |-> posted'[p][step[s]]],
                 data     |-> [s \in Sides |-> <<>>],
                 called   |-> {},
                 mAtomic  |-> 2,
                 last     |-> FALSE,
                 recvMsgs |-> [i \in DOMAIN step.choices |-> 0],
                 ready    |-> FALSE]
<1>1. OneMoreOp(p) /\ \A q \in Party \ {p} : pc'[q] = pc[q]
  BY AtOperation
<1>2. /\ OpNo(p) = n + 1 /\ Done(p)' = n + 1 /\ pc[p] >= 2 /\ pc'[p] >= 2
      /\ pc'[p] <= Len(program) + 2
      /\ PartyInv(p) /\ program' = program /\ program \in Seq(Operations) /\ n \in Nat /\ n + 1 \in 1 .. Len(program)
  BY <1>1, OpFacts DEF OneMoreOp
<1>3. /\ step.op = "transfer" /\ p = Receiver(step)
      /\ posted' = [posted EXCEPT ![p][step.sender] = @ + 1, ![p][step.helper] = @ + 1]
      /\ transfers' = [transfers EXCEPT ![p] = [k \in DOMAIN @ \cup {n + 1} |-> IF k # n + 1 THEN @[k] ELSE t]]
      /\ ot' = ot /\ sent' = sent
  BY <1>2 DEF Takes, At, Step
<1> HIDE DEF n
<1>4. Toward(program, p, n + 1)
  BY <1>2, <1>3 DEF Toward
<1>5. /\ step.sender \in Party \ {p} /\ step.helper \in Party \ {p} /\ step.sender # step.helper
      /\ \A q \in Party \ {p} : q = step.sender \/ q = step.helper
  <2>1. program \in Seq(Operations) /\ p \in Party
    BY <1>2
  <2> HIDE DEF step, t
  <2>2. /\ program[n + 1].sender \in Party \ {p} /\ program[n + 1].helper \in Party \ {p}
        /\ program[n + 1].sender # program[n + 1].helper
        /\ \A q \in Party : q \in {p, program[n + 1].sender, program[n + 1].helper}
    BY <1>4, <2>1, TowardFacts
  <2> QED
    BY <2>2 DEF step
<1>6. \A x \in Party \ {p} : ~ Toward(program, x, n + 1)
  BY <1>3 DEF Toward
<1>7. DOMAIN posted = Party /\ DOMAIN posted[p] = Party /\ DOMAIN transfers = Party
  BY DEF OtInv, OtDomains
<1>8. ASSUME NEW q \in Party \ {p}
      PROVE  posted'[p][q] = Slot(program, q, p, n + 1)
  <2>1. posted[p][q] = Slot(program, q, p, n)
    BY <1>2 DEF PartyInv, PostedInv, n
  <2>2. Slot(program, q, p, n + 1) = Slot(program, q, p, n) + 1
    BY <1>2, <1>4, SlotFacts
  <2>3. posted'[p][q] = posted[p][q] + 1
    <3> DEFINE a == step.sender
               b == step.helper
    <3> HIDE DEF step
    <3>1. q = a \/ q = b
      BY <1>5
    <3>2. a \in Party /\ b \in Party /\ a # b
      BY <1>5
    <3> HIDE DEF a, b
    <3>3. posted'[p] = [posted[p] EXCEPT ![a] = @ + 1, ![b] = @ + 1]
      BY <1>3, <1>7 DEF a, b
    <3> QED
      BY <1>7, <3>1, <3>2, <3>3
  <2> QED
    BY <2>1, <2>2, <2>3
<1>9. /\ DOMAIN transfers'[p] = {n + 1} \cup DOMAIN transfers[p]
      /\ transfers'[p][n + 1] = t
      /\ \A k \in DOMAIN transfers[p] : k # n + 1 => transfers'[p][k] = transfers[p][k]
  <2> HIDE DEF t
  <2>1. transfers'[p] = [k \in DOMAIN transfers[p] \cup {n + 1} |-> IF k # n + 1 THEN transfers[p][k] ELSE t]
    BY <1>3, <1>7
  <2> QED
    BY <2>1
<1>10. TransferOK(program, p, n + 1, t)
  <2>1. DOMAIN t = {"slot", "data", "called", "mAtomic", "last", "recvMsgs", "ready"}
    OBVIOUS
  <2>2. t.data = [s \in Sides |-> <<>>] /\ t.called = {} /\ t.mAtomic = 2 /\ t.last = FALSE /\ t.ready = FALSE
        /\ t.slot = [s \in Sides |-> posted'[p][step[s]]]
    OBVIOUS
  <2> HIDE DEF t
  <2>3. \A s \in Sides : t.slot[s] = Slot(program, program[n + 1][s], p, n + 1)
    <3> TAKE s \in Sides
    <3>1. step[s] \in Party \ {p}
      BY <1>5 DEF Sides
    <3>2. t.slot[s] = posted'[p][step[s]]
      BY <2>2
    <3> QED
      BY <1>8, <3>1, <3>2
  <2>4. t.mAtomic = Waiting(t.called)
    BY <2>2 DEF Waiting
  <2> QED
    BY <2>1, <2>2, <2>3, <2>4 DEF TransferOK
<1> HIDE DEF t, step
<1>11. TransfersInv(p)'
  <2>1. TransfersInv(p)
    BY <1>2 DEF PartyInv
  <2>2. DOMAIN transfers'[p] = {k \in 1 .. n + 1 : Toward(program, p, k)}
    <3>1. \A k : k \in 1 .. n + 1 <=> k \in 1 .. n \/ k = n + 1
      BY <1>2
    <3>2. DOMAIN transfers[p] = {k \in 1 .. n : Toward(program, p, k)}
      BY <2>1 DEF TransfersInv, n
    <3> QED
      BY <1>4, <1>9, <3>1, <3>2
  <2>3. \A k \in DOMAIN transfers'[p] : TransferOK(program, p, k, transfers'[p][k])
    BY <1>9, <1>10, <2>1 DEF TransfersInv
  <2> QED
    BY <1>2, <2>2, <2>3 DEF TransfersInv
<1>12. KeysInv(p)'
  <2>1. \A r \in Party \ {p} : OtObject(program, r, n + 1) = OtObject(program, r, n)
    BY <1>1, <1>6, KeyKept DEF n
  <2>2. /\ OtObject(program, nextOf(p), n + 1) = OtObject(program, nextOf(p), n)
        /\ OtObject(program, prevOf(p), n + 1) = OtObject(program, prevOf(p), n)
    BY <2>1, NeighbourFacts
  <2> QED
    BY <1>2, <1>3, <2>2 DEF PartyInv, KeysInv, n
<1>13. \A x \in Party \ {p} : SentInv(p, x)'
  BY <1>1, <1>3, <1>6, SentKept DEF n
<1>14. \A x \in Party \ {p} : PostedInv(p, x)'
  BY <1>2, <1>8 DEF PostedInv
<1>15. PartyInv(p)'
  BY <1>2, <1>11, <1>12, <1>13, <1>14 DEF PartyInv
<1>16. OnlyOf(p)
  <2>1. OtDomains
    BY DEF OtInv
  <2>2. DOMAIN posted' = Party /\ \A q \in Party : DOMAIN posted'[q] = Party
    BY <1>3, <2>1 DEF OtDomains
  <2>3. DOMAIN transfers' = Party /\ \A q \in Party \ {p} : transfers'[q] = transfers[q] /\ posted'[q] = posted[q]
    BY <1>3, <2>1 DEF OtDomains
  <2> QED
    BY <1>1, <1>2, <1>3, <2>1, <2>2, <2>3 DEF OnlyOf, OtDomains
<1> QED
  BY <1>15, <1>16, OnlyOneMoves

-----------------------------------------------------------------------------
LEMMA SidesAre ==
  ASSUME OtInv, NEW p \in Party, NEW n \in DOMAIN transfers[p]
  PROVE  /\ Toward(program, p, n) /\ n \in 1 .. Done(p) /\ n \in Nat
         /\ TransferOK(program, p, n, transfers[p][n])
         /\ \A s \in Sides : program[n][s] \in Party \ {p}
<1>1. program \in Seq(Operations) /\ TransfersInv(p)
  BY ProgramFacts DEF OtInv, PartyInv
<1>2. Toward(program, p, n) /\ n \in 1 .. Done(p) /\ TransferOK(program, p, n, transfers[p][n])
  BY <1>1 DEF TransfersInv
<1> QED
  BY <1>1, <1>2, TowardFacts DEF Sides

LEMMA BecomesKeeps ==
  ASSUME OtInv, NEW p \in Party, NEW n \in DOMAIN transfers[p], NEW t, Becomes(p, n, t), TransferOK(program, p, n, t)
  PROVE  OtInv'
<1>1. /\ program' = program /\ pc' = pc /\ ot' = ot /\ sent' = sent /\ posted' = posted
      /\ transfers' = [transfers EXCEPT ![p][n] = t] /\ PartyInv(p) /\ DOMAIN transfers = Party
  BY DEF Becomes, OtInv, OtDomains
<1>2. TransfersInv(p)'
  <2>1. /\ DOMAIN transfers'[p] = DOMAIN transfers[p] /\ transfers'[p][n] = t
        /\ \A k \in DOMAIN transfers[p] : k # n => transfers'[p][k] = transfers[p][k]
    BY <1>1
  <2>2. TransfersInv(p) /\ Done(p)' = Done(p)
    BY <1>1 DEF PartyInv, Done
  <2> QED
    BY <1>1, <2>1, <2>2 DEF TransfersInv
<1>3. KeysInv(p)' /\ \A q \in Party \ {p} : SentInv(p, q)' /\ PostedInv(p, q)'
  BY <1>1 DEF PartyInv, KeysInv, SentInv, PostedInv, Done
<1>4. PartyInv(p)'
  BY <1>1, <1>2, <1>3 DEF PartyInv
<1>5. OnlyOf(p)
  BY <1>1 DEF OnlyOf, OtInv, OtDomains
<1> QED
  BY <1>4, <1>5, OnlyOneMoves

(* A transfer's fields; each of the steps changes a few.                   *)
Fields == {"slot", "data", "called", "mAtomic", "last", "recvMsgs", "ready"}

(* A receive takes the message of its own operation.                       *)
LEMMA ArriveKeepsOt ==
  ASSUME OtInv, RandomInv, NEW p \in Party, NEW n \in DOMAIN transfers[p], NEW side \in Sides, Arrive(p, n, side)
  PROVE  OtInv'
<1> DEFINE t == transfers[p][n]
           q == program[n][side]
           word == sent[q][p][t.slot[side]]
           u == [t EXCEPT !.data[side] = word]
<1>1. Toward(program, p, n) /\ n \in Nat /\ TransferOK(program, p, n, t) /\ q \in Party \ {p} /\ n \in 1 .. Done(p)
  BY SidesAre
<1>2. t.slot[side] <= Len(sent[q][p]) /\ Becomes(p, n, u) /\ t.data[side] = <<>>
  BY DEF Arrive
<1>3. program \in Seq(Operations) /\ SentInv(q, p) /\ pc[q] \in Nat
  BY <1>1, ProgramFacts DEF OtInv, PartyInv, RandomInv, Domains
<1>4. t.slot[side] = Slot(program, q, p, n)
  BY <1>1 DEF TransferOK
<1> HIDE DEF q
<1>5. n \in 1 .. Done(q)
  <2>1. n - 1 \in Nat /\ n - 1 + 1 = n /\ n > 0
    BY <1>1, <1>3, TowardFacts
  <2>2. /\ Slot(program, q, p, n) = Slot(program, q, p, n - 1) + 1
        /\ Slot(program, q, p, n - 1) \in Nat
        /\ \A m \in Nat : m <= n - 1 => Slot(program, q, p, m) <= Slot(program, q, p, n - 1)
    BY <1>1, <1>3, <2>1, SlotFacts
  <2>3. Slot(program, q, p, n) <= Slot(program, q, p, Done(q)) /\ pc[q] > 0
    BY <1>2, <1>3, <1>4, <2>2 DEF SentInv
  <2>4. Done(q) \in Nat
    BY <1>3 DEF Done
  <2>5. Slot(program, q, p, Done(q)) \in Nat
    BY <1>3, <2>4, SlotFacts
  <2>6. ~ Done(q) <= n - 1
    BY <2>2, <2>3, <2>4, <2>5
  <2> QED
    BY <1>1, <2>1, <2>4, <2>6
<1>6. word = Payload(program, q, p, n)
  BY <1>1, <1>3, <1>4, <1>5 DEF SentInv
<1> HIDE DEF t, word
<1>7. TransferOK(program, p, n, u)
  <2>1. DOMAIN t = Fields /\ DOMAIN t.data = Sides
    BY <1>1 DEF TransferOK, Fields
  <2>2. /\ DOMAIN u = Fields /\ u.slot = t.slot /\ u.called = t.called /\ u.mAtomic = t.mAtomic /\ u.last = t.last
        /\ u.recvMsgs = t.recvMsgs /\ u.ready = t.ready
        /\ u.data = [t.data EXCEPT ![side] = word]
    BY <2>1 DEF Fields
  <2>3. DOMAIN u.data = Sides /\ u.data[side] = word /\ \A s \in Sides : s # side => u.data[s] = t.data[s]
    BY <2>1, <2>2
  <2> HIDE DEF u
  <2>4. \A s \in Sides : u.data[s] = <<>> \/ u.data[s] = Payload(program, program[n][s], p, n)
    BY <1>1, <1>6, <2>3 DEF TransferOK, q
  <2>5. \A s \in u.called : u.data[s] # <<>>
    <3>1. side \notin t.called /\ t.called \subseteq Sides
      BY <1>1, <1>2 DEF TransferOK
    <3> QED
      BY <1>1, <2>2, <2>3, <3>1 DEF TransferOK
  <2> QED
    BY <1>1, <2>2, <2>3, <2>4, <2>5 DEF TransferOK, Fields
<1> QED
  BY <1>2, <1>7, BecomesKeeps

(* The two callbacks count to zero in either order, the second one is last.*)
LEMMA CountDownKeepsOt ==
  ASSUME OtInv, NEW p \in Party, NEW n \in DOMAIN transfers[p], NEW side \in Sides, CountDown(p, n, side)
  PROVE  OtInv'
<1> DEFINE t == transfers[p][n]
           called == t.called \cup {side}
           count == t.mAtomic - 1
           end == IsLast(t.mAtomic - 1)
           u == [t EXCEPT !.called = called, !.mAtomic = count, !.last = end]
<1>1. TransferOK(program, p, n, t)
  BY SidesAre
<1>2. Becomes(p, n, u) /\ t.data[side] # <<>> /\ side \notin t.called
  BY DEF CountDown
<1> HIDE DEF t
<1>3. called \subseteq Sides /\ count = Waiting(called) /\ end = (called = Sides)
  <2>1. t.called \subseteq Sides /\ t.mAtomic = Waiting(t.called)
    BY <1>1 DEF TransferOK
  <2>2. CASE side = "sender"
    BY <1>2, <2>1, <2>2 DEF Sides, Waiting, IsLast
  <2>3. CASE side = "helper"
    BY <1>2, <2>1, <2>3 DEF Sides, Waiting, IsLast
  <2> QED
    BY <2>2, <2>3 DEF Sides
<1>4. \A s \in called : t.data[s] # <<>>
  BY <1>1, <1>2 DEF TransferOK
<1> HIDE DEF called, count, end
<1>5. /\ DOMAIN u = Fields /\ u.slot = t.slot /\ u.data = t.data /\ u.recvMsgs = t.recvMsgs /\ u.ready = t.ready
      /\ u.called = called /\ u.mAtomic = count /\ u.last = end
  BY <1>1 DEF TransferOK, Fields
<1> HIDE DEF u
<1>6. TransferOK(program, p, n, u)
  BY <1>1, <1>3, <1>4, <1>5 DEF TransferOK, Fields
<1> QED
  BY <1>2, <1>6, BecomesKeeps

(* Unmasking with the helper's words gives the messages of the choices.    *)
LEMMA UnmaskedIs ==
  ASSUME NEW prog, NEW r, NEW n, prog \in Seq(Operations), Toward(prog, r, n)
  PROVE  Unmasked(Payload(prog, prog[n].sender, r, n), Payload(prog, prog[n].helper, r, n), prog[n].choices) = Result(prog, n)
<1> DEFINE op == prog[n]
           k == Len(op.choices)
           a == Payload(prog, op.sender, r, n)
           b == Payload(prog, op.helper, r, n)
<1>1. op.choices \in Seq({0, 1}) /\ k \in Nat /\ op.sender # op.helper
  BY TowardFacts
<1>2. DOMAIN op.choices = 1 .. k /\ \A i \in 1 .. k : op.choices[i] \in 0 .. 1
  BY <1>1
<1>3. a = [i \in 1 .. k |-> [bit \in 0 .. 1 |-> [mask |-> HidingWord(prog, r, n, i, bit), msg |-> <<n, i, bit>>]]]
  BY DEF Payload
<1>4. b = [i \in 1 .. k |-> HidingWord(prog, r, n, i, op.choices[i])]
  BY <1>1 DEF Payload
<1> HIDE DEF op, k, a, b
<1>5. ASSUME NEW i \in 1 .. k
      PROVE  (IF a[i][op.choices[i]].mask = b[i] THEN a[i][op.choices[i]].msg ELSE <<>>) = <<n, i, op.choices[i]>>
  <2> DEFINE c == op.choices[i]
  <2>1. c \in 0 .. 1
    BY <1>2
  <2> HIDE DEF c
  <2>2. a[i][c] = [mask |-> HidingWord(prog, r, n, i, c), msg |-> <<n, i, c>>]
    BY <1>3, <2>1
  <2>3. b[i] = HidingWord(prog, r, n, i, c)
    BY <1>4 DEF c
  <2>4. a[i][c].mask = HidingWord(prog, r, n, i, c) /\ a[i][c].msg = <<n, i, c>>
    BY <2>2
  <2> QED
    BY <2>3, <2>4 DEF c
<1>6. Unmasked(a, b, op.choices) = [i \in 1 .. k |-> <<n, i, op.choices[i]>>]
  BY <1>5 DEF Unmasked, k
<1>7. Result(prog, n) = [i \in 1 .. k |-> <<n, i, op.choices[i]>>]
  BY <1>2 DEF Result, op
<1> QED
  BY <1>6, <1>7 DEF a, b, op

LEMMA CompleteKeepsOt ==
  ASSUME OtInv, NEW p \in Party, NEW n \in DOMAIN transfers[p], Complete(p, n)
  PROVE  OtInv'
<1> DEFINE t == transfers[p][n]
           msgs == Unmasked(t.data["sender"], t.data["helper"], program[n].choices)
           u == [t EXCEPT !.last = FALSE, !.ready = TRUE, !.recvMsgs = msgs]
<1>1. TransferOK(program, p, n, t) /\ Toward(program, p, n) /\ program \in Seq(Operations)
  BY SidesAre, ProgramFacts
<1>2. Becomes(p, n, u) /\ t.last
  BY DEF Complete
<1> HIDE DEF t
<1>3. t.called = Sides /\ "sender" \in Sides /\ "helper" \in Sides
  BY <1>1, <1>2 DEF TransferOK, Sides
<1>4. /\ t.data["sender"] = Payload(program, program[n].sender, p, n)
      /\ t.data["helper"] = Payload(program, program[n].helper, p, n)
  <2>1. \A s \in Sides : t.data[s] = Payload(program, program[n][s], p, n)
    BY <1>1, <1>3 DEF TransferOK
  <2> QED
    BY <1>3, <2>1
<1>5. msgs = Result(program, n)
  BY <1>1, <1>4, UnmaskedIs
<1> HIDE DEF msgs
<1>6. /\ DOMAIN u = Fields /\ u.slot = t.slot /\ u.data = t.data /\ u.called = t.called /\ u.mAtomic = t.mAtomic
      /\ u.last = FALSE /\ u.recvMsgs = msgs
  BY <1>1 DEF TransferOK, Fields
<1> HIDE DEF u
<1>7. TransferOK(program, p, n, u)
  BY <1>1, <1>5, <1>6 DEF TransferOK, Fields
<1> QED
  BY <1>2, <1>7, BecomesKeeps

-----------------------------------------------------------------------------
(* The objects, the channels and the transfers are where the operations    *)
(* that each party has done have brought them, in every reachable state.   *)
THEOREM OtInvariant == Spec => []OtInv
<1>1. Init => OtInv
  <2> SUFFICES ASSUME Init PROVE OtInv
    OBVIOUS
  <2>1. OtDomains
    BY DEF Init, OtDomains
  <2>2. ASSUME NEW p \in Party
        PROVE  PartyInv(p)
    <3>1. pc[p] = 0 /\ Done(p) = 0 /\ transfers[p] = <<>> /\ \A q \in Party : sent[p][q] = <<>> /\ posted[p][q] = 0
      BY <2>2 DEF Init, Done
    <3>2. program \in Seq(Operations) /\ Len(program) \in Nat
      BY <2>1, ProgramsAssumption DEF OtDomains
    <3>3. KeysInv(p) /\ TransfersInv(p)
      <4>1. DOMAIN transfers[p] = {} /\ {n \in 1 .. Done(p) : Toward(program, p, n)} = {}
        BY <3>1
      <4> QED
        BY <3>1, <4>1 DEF KeysInv, TransfersInv
    <3>4. \A q \in Party \ {p} : SentInv(p, q) /\ PostedInv(p, q)
      BY <3>1 DEF SentInv, PostedInv
    <3> QED
      BY <3>1, <3>2, <3>3, <3>4 DEF PartyInv
  <2> QED
    BY <2>1, <2>2 DEF OtInv
<1>2. RandomInv /\ OtInv /\ [Next]_vars => OtInv'
  <2> SUFFICES ASSUME RandomInv, OtInv, [Next]_vars PROVE OtInv'
    OBVIOUS
  <2>1. CASE UNCHANGED vars
    <3>1. OtDomains'
      BY <2>1 DEF vars, OtInv, OtDomains
    <3>2. \A q \in Party : PartyInv(q)'
      BY <2>1, SameParty DEF vars, OtInv
    <3> QED
      BY <3>1, <3>2 DEF OtInv
  <2>2. ASSUME NEW p \in Party, Thread(p)
        PROVE  OtInv'
    BY <2>2, SendSeedKeepsOt, RecvSeedKeepsOt, OtherOpKeepsOt, GivesKeepsOt, TakesKeepsOt DEF Thread
  <2>3. ASSUME NEW p \in Party, InputOutput(p)
        PROVE  OtInv'
    BY <2>3, ArriveKeepsOt, CountDownKeepsOt, CompleteKeepsOt DEF InputOutput
  <2> QED
    BY <2>1, <2>2, <2>3 DEF Next
<1> QED
  BY <1>1, <1>2, RandomInvariant, PTL DEF Spec

(* No buffer is read past its end and no count of callbacks leaves 0..2.   *)
THEOREM TypeOKHolds == Spec => []TypeOK
<1>1. RandomInv /\ OtInv => TypeOK
  <2> SUFFICES ASSUME RandomInv, OtInv, NEW p \in Party
               PROVE  /\ pc[p] \in 0 .. Len(program) + 2
                      /\ pc[p] >= 2 => /\ gen[p].mShareIdx \in 0 .. 2 * BuffSize[p]
                                       /\ \A i \in 0 .. 1 : Len(gen[p].mShareBuff[i]) = 2 * BuffSize[p]
                      /\ \A n \in DOMAIN transfers[p] : transfers[p][n].mAtomic \in 0 .. 2
    BY DEF TypeOK
  <2>1. pc[p] \in Nat /\ pc[p] <= Len(program) + 2 /\ Len(program) \in Nat
    BY ProgramFacts DEF RandomInv, Domains, OtInv, PartyInv
  <2>2. ASSUME pc[p] >= 2
        PROVE  /\ gen[p].mShareIdx \in 0 .. 2 * BuffSize[p]
               /\ \A i \in 0 .. 1 : Len(gen[p].mShareBuff[i]) = 2 * BuffSize[p]
    <3>1. PICK base \in Nat, idx \in 0 .. 2 * BuffSize[p] : gen[p] = GenAt(p, base, idx, Len(tuples[p]))
      BY <2>2 DEF RandomInv, GenInv
    <3>2. gen[p].mShareIdx = idx /\ gen[p].mShareBuff = BuffersAt(p, base)
      BY <3>1 DEF GenAt, Gen
    <3>3. ASSUME NEW i \in 0 .. 1
          PROVE  Len(BuffersAt(p, base)[i]) = 2 * BuffSize[p]
      <4>1. BuffersAt(p, base)[i] = CounterMode(Key(p, i), base, BuffSize[p])
        BY DEF BuffersAt
      <4>2. 2 * BuffSize[p] \in Nat
        BY PartyFacts
      <4> QED
        BY <4>1, <4>2 DEF CounterMode
    <3> QED
      BY <3>2, <3>3
  <2>3. ASSUME NEW n \in DOMAIN transfers[p]
        PROVE  transfers[p][n].mAtomic \in 0 .. 2
    BY SidesAre DEF TransferOK, Waiting
  <2> QED
    BY <2>1, <2>2, <2>3
<1> QED
  BY <1>1, RandomInvariant, OtInvariant, PTL

(* A transfer whose promise is set holds the messages of the choices, for  *)
(* every program, every HelpStep and every order of the two callbacks.     *)
THEOREM TransfersRightHolds == Spec => []TransfersRight
<1>1. OtInv => TransfersRight
  BY SidesAre DEF TransfersRight, TransferOK, Result
<1> QED
  BY <1>1, OtInvariant, PTL

(* The block that masks transfer i of operation n: those of different      *)
(* operations are different, as each has taken its own from the key.       *)
LEMMA MaskIs ==
  ASSUME OtInv, NEW p \in Party, NEW n \in DOMAIN transfers[p], NEW i \in DOMAIN transfers[p][n].data["helper"]
  PROVE  /\ i \in 1 .. Len(program[n].choices)
         /\ Mask(p, <<n, i>>) = <<OtKey(p), BlocksTo(program, p)[n - 1] + i - 1>>
<1> DEFINE op == program[n]
           words == transfers[p][n].data["helper"]
           first == BlocksTo(program, p)[n - 1]
<1>1. /\ Toward(program, p, n) /\ n \in Nat /\ TransferOK(program, p, n, transfers[p][n]) /\ program \in Seq(Operations)
      /\ "helper" \in Sides
  BY SidesAre, ProgramFacts DEF Sides
<1>2. op.choices \in Seq({0, 1}) /\ Len(op.choices) \in Nat /\ op.sender # op.helper /\ n > 0
  BY <1>1, TowardFacts
<1>3. words = Payload(program, op.helper, p, n)
  <2>1. words = <<>> \/ words = Payload(program, op.helper, p, n)
    BY <1>1 DEF TransferOK
  <2>2. words # <<>>
    OBVIOUS
  <2> QED
    BY <2>1, <2>2
<1>4. words = [j \in 1 .. Len(op.choices) |-> HidingWord(program, p, n, j, op.choices[j])]
  BY <1>2, <1>3 DEF Payload
<1>5. i \in 1 .. Len(op.choices) /\ words[i] = <<OtKey(p), 2 * (first + i - 1) + op.choices[i]>>
  BY <1>4 DEF HidingWord
<1>6. first \in Nat
  <2>1. n - 1 \in Nat
    BY <1>1, <1>2
  <2> QED
    BY <1>1, <2>1, CountsAre
<1>7. op.choices[i] \in 0 .. 1
  BY <1>2, <1>5
<1> HIDE DEF words, op, first
<1>8. Block(words[i]) = <<OtKey(p), first + i - 1>>
  <2> DEFINE b == first + i - 1
             c == op.choices[i]
  <2>1. b \in Nat /\ c \in 0 .. 1
    BY <1>2, <1>5, <1>6, <1>7
  <2> HIDE DEF b, c
  <2>2. (2 * b + c) \div 2 = b
    BY <2>1
  <2> QED
    BY <1>5, <2>2 DEF Block, b, c
<1> QED
  BY <1>5, <1>8 DEF Mask, words, op, first

(* No word serves twice: Sh3ShareGen's draws, and the blocks that mask the *)
(* transfers to a party.                                                   *)
THEOREM NothingReusedHolds == Spec => []NothingReused
<1>1. OtInv => MasksOnce
  <2> SUFFICES ASSUME OtInv, NEW p \in Party, NEW x \in Masks(p), NEW y \in Masks(p), Mask(p, x) = Mask(p, y)
               PROVE  x = y
    BY DEF MasksOnce
  <2>1. PICK n \in DOMAIN transfers[p] : \E i \in DOMAIN transfers[p][n].data["helper"] : x = <<n, i>>
    BY DEF Masks
  <2>2. PICK i \in DOMAIN transfers[p][n].data["helper"] : x = <<n, i>>
    BY <2>1
  <2>3. PICK m \in DOMAIN transfers[p] : \E j \in DOMAIN transfers[p][m].data["helper"] : y = <<m, j>>
    BY DEF Masks
  <2>4. PICK j \in DOMAIN transfers[p][m].data["helper"] : y = <<m, j>>
    BY <2>3
  <2> DEFINE B == BlocksTo(program, p)
             k(a) == Len(program[a].choices)
  <2>5. i \in 1 .. k(n) /\ Mask(p, <<n, i>>) = <<OtKey(p), B[n - 1] + i - 1>>
    BY MaskIs
  <2>6. j \in 1 .. k(m) /\ Mask(p, <<m, j>>) = <<OtKey(p), B[m - 1] + j - 1>>
    BY MaskIs
  <2>7. B[n - 1] + i - 1 = B[m - 1] + j - 1
    BY <2>2, <2>4, <2>5, <2>6
  <2>8. ASSUME NEW a \in DOMAIN transfers[p]
        PROVE  /\ a \in Nat /\ a > 0 /\ a - 1 \in Nat /\ k(a) \in Nat /\ B[a] \in Nat /\ B[a - 1] \in Nat
               /\ B[a] = B[a - 1] + k(a)
    <3>1. Toward(program, p, a) /\ a \in Nat /\ program \in Seq(Operations)
      BY SidesAre, ProgramFacts
    <3>2. a > 0 /\ k(a) \in Nat
      BY <3>1, TowardFacts
    <3>3. a - 1 \in Nat /\ a - 1 + 1 = a
      BY <3>1, <3>2
    <3>4. B[a] \in Nat /\ B[a - 1] \in Nat
      BY <3>1, <3>3, CountsAre
    <3>5. B[a - 1 + 1] = B[a - 1] + Len(program[a - 1 + 1].choices)
      BY <3>1, <3>3, CountsAre
    <3> QED
      BY <3>1, <3>2, <3>3, <3>4, <3>5
  <2>9. ASSUME NEW a \in DOMAIN transfers[p], NEW b \in DOMAIN transfers[p], a < b
        PROVE  B[a] <= B[b - 1]
    <3>1. program \in Seq(Operations) /\ a \in Nat /\ b - 1 \in Nat /\ a <= b - 1
      BY <2>8, <2>9, ProgramFacts
    <3> QED
      BY <3>1, CountsAre
  <2> HIDE DEF B, k
  <2>10. n = m
    <3>1. CASE n < m
      <4>1. B[n] <= B[m - 1] /\ B[n] = B[n - 1] + k(n) /\ B[n - 1] \in Nat /\ k(n) \in Nat /\ B[m - 1] \in Nat
        BY <2>8, <2>9, <3>1
      <4> QED
        BY <2>5, <2>6, <2>7, <4>1
    <3>2. CASE m < n
      <4>1. B[m] <= B[n - 1] /\ B[m] = B[m - 1] + k(m) /\ B[m - 1] \in Nat /\ k(m) \in Nat /\ B[n - 1] \in Nat
        BY <2>8, <2>9, <3>2
      <4> QED
        BY <2>5, <2>6, <2>7, <4>1
    <3>3. n \in Nat /\ m \in Nat
      BY <2>8
    <3> QED
      BY <3>1, <3>2, <3>3
  <2>11. i = j
    <3>1. B[n - 1] \in Nat /\ B[m - 1] = B[n - 1] /\ k(n) \in Nat /\ k(m) \in Nat
      BY <2>8, <2>10
    <3> QED
      BY <2>5, <2>6, <2>7, <3>1
  <2> QED
    BY <2>2, <2>4, <2>10, <2>11
<1> QED
  BY <1>1, OtInvariant, DrawsOnceHolds, PTL DEF NothingReused
=============================================================================
