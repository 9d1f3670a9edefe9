----------------------------- MODULE Sh3ShareGen -----------------------------
(***************************************************************************)
(* The common randomness of a party with its two neighbours.  Nothing is   *)
(* computed here from random values, so a seed is the number of the party  *)
(* that chose it, a word of the stream a seed expands to is <<seed, n>>, a *)
(* key is the word that a block of the stream begins with, and a word of a *)
(* key's AES counter mode is <<key, n>>.  A block is two words; a word is  *)
(* one i64.                                                                *)
(***************************************************************************)
EXTENDS Integers, Sequences

(* A PRNG: get of a block and get of an i64 take from one stream of bytes. *)
SetSeed(seed) == [seed |-> seed, pos |-> 0]
Word(prng) == <<prng.seed, prng.pos>>
AfterBlock(prng) == [prng EXCEPT !.pos = @ + 2]
AfterWord(prng) == [prng EXCEPT !.pos = @ + 1]

(* ecbEncCounterMode, of "size" blocks from block baseIdx on.              *)
(* (Operators named Bug... are slips of the operator they precede; the     *)
(* mutants of PROJECT.json put them in its place.)                         *)
BugCounterMode(key, baseIdx, size) == [j \in 1 .. size |-> <<key, baseIdx + j - 1>>]
CounterMode(key, baseIdx, size) == [j \in 1 .. 2 * size |-> <<key, 2 * baseIdx + j - 1>>]

(* refillBuffer.  The counter advances by the length of this party's own   *)
(* buffer: parties with buffers of different lengths refill them at        *)
(* different draws.                                                        *)
RefillAt(g, next) ==
  [g EXCEPT !.mShareBuff = [i \in 0 .. 1 |-> CounterMode(g.mShareGen[i], g.mShareGenIdx, g.size)],
            !.mShareGenIdx = next,
            !.mShareIdx = 0]
BugRefill(g) == RefillAt(g, g.mShareGenIdx + 2 * g.size)
Refill(g) == RefillAt(g, g.mShareGenIdx + g.size)

(* init(prevSeed, nextSeed, buffSize): mShareGen[0] is common to this party*)
(* and the previous one, mShareGen[1] to this one and the next.            *)
NewShareGen(prevSeed, nextSeed, size) ==
  Refill([size         |-> size,
          mPrevCommon  |-> AfterBlock(SetSeed(prevSeed)),
          mNextCommon  |-> AfterBlock(SetSeed(nextSeed)),
          mShareGen    |-> [i \in 0 .. 1 |-> Word(SetSeed(IF i = 0 THEN prevSeed ELSE nextSeed))],
          mShareGenIdx |-> 0,
          mShareIdx    |-> 0,
          mShareBuff   |-> [i \in 0 .. 1 |-> <<>>]])

(* getShare, getBinaryShare and getRandIntShare (and getRandBinaryShare,   *)
(* which calls it) take the words at mShareIdx of both buffers; from these *)
(* they return prev - next, prev ^ next and the pair <<next, prev>>.       *)
Exhausted(g) == g.mShareIdx + 1 > 2 * g.size
Ready(g) == IF Exhausted(g) THEN Refill(g) ELSE g

Drawn(g) == [prev |-> Ready(g).mShareBuff[0][Ready(g).mShareIdx + 1],
             next |-> Ready(g).mShareBuff[1][Ready(g).mShareIdx + 1]]
AfterDraw(g) == [Ready(g) EXCEPT !.mShareIdx = @ + 1]
=============================================================================
