--------------------------- MODULE OblvSwitchNet ---------------------------
(***************************************************************************)
(* What OblvPermutation and OblvSwitchNet compute (aby3-DB): the shuffle   *)
(* that hides a permutation, the permutation that a switching program      *)
(* starts with, and the duplication of rows.  Rows are sets of atoms as in *)
(* SelectQuery; a matrix is a sequence of rows, and row 0 in a permutation *)
(* stands for -1, "not wanted".                                            *)
(***************************************************************************)
EXTENDS SelectQuery

CONSTANT Step      \* rows that travel in one message ("step")
ASSUME StepAssumption == Step \in Nat \ {0}

Chunks(rows) == (rows + Step - 1) \div Step
Filled(rows, row) == [i \in 1 .. rows |-> row]
Junk == {<<"uninitialised">>}
Resized(matrix, rows) == [i \in 1 .. rows |-> IF i \in DOMAIN matrix THEN matrix[i] ELSE Junk]

-----------------------------------------------------------------------------
(* OblvPermutation.  Both ends shuffle with the words of a generator of    *)
(* fixed seed and mask row i with the i-th row of another one.             *)
Swapped(s, i, j) == [s EXCEPT ![i] = s[j], ![j] = s[i]]

BugSwapIdx(draws, rows, i) == (draws[i] % rows) + 1
SwapIdx(draws, rows, i) == (draws[i] % (rows + 1 - i)) + i

ChunkEnd(rows, chunk) == IF chunk * Step < rows THEN chunk * Step ELSE rows
ChunkRows(rows, chunk) == ((chunk - 1) * Step + 1) .. ChunkEnd(rows, chunk)
ChunkLen(rows, chunk) == ChunkEnd(rows, chunk) - (chunk - 1) * Step
ChunkOf(s, chunk) == [n \in 1 .. ChunkLen(Len(s), chunk) |-> s[(chunk - 1) * Step + n]]

ShuffleChunk(s, draws, chunk) ==
  FoldLeft(LAMBDA t, i : Swapped(t, i, SwapIdx(draws, Len(s), i)), s,
           [n \in 1 .. ChunkLen(Len(s), chunk) |-> (chunk - 1) * Step + n])

Mask(i) == {<<"mask", i>>}

(* The sender masks what it sends, in the place it sends it from.          *)
Masked(s, chunk) == [i \in DOMAIN s |-> IF i \in ChunkRows(Len(s), chunk) THEN Xor(s[i], Mask(i)) ELSE s[i]]

(* The programmer adds the masks to its own share, or overwrites it.       *)
Unmasked(dest, perm, additive) ==
  FoldLeft(LAMBDA d, i : IF perm[i] = 0 THEN d
                         ELSE [d EXCEPT ![perm[i]] = IF additive THEN Xor(@, Mask(i)) ELSE Mask(i)],
           dest, [i \in DOMAIN perm |-> i])

(* The receiver puts the rows of a chunk where the programmer says.        *)
Placed(dest, perm, rows) ==
  FoldLeft(LAMBDA d, i : IF perm[i] = 0 THEN d ELSE [d EXCEPT ![perm[i]] = rows[i]],
           dest, [i \in DOMAIN perm |-> i])

-----------------------------------------------------------------------------
(* OblvSwitchNet::Program: switches [mSrc, mDest] and how many use each    *)
(* source.  finalize sorts them by source, in place: the cycle leader sort *)
(* of its two loops, with counts[src] the next place for that source.      *)
PartialSums(counts) ==
  [i \in DOMAIN counts |-> 1 + FoldLeft(LAMBDA s, j : s + counts[j], 0, [j \in 1 .. i - 1 |-> j])]

(* One round of the inner loop: while place j of element i's source is     *)
(* before i, put it there and go on with what was there.                   *)
MoveElement(st, i) ==
  LET Turn(t, unused) ==
        LET src == t.a[i].mSrc  j == t.counts[src]
        IN IF j < i THEN [a |-> Swapped(t.a, i, j), counts |-> [t.counts EXCEPT ![src] = @ + 1]] ELSE t
  IN FoldLeft(Turn, st, st.a)

Finalize(mSrcDests, mCounts) ==
  FoldLeft(MoveElement, [a |-> mSrcDests, counts |-> PartialSums(mCounts)],
           [i \in DOMAIN mSrcDests |-> Len(mSrcDests) + 1 - i]).a

Validate(mSrcDests) == \A i \in 2 .. Len(mSrcDests) : mSrcDests[i - 1].mSrc <= mSrcDests[i].mSrc

(* nextFree, from f = [idx, node]: the first source from idx on that no    *)
(* switch uses; node is the first switch whose source is not passed yet.   *)
NextFree(mSrcDests, f) ==
  LET Used(g) == g.node <= Len(mSrcDests) /\ mSrcDests[g.node].mSrc = g.idx
      Skip(g, unused) ==
        IF ~ Used(g) THEN g
        ELSE [idx |-> g.idx + 1,
              node |-> 1 + Cardinality({n \in DOMAIN mSrcDests : mSrcDests[n].mSrc <= g.idx})]
      g == FoldLeft(Skip, f, mSrcDests)
  IN [free |-> g.idx, idx |-> g.idx + 1, node |-> g.node]

(* programSelect: the first switch of a source takes its row, the further  *)
(* ones take rows nobody wants.  (What they take is overwritten.)          *)
SelectPerm(mSrcDests, mSrcSize) ==
  LET Place(st, n) ==
        IF n > 1 /\ mSrcDests[n - 1].mSrc = mSrcDests[n].mSrc
          THEN LET f == NextFree(mSrcDests, st.f)
               IN [perm |-> [st.perm EXCEPT ![f.free] = n], f |-> [idx |-> f.idx, node |-> f.node]]
          ELSE [st EXCEPT !.perm[mSrcDests[n].mSrc] = n]
      rows == IF Len(mSrcDests) < mSrcSize THEN mSrcSize ELSE Len(mSrcDests)
  IN FoldLeft(Place, [perm |-> Filled(rows, 0), f |-> [idx |-> 1, node |-> 1]],
              [n \in DOMAIN mSrcDests |-> n]).perm

-----------------------------------------------------------------------------
(* The duplication: row i becomes row i-1 if switch i has its source.  By  *)
(* a transfer per row the programmer learns (one of the helper's two sums) *)
(* what makes its row a share of the right one.  r: the transfers' choice  *)
(* bits, w(i, b): their two strings, both from generators of fixed seed.   *)
Dup(mSrcDests, i) == IF mSrcDests[i - 1].mSrc = mSrcDests[i].mSrc THEN 1 ELSE 0
W(i, b) == {<<"w", i, b>>}

DupBits(mSrcDests, r) == [i \in DOMAIN mSrcDests |-> IF i = 1 THEN r[i] ELSE (r[i] + Dup(mSrcDests, i)) % 2]

(* sendDuplicate, at the helper, with fresh rows for its new share.        *)
Fresh(src, i, tag) == IF i = 1 THEN src[1] ELSE {<<"fresh", tag, i>>}
SendDuplicate(src, bits, tag) ==
  LET Row(i) == [b \in 0 .. 1 |->
        LET j == i - (IF b = 0 THEN bits[i] ELSE 1 - bits[i])
        IN Xor(W(i, b), Xor(Fresh(src, i, tag), IF j = i THEN src[i] ELSE Fresh(src, j, tag)))]
  IN [share |-> [i \in DOMAIN src |-> Fresh(src, i, tag)],
      sums |-> [i \in 2 .. Len(src) |-> Row(i)]]

(* helpDuplicate, at the sender: the strings the choice bits choose.       *)
HelpDuplicate(rows, r) == [i \in 2 .. rows |-> W(i, r[i])]

(* programDuplicate.                                                       *)
BugProgramDuplicate(dest, mSrcDests, r, share0, share1) ==
  [i \in DOMAIN dest |-> IF i = 1 THEN dest[1]
     ELSE Xor(dest[i - Dup(mSrcDests, i)], Xor(share0[i], share1[i][r[i]]))]
ProgramDuplicate(dest, mSrcDests, r, share0, share1) ==
  FoldLeft(LAMBDA d, i : [d EXCEPT ![i] = Xor(d[i - Dup(mSrcDests, i)], Xor(share0[i], share1[i][r[i]]))],
           dest, [k \in 1 .. Len(dest) - 1 |-> k + 1])

(* What program does with the selected rows: each is added where it        *)
(* belongs.                                                                *)
Added(dest, perm, rows) ==
  FoldLeft(LAMBDA d, n : [d EXCEPT ![perm[n]] = Xor(@, rows[n])], dest, [n \in DOMAIN perm |-> n])
=============================================================================
