------------------------------- MODULE SharedOT -------------------------------
(***************************************************************************)
(* The oblivious transfer of three parties: sender and helper hold the     *)
(* same key and count the blocks they have taken from it.  The sender      *)
(* masks its two messages of a transfer with the two words of a block, the *)
(* helper passes on the word of the receiver's choice.                     *)
(***************************************************************************)
EXTENDS SequencesExt

CONSTANT HelpStep   \* stepSize of help (128 in the code)
ASSUME HelpStepAssumption == HelpStep \in Nat \ {0}

SetKey(key) == [key |-> key, mIdx |-> 0]

(* Block n of the key has the words 2*n and 2*n+1.                         *)
(* (Operators named Bug... are slips of the operator they precede; the     *)
(* mutants of PROJECT.json put them in its place.)                         *)
BugMaskWord(ot, n, bit) == <<ot.key, n + bit>>
MaskWord(ot, n, bit) == <<ot.key, 2 * n + bit>>

(* send: msgs[i] is a pair of messages; an encrypted message is what it    *)
(* says and the word that hides it.                                        *)
Send(ot, msgs) ==
  [ot |-> [ot EXCEPT !.mIdx = @ + Len(msgs)],
   payload |-> [i \in 1 .. Len(msgs) |->
                  [bit \in 0 .. 1 |-> [mask |-> MaskWord(ot, ot.mIdx + i - 1, bit), msg |-> msgs[i][bit]]]]]

(* help: whole steps of HelpStep blocks, then block by block.              *)
HelpLengths(n) ==
  LET steps == n \div HelpStep
  IN [k \in 1 .. steps |-> HelpStep] \o [k \in 1 .. n - steps * HelpStep |-> 1]

BugHelp(ot, choices) ==
  LET Chunk(h, len) ==
        [ot |-> [h.ot EXCEPT !.mIdx = @ + HelpStep],
         payload |-> h.payload \o
           [j \in 1 .. len |-> MaskWord(h.ot, h.ot.mIdx + j - 1, choices[Len(h.payload) + j])]]
  IN FoldLeft(Chunk, [ot |-> ot, payload |-> <<>>], HelpLengths(Len(choices)))

Help(ot, choices) ==
  LET Chunk(h, len) ==
        [ot |-> [h.ot EXCEPT !.mIdx = @ + len],
         payload |-> h.payload \o
           [j \in 1 .. len |-> MaskWord(h.ot, h.ot.mIdx + j - 1, choices[Len(h.payload) + j])]]
  IN FoldLeft(Chunk, [ot |-> ot, payload |-> <<>>], HelpLengths(Len(choices)))

(* What the receiver makes of the two: noise unless the words are the same.*)
Unmasked(sendMsg, recvMsg, choices) ==
  [i \in 1 .. Len(choices) |->
     IF sendMsg[i][choices[i]].mask = recvMsg[i] THEN sendMsg[i][choices[i]].msg ELSE <<>>]
=============================================================================
