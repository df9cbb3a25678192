---------------------------------- MODULE Ecc ----------------------------------
(***************************************************************************)
(* One byte in two emulated memories: hamming2/ecclib.c, which keeps data  *)
(* and check bits apart, and hamming/hamming2.c, which keeps them in one   *)
(* word.  Both are written, damaged and read together.  A word is the set  *)
(* of its positions that hold a 1, numbered as in the encoded word of      *)
(* ecctest.c; position 0 is the parity of the whole word (pW, and bit 31   *)
(* of the other memory).                                                   *)
(***************************************************************************)
EXTENDS Integers, FiniteSets

CONSTANTS
    Bytes,   \* the bytes written, each as its positions
    Fresh,   \* what malloc may return: words
    MaxFlips \* bound: bits flipped

VARIABLES
    value,             \* the byte written last, as its positions
    data_memory,       \* ecclib.c
    code_memory,
    memory,            \* hamming2.c
    clean,             \* history: the last write found no bit that its own word has not
    flips              \* bits flipped so far

eccVars == <<value, data_memory, code_memory, memory, clean, flips>>

CheckBits == {1, 2, 4, 8}
DataBits == {3, 5, 6, 7, 9, 10, 11, 12}
PW == 0
Positions == 0 .. 15

ASSUME EccAssumption ==
    /\ Bytes \subseteq SUBSET DataBits
    /\ Fresh \subseteq SUBSET Positions
    /\ MaxFlips \in Nat

\* ecclib.h; any other answer is the position of a wrong bit
NO_ERROR == 0
PW_ERROR == -1
DOUBLE_BIT_ERROR == -3

Odd(word) == Cardinality(word) % 2 = 1
Toggle(word, bits) == (word \ bits) \cup (bits \ word)
Covers == [p \in CheckBits |-> {i \in 1 .. 15 : (i \div p) % 2 = 1}]
Parities(word) == {p \in CheckBits : Odd(word \cap Covers[p])}
Position(syndrome) == CHOOSE i \in Positions : \A p \in CheckBits : (i \div p) % 2 = 1 <=> p \in syndrome

-----------------------------------------------------------------------------
\* ecclib.c

\* pW is the parity of the data and the other check bits.
get_codeword(data) ==
    LET p == Parities(data)
    IN  IF Odd(data \cup p) THEN p \cup {PW} ELSE p

SyndromeOf(data, code) == Toggle(get_codeword(data), code) \ {PW}

\* Mutant: the line that is commented out as a bug, the parity of the computed check bits.
pW2Computed(data, code) == IF PW \in get_codeword(data) THEN {PW} ELSE {}

\* pW2 is the parity of the data and the stored check bits.
pW2(data, code) == IF Odd(data \cup (code \ {PW})) THEN {PW} ELSE {}

\* What read_byte returns; it does not store the byte it read.
Verdict(data, code) ==
    LET syndrome == SyndromeOf(data, code)
        same == (PW \in code) = (PW \in pW2(data, code))
    IN  CASE syndrome = {} /\ same -> NO_ERROR
          [] syndrome = {} /\ ~same -> PW_ERROR
          [] syndrome # {} /\ same -> DOUBLE_BIT_ERROR
          [] OTHER -> Position(syndrome)

\* The only error it repairs: pW is set where it should be set, never cleared.
RepairPw(data, code) ==
    IF Verdict(data, code) = PW_ERROR THEN code \cup pW2(data, code) ELSE code

-----------------------------------------------------------------------------
\* hamming2.c: bits are or'ed into the word, never cleared

hamming_data(byte, word) == word \cup byte

\* Mutant: the parity of the word is not written.
ApplyParityChecksOnly(word) == word \cup Parities(word)

\* A check bit covers itself, so that one that is set already is not counted twice.
ApplyParity(word) ==
    LET checked == word \cup Parities(word)
    IN  IF Odd(checked \ {PW}) THEN checked \cup {PW} ELSE checked

write_w_hamming(byte, word) == ApplyParity(hamming_data(byte, word))

word_parity(word) == Odd(word \ {PW})
get_parity(word) == PW \in word

\* Mutant: the mask is one bit off.
CorrectedOff(word) ==
    LET c == Parities(word)
    IN  IF c = {} THEN (IF word_parity(word) THEN word \cup {PW} ELSE word)
        ELSE IF word_parity(word) = get_parity(word) THEN word
        ELSE Toggle(word, {Position(c) - 1})

\* read_w_hamming: the word it leaves, -1 for two wrong bits, and else the data
Corrected(word) ==
    LET c == Parities(word)
    IN  IF c = {} THEN (IF word_parity(word) THEN word \cup {PW} ELSE word)
        ELSE IF word_parity(word) = get_parity(word) THEN word
        ELSE Toggle(word, {Position(c)})
DoubleBitError(word) == Parities(word) # {} /\ word_parity(word) = get_parity(word)
ReadBack(word) == Corrected(word) \cap DataBits

-----------------------------------------------------------------------------
Encode(byte) == write_w_hamming(byte, {})

\* enable_ecc_memory and a first write.  hamming2.c writes to memory fresh from malloc.
EccInit ==
    /\ value \in Bytes
    /\ data_memory = value
    /\ code_memory = get_codeword(value)
    /\ \E fresh \in Fresh :
           /\ memory = write_w_hamming(value, fresh)
           /\ clean = (fresh \subseteq Encode(value))
    /\ flips = 0

\* write_byte, write_w_hamming: the second one over what is there
Write ==
    \E byte \in Bytes :
        /\ value' = byte
        /\ data_memory' = byte
        /\ code_memory' = get_codeword(byte)
        /\ memory' = write_w_hamming(byte, memory)
        /\ clean' = (memory \subseteq Encode(byte))
        /\ UNCHANGED flips

\* flip_bit, and memory[1] ^= 1L << r
Flip ==
    \E i \in DataBits \cup CheckBits \cup {PW} :
        /\ flips < MaxFlips
        /\ flips' = flips + 1
        /\ data_memory' = Toggle(data_memory, {i} \cap DataBits)
        /\ code_memory' = Toggle(code_memory, {i} \ DataBits)
        /\ memory' = Toggle(memory, {i})
        /\ UNCHANGED <<value, clean>>

\* read_byte, read_w_hamming
Read ==
    /\ code_memory' = RepairPw(data_memory, code_memory)
    /\ memory' = Corrected(memory)
    /\ UNCHANGED <<value, data_memory, clean, flips>>

EccNext == Write \/ Flip \/ Read

EccSpec == EccInit /\ [][EccNext]_eccVars

-----------------------------------------------------------------------------
\* Which bits are wrong in each memory.
Wrong == Toggle(data_memory \cup code_memory, Encode(value))
WrongInWord == Toggle(memory, Encode(value))

\* ecclib.c tells none, one and two wrong bits apart, and where the one is, whatever was
\* written, repaired and damaged before.
ErrorsTold ==
    Cardinality(Wrong) <= 2 =>
        Verdict(data_memory, code_memory) =
            CASE Wrong = {} -> NO_ERROR
              [] Wrong = {PW} -> PW_ERROR
              [] Cardinality(Wrong) = 2 -> DOUBLE_BIT_ERROR
              [] OTHER -> CHOOSE i \in Wrong : TRUE

\* hamming2.c gives back the byte when at most one bit of the word is wrong, and reports two;
\* and as long as nothing was flipped none is wrong, unless the last write found a bit that
\* the new word has not.
ReadsBack ==
    /\ Cardinality(WrongInWord) <= 1 => ReadBack(memory) = value /\ ~DoubleBitError(memory)
    /\ Cardinality(WrongInWord) = 2 => DoubleBitError(memory)
    /\ clean /\ flips = 0 => WrongInWord = {}

\* A read makes no bit wrong while at most two are, and repairs a single wrong bit of
\* hamming2.c's word, the parity of the whole word left aside.
ReadRepairs ==
    [][ Read =>
          /\ Cardinality(Wrong) <= 2 => Wrong' \subseteq Wrong
          /\ Cardinality(WrongInWord) <= 2 => WrongInWord' \subseteq WrongInWord
          /\ Cardinality(WrongInWord) = 1 => WrongInWord' \subseteq {PW} ]_eccVars

\* "restore pW to PW2" (ecclib.c:79), "word parity bit error, correcting" (hamming2.c:142):
\* when the parity of a whole word is all that is wrong in it, a read leaves it right, where
\* the write met no bit that stayed.  It does not where that parity is set and should not be:
\* both programs or the bit that is right to the one that is there.
PwRestored ==
    /\ Wrong = {PW} => RepairPw(data_memory, code_memory) = get_codeword(value)
    /\ clean /\ WrongInWord = {PW} => Corrected(memory) = Encode(value)
=============================================================================
