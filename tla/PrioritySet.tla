------------------------------- MODULE PrioritySet -------------------------------
(***************************************************************************)
(* Priorities and sets of them as emcyphal-core computes them: a priority  *)
(* is its code, the most urgent one 0, and a set is a u8 whose bit p is    *)
(* one if it holds priority p.                                             *)
(***************************************************************************)
EXTENDS Integers, Sequences, FiniteSetsExt, Bitwise

CONSTANT None

Priority == 0 .. 7
MAX == 7

TryFromU8(code) == IF code <= MAX THEN code ELSE None

PrioritySets == 0 .. 255
NONE == 0

\* Shifts of a u8 drop what leaves it.
Complement(bits) == 255 - bits
NewEq(p) == 2 ^ p
NewGe(p) == (255 * 2 ^ p) % 256

\* Mutant: shifted by the priority itself.
MutantNewLe(p) == 255 \div 2 ^ p

NewLe(p) == 255 \div 2 ^ (MAX - p)
NewGt(p) == Complement(NewLe(p))
NewLt(p) == Complement(NewGe(p))

Insert(bits, p) == bits | NewEq(p)
BitAnd(bits, mask) == bits & mask
Remove(bits, p) == BitAnd(bits, Complement(NewEq(p)))

TrailingZeros(bits) ==
    IF bits = 0 THEN 8 ELSE Max({n \in 0 .. 7 : bits % 2 ^ n = 0})
LeadingZeros(bits) == 8 - Min({n \in 0 .. 8 : bits < 2 ^ n})

\* Of an empty set the counts are no priority: 8, and 255 = 0 - 1.
First(bits) == TryFromU8(TrailingZeros(bits))
Last(bits)  == TryFromU8((8 - LeadingZeros(bits) + 255) % 256)

\* PrioritySetIterator takes the first one out until there is none.
Iterate(bits) ==
    LET from[b \in PrioritySets] ==
            IF First(b) = None THEN << >>
            ELSE << First(b) >> \o from[Remove(b, First(b))]
    IN  from[bits]

================================================================================
