-------------------------------- MODULE Sizes --------------------------------
(***************************************************************************)
(* Sizes in bytes as people write them (src/bytes.rs).  A written size is  *)
(* a number and a suffix; which spellings of a suffix are accepted is left *)
(* out, one that is not has no unit here.                                  *)
(***************************************************************************)
EXTENDS Integers

CONSTANTS
    Kilo,     \* what a K is worth: 1024
    MaxBytes  \* the largest u64

ASSUME SizeAssumption ==
    /\ Kilo \in Nat /\ Kilo > 1
    /\ MaxBytes \in Nat /\ MaxBytes >= Kilo * Kilo * Kilo

Size == 0..MaxBytes

KB == Kilo
MB == Kilo * KB
GB == Kilo * MB

Unit == [B |-> 1, KB |-> KB, MB |-> MB, GB |-> GB]

Refused == -1

\* A number that does not fit, or no longer does once multiplied, is refused.
Parsed(written) ==
    IF /\ written.suffix \in DOMAIN Unit
       /\ written.number \in Size
       /\ written.number * Unit[written.suffix] \in Size
    THEN written.number * Unit[written.suffix]
    ELSE Refused

\* Mutant: the largest unit that is not larger than the size.
ShownInLargest(bytes) ==
    LET suffix == CASE bytes >= GB -> "GB"
                    [] bytes >= MB /\ bytes < GB -> "MB"
                    [] bytes >= KB /\ bytes < MB -> "KB"
                    [] OTHER -> "B"
    IN  [number |-> bytes \div Unit[suffix], suffix |-> suffix]

Divides(unit, bytes) == bytes >= unit /\ bytes % unit = 0

\* The largest unit that divides exactly, and bytes otherwise.
Shown(bytes) ==
    LET suffix == CASE Divides(GB, bytes) -> "GB"
                    [] Divides(MB, bytes) /\ ~Divides(GB, bytes) -> "MB"
                    [] Divides(KB, bytes) /\ ~Divides(MB, bytes) -> "KB"
                    [] OTHER -> "B"
    IN  [number |-> bytes \div Unit[suffix], suffix |-> suffix]
=============================================================================
