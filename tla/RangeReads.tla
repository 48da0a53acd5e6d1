----------------------------- MODULE RangeReads -----------------------------
(***************************************************************************)
(* What ZipSource.readRangeSync promises its callers, one at a time: the   *)
(* bytes of the range that was asked for, all of them and no others, or    *)
(* null, or an exception.  The byte at position p of the file is p itself, *)
(* so that bytes from elsewhere are told apart from the right ones.        *)
(***************************************************************************)
EXTENDS Naturals

CONSTANTS
    Size    \* of the file

VARIABLES
    asked,      \* the range of the call under way, or NoRange
    answer      \* what the last call came to

NoRange == [start |-> 0, total |-> 0]

Ranges ==
    {r \in [start : 0..(Size - 1), total : 1..Size] : r.start + r.total <= Size}

BytesOf(range) == [i \in 0..(range.total - 1) |-> range.start + i]

NoBytes == [i \in {} |-> 0]

Bytes(b) == [kind |-> "bytes", bytes |-> b]
Null == [kind |-> "null", bytes |-> NoBytes]
Thrown == [kind |-> "thrown", bytes |-> NoBytes]

Init == asked = NoRange /\ answer = Null

Ask ==
    /\ asked = NoRange
    /\ asked' \in Ranges
    /\ UNCHANGED answer

Answer ==
    /\ asked # NoRange
    /\ answer' \in {Bytes(BytesOf(asked)), Null, Thrown}
    /\ asked' = NoRange

Spec == Init /\ [][Ask \/ Answer]_<<asked, answer>>
=============================================================================
