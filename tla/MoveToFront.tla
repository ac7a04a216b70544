---------------------------- MODULE MoveToFront ----------------------------
(***************************************************************************)
(* What the colour cache of the iLO video decoder promises: a list of      *)
(* colours, the one used last in front.  Encoder and decoder each keep one *)
(* and agree on it, so that a colour can be named by its place.            *)
(***************************************************************************)
EXTENDS Naturals, Sequences

CONSTANTS Colors, Slots

VARIABLES
    list,   \* the colours, the one used last in front
    fresh,  \* how many of them the current block has used
    shown   \* the colour of the last pixel

vars == <<list, fresh, shown>>

\* The element at a place moves to the front, and those before it one back.
Front(s, i) ==
    [k \in 1..Len(s) |-> IF k = 1 THEN s[i] ELSE IF k <= i THEN s[k - 1] ELSE s[k]]

\* How many of the list's colours the block has used, once it uses that place.
Used(i) == IF i > fresh THEN fresh + 1 ELSE fresh

Absent(color) == \A i \in 1..Len(list) : list[i] # color

Init ==
    /\ list = <<>>
    /\ fresh = 0
    /\ shown \in Colors

\* The colour at a place is used: it moves to the front.  A colour sent in
\* full although the list has it is an error, after which nothing is shown.
Use(i) ==
    /\ list' = Front(list, i)
    /\ fresh' = Used(i)
    /\ shown' \in {shown, list[i]}

\* A colour that is not in the list is sent; the last one makes room for it.
Insert(color) ==
    /\ Absent(color)
    /\ list' = <<color>> \o SubSeq(list, 1, IF Len(list) < Slots THEN Len(list) ELSE Slots - 1)
    /\ fresh' = IF fresh = Slots THEN fresh ELSE fresh + 1
    /\ shown' = color

\* A block ends, and the colours it did not use are forgotten.
Forget ==
    /\ list' = SubSeq(list, 1, fresh)
    /\ fresh' = 0
    /\ UNCHANGED shown

\* The pixel that ends a block uses a colour.
UseLast(i) ==
    /\ list' = SubSeq(Front(list, i), 1, Used(i))
    /\ fresh' = 0
    /\ shown' = list[i]

Clear ==
    /\ list' = <<>>
    /\ fresh' = 0
    /\ UNCHANGED shown

Next ==
    \/ \E i \in 1..Len(list) : Use(i) \/ UseLast(i)
    \/ \E color \in Colors : Insert(color)
    \/ Forget
    \/ Clear

Spec == Init /\ [][Next]_vars
============================================================================
