----------------------------- MODULE ReplayWindow -----------------------------
(***************************************************************************)
(* replayWindow of securechan.go: the greatest sequence number seen, and   *)
(* one bit for each of the last windowSize numbers. A bitmap is the set of *)
(* its bits: bit d stands for the number maxSeq - d.                       *)
(***************************************************************************)
EXTENDS Naturals

CONSTANT windowSize     \* the width of the bitmap, 64 in the code

ASSUME WindowSizeAssumption == windowSize \in Nat \ {0}

Bits == 0..(windowSize - 1)
Window == [maxSeq : Nat, bitmap : SUBSET Bits]
EmptyWindow == [maxSeq |-> 0, bitmap |-> {}]

(* bitmap <<= n, of an unsigned integer of that width; by windowSize or     *)
(* more it is empty, as the code also says itself.                          *)
ShiftLeft(bitmap, n) == {d \in Bits : d >= n /\ d - n \in bitmap}

(* The answer of Check. *)
Fresh(w, seq) ==
    /\ seq /= 0
    /\ \/ seq > w.maxSeq
       \/ w.maxSeq - seq < windowSize /\ w.maxSeq - seq \notin w.bitmap

(* Mutant: the window moves by one, however far the number is ahead. *)
SlideByOne(w, seq) ==
    IF seq > w.maxSeq
    THEN [maxSeq |-> seq, bitmap |-> ShiftLeft(w.bitmap, 1) \cup {0}]
    ELSE [w EXCEPT !.bitmap = @ \cup {w.maxSeq - seq}]

(* Mutant: a number inside the window leaves no mark. *)
SlideWithoutMark(w, seq) ==
    IF seq > w.maxSeq
    THEN [maxSeq |-> seq, bitmap |-> ShiftLeft(w.bitmap, seq - w.maxSeq) \cup {0}]
    ELSE w

(* What Check leaves when it answers true. *)
Slide(w, seq) ==
    IF seq > w.maxSeq
    THEN [maxSeq |-> seq, bitmap |-> ShiftLeft(w.bitmap, seq - w.maxSeq) \cup {0}]
    ELSE [w EXCEPT !.bitmap = @ \cup {w.maxSeq - seq}]

-----------------------------------------------------------------------------
(* The reference: what a window that remembered every number it let through *)
(* would say. A number is late when it lags windowSize behind the greatest. *)
Late(passed, seq) == \E p \in passed : p >= seq + windowSize

FreshForEver(passed, seq) == seq /= 0 /\ seq \notin passed /\ ~Late(passed, seq)

(* The window is exact for a history: it remembers its greatest number, and *)
(* its bits are the numbers of the history that are not late.               *)
Exact(w, passed) ==
    /\ \A p \in passed : 0 < p /\ p <= w.maxSeq
    /\ w.maxSeq \in passed \cup {0}
    /\ \A d \in Bits : d \in w.bitmap <=> d <= w.maxSeq /\ w.maxSeq - d \in passed

=============================================================================
