----------------------------- MODULE SlideWindow -----------------------------
(***************************************************************************)
(* slideWindow (compress.go): the last `size` bytes of a stream, kept in   *)
(* place in a slice of capacity size.  Both ends of a connection keep one  *)
(* per direction when context takeover is negotiated.                      *)
(***************************************************************************)
EXTENDS Integers, Sequences

(* Go's s[:m] and s[m:]. *)
Take(s, m) == SubSeq(s, 1, m)
Drop(s, m) == SubSeq(s, m + 1, Len(s))

(* Go's copy(dst[k:], src), for overlapping slices too. *)
Copy(dst, k, src) ==
    [i \in 1..Len(dst) |-> IF k < i /\ i <= k + Len(src) THEN src[i - k] ELSE dst[i]]

(* slideWindow.Write on an enabled window: dict grows until it is full,    *)
(* then is replaced or shifted in place.                                   *)
Overwrite(dict, p, size) ==
    LET n == Len(p)
    IN  IF n >= size THEN Copy(dict, 0, Drop(p, n - size))
                     ELSE Copy(Copy(dict, 0, Drop(dict, n)), size - n, p)

Write_RestNotCut(dict, p, size) ==
    LET m == size - Len(dict)
    IN  IF Len(p) + Len(dict) <= size THEN dict \o p
        ELSE IF m > 0 THEN Overwrite(dict \o Take(p, m), p, size)
        ELSE Overwrite(dict, p, size)

Write(dict, p, size) ==
    LET m == size - Len(dict)
    IN  IF Len(p) + Len(dict) <= size THEN dict \o p
        ELSE IF m > 0 THEN Overwrite(dict \o Take(p, m), Drop(p, m), size)
        ELSE Overwrite(dict, p, size)

(* The specification: the last `size` elements of a stream, all of it if   *)
(* it is shorter.                                                          *)
LastN(s, size) == IF Len(s) <= size THEN s ELSE Drop(s, Len(s) - size)
==============================================================================
