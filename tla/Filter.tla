------------------------------- MODULE Filter -------------------------------
(***************************************************************************)
(* A list comprehension with a condition, which is a set here and not an   *)
(* operator, so that what it keeps can be reasoned about.                  *)
(***************************************************************************)
LOCAL INSTANCE Naturals
LOCAL INSTANCE Sequences

\* The elements of s that are in keep, in their order.
Kept(s, keep) ==
  LET kept[n \in 0..Len(s)] == IF n = 0 THEN <<>>
                               ELSE IF s[n] \in keep THEN Append(kept[n - 1], s[n])
                               ELSE kept[n - 1]
  IN  kept[Len(s)]
=============================================================================
