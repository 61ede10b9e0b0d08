------------------------------ MODULE SeqLists ------------------------------
(***************************************************************************)
(* What libsll promises: every list is a finite sequence of values that    *)
(* changes by one operation at a time.                                     *)
(***************************************************************************)
EXTENDS Naturals, Sequences

CONSTANTS ListNames, ListValues
VARIABLE lists

Without(s, i) == SubSeq(s, 1, i - 1) \o SubSeq(s, i + 1, Len(s))
With(s, i, v) == SubSeq(s, 1, i - 1) \o <<v>> \o SubSeq(s, i, Len(s))
Changes(l, s) == lists' = [lists EXCEPT ![l] = s]

Empty == lists = [l \in ListNames |-> << >>]

(* Before the first greater value: after those that compare as equal.      *)
SortedAt(s, v) ==
  CHOOSE i \in 1 .. Len(s) + 1 :
    /\ \A j \in 1 .. i - 1 : s[j] <= v
    /\ i <= Len(s) => s[i] > v

ListNext ==
  \E l \in ListNames :
    \/ \E v \in ListValues : \/ Changes(l, Append(lists[l], v))
                             \/ Changes(l, <<v>> \o lists[l])
                             \/ Changes(l, With(lists[l], SortedAt(lists[l], v), v))
    \/ \E i \in DOMAIN lists[l] : Changes(l, Without(lists[l], i))
    \/ Changes(l, << >>)

ListSpec == Empty /\ [][ListNext]_lists
=============================================================================
