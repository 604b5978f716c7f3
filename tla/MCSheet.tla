------------------------------ MODULE MCSheet ------------------------------
(***************************************************************************)
(* Small instances of Sheet: two patterns, two columns, patterns of two    *)
(* rows and the end, and contents in which a control is selected.          *)
(***************************************************************************)
EXTENDS Sheet

MCSelects(ev) == CASE ev = "a0" -> 0 [] ev = "a1" -> 1 [] OTHER -> None
MCConvert(ev) == CASE ev = "n" -> "p" [] ev = "p" -> "n" [] OTHER -> None

Empty == [k \in SheetKeys |-> None]
Row(ts, evs) == [ts |-> ts, evs |-> evs]
At(sys, col, ts, idx) == [sys |-> sys, col |-> col, ts |-> ts, idx |-> idx]

(* A new song; two patterns with triggers in both columns; and one pattern *)
(* twice.                                                                  *)
MCBeginnings ==
    {[data |-> Empty, order |-> <<<<0, 0>>>>, sel |-> None, edit |-> FALSE, connected |-> TRUE],
     [data |-> ColKey(0, 0) :> <<Row(1, <<"n", "a1">>), Row(0, <<"a0">>)>> @@ ColKey(0, 1) :> <<Row(0, <<"n">>), Row(2, <<"n">>)>> @@ Empty,
      order |-> <<<<0, 0>>, <<1, 0>>>>, sel |-> At(0, 0, 1, 1), edit |-> TRUE, connected |-> TRUE],
     [data |-> ColKey(0, 0) :> <<Row(0, <<"n">>)>> @@ Empty,
      order |-> <<<<0, 0>>, <<0, 1>>>>, sel |-> At(1, 0, 0, 0), edit |-> TRUE, connected |-> FALSE]}

SymmetricKeys == Permutations(Keys)
=============================================================================
