---------------------------- MODULE MCWorkflows ----------------------------
(***************************************************************************)
(* Inputs for the two example programs: every batch of up to MaxLines of   *)
(* four lines (one malformed, one at the threshold), and three file        *)
(* systems: main's, one without the tests, one without a place to edit.    *)
(***************************************************************************)
EXTENDS Workflows

CONSTANT MaxLines

Line(w, t, v) == [well |-> w, text |-> t, value |-> v]
Lines == {Line(TRUE, {"fail", "ok"}, 7), Line(TRUE, {"slow"}, 5),
          Line(TRUE, {"success"}, 8), Line(FALSE, {"error"}, 9)}

MCBatches == UNION {[1 .. n -> Lines] : n \in 0 .. MaxLines}

Files == [p \in {"lib.rs", "user.rs", "user_test.rs"} |->
             IF p = "user.rs" THEN {"impl", "new"}
             ELSE IF p = "user_test.rs" THEN {"new"} ELSE {}]

MCFileSystems ==
    {Files, [p \in {"lib.rs", "user.rs"} |-> Files[p]],
     [Files EXCEPT !["user.rs"] = {"new"}]}

MCKeepCats == {"error", "warning"}
=============================================================================
