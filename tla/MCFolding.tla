----------------------------- MODULE MCFolding -----------------------------
(***************************************************************************)
(* A small instance of Folding: ints of four bits and a sign, a menu of    *)
(* statements, blocks of at most MaxStmts of them.                         *)
(***************************************************************************)
EXTENDS Folding

Stmt(k, v, e) == [k |-> k, v |-> v, e |-> e, m |-> "plain", n |-> 0, q |-> 1, guarded |-> FALSE]
Guarded(s) == [s EXCEPT !.guarded = TRUE]

None == [k |-> "none"]
Lit(n) == [k |-> "lit", n |-> n]
Var(x) == [k |-> "var", v |-> x]
Call(x) == [k |-> "call", v |-> x]
Bin(op, a, b) == [k |-> "bin", op |-> op, a |-> a, b |-> b]

Lets == {[Stmt("let", x, e) EXCEPT !.m = m] :
           <<x, e, m>> \in {<<"x", Lit(0), "plain">>, <<"x", Lit(MaxInt), "plain">>,
                            <<"x", None, "plain">>, <<"k", Lit(2), "const">>,
                            <<"k", Bin("add", Var("g"), Call("f")), "const">>,
                            <<"y", Bin("add", Var("x"), Var("g")), "plain">>,
                            <<"y", Lit(3), "lock">>, <<"z", Lit(MaxInt + 1), "lock">>,
                            <<"g", Lit(5), "plain">>}}
Sets == {Stmt("set", "x", Bin("add", Var("x"), Var("g"))),
         Stmt("set", "x", Bin("div", Var("x"), Lit(2))),
         Stmt("set", "k", Call("f")), Stmt("set", "h", Bin("add", Var("k"), Lit(1))),
         Stmt("set", "f", Lit(1)),
         Guarded(Stmt("set", "x", Lit(3)))}
Incs == {Stmt("inc", v, None) : v \in {"x", "y", "k", "h"}}
Fors == {[Stmt("for", "x", e) EXCEPT !.n = n] :
           <<e, n>> \in {<<Bin("add", Var("g"), Lit(4)), 2>>, <<Bin("add", Var("x"), Lit(1)), 2>>}}
Whiles == {[Stmt("while", "x", None) EXCEPT !.n = 3],
           [Stmt("while", "h", None) EXCEPT !.n = 2],
           [Stmt("while", "x", None) EXCEPT !.n = 5, !.q = 2]}
Funs == {[Stmt("fun", "f", None) EXCEPT !.n = 4]}
Outs == {Stmt("out", "", Bin("add", Var("x"), Var("g"))),
         Stmt("out", "", Bin("div", Var("y"), Lit(2))),
         Stmt("out", "", Call("f"))}
Idles == {[Stmt("idle", "", Bin("add", Var(x), e)) EXCEPT !.n = 2] :
            <<x, e>> \in {<<"g", Lit(4)>>, <<"h", Call("f")>>}}
Loops == Fors \cup Whiles \cup Idles

MCStatements ==
  Lets \cup Sets \cup Incs \cup Loops \cup Funs \cup Outs
    \cup {Guarded(s) : s \in Fors \cup Funs}

MCConsts == {"g"}
MCPreamble == [x \in {"f", "g", "h"} |-> IF x = "f" THEN FunV(1) ELSE IntV(1)]
=============================================================================
