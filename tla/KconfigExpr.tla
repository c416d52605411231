----------------------------- MODULE KconfigExpr -----------------------------
(***************************************************************************)
(* The dependency expressions of the configuration tool and the rewriting  *)
(* that menu_finalize applies to them (tools/kconfig/expr.c).  An          *)
(* expression is a tuple: its operator, then its operands.  The C code     *)
(* rewrites trees in place, through pointers that may be equal; where that *)
(* matters an operand is named by its path from the root of the tree.      *)
(***************************************************************************)
EXTENDS Integers, Sequences, SequencesExt, TLC

CONSTANT SymType          \* the type of every symbol the menu files define

no == 0
mod == 1
yes == 2

symbol_no == "n"
symbol_mod == "m"
symbol_yes == "y"
ConstSyms == {symbol_no, symbol_mod, symbol_yes}

Stype(s) == IF s \in DOMAIN SymType THEN SymType[s] ELSE "UNKNOWN"

NULL == <<"NULL">>
expr_alloc_symbol(s) == <<"SYMBOL", s>>
expr_alloc_one(type, e) == <<type, e>>
expr_alloc_two(type, l, r) == <<type, l, r>>
expr_alloc_comp(type, s1, s2) == <<type, s1, s2>>
expr_alloc_and(l, r) ==
    IF l = NULL THEN r ELSE IF r = NULL THEN l ELSE expr_alloc_two("AND", l, r)
expr_alloc_or(l, r) ==
    IF l = NULL THEN r ELSE IF r = NULL THEN l ELSE expr_alloc_two("OR", l, r)

Junction == {"AND", "OR"}
Compare == {"EQUAL", "UNEQUAL"}

Yes == expr_alloc_symbol(symbol_yes)
No == expr_alloc_symbol(symbol_no)
expr_is_yes(e) == e \in {NULL, Yes}
expr_is_no(e) == e = No

EXPR_AND(a, b) == IF a < b THEN a ELSE b
EXPR_OR(a, b) == IF a > b THEN a ELSE b
EXPR_NOT(a) == 2 - a

-----------------------------------------------------------------------------
(* What an expression means, given the tristate tri[s] and the text str[s]  *)
(* of every symbol.                                                         *)

TriOf(s, cur) == CASE s = symbol_yes -> yes
                   [] s = symbol_mod -> mod
                   [] s = symbol_no -> no
                   [] s \in DOMAIN cur -> cur[s].tri
                   [] OTHER -> no

sym_get_string_value(s, cur) ==
    CASE s \notin DOMAIN cur -> s
      [] Stype(s) \in {"BOOLEAN", "TRISTATE"} -> <<"n", "m", "y">>[cur[s].tri + 1]
      [] OTHER -> cur[s].val

\* The symbols of an expression, from left to right.
RECURSIVE SymsIn(_)
SymsIn(e) == CASE e[1] = "SYMBOL" -> <<e[2]>>
               [] e[1] \in Compare \cup {"RANGE"} -> <<e[2], e[3]>>
               [] e[1] = "NOT" -> SymsIn(e[2])
               [] e[1] \in Junction -> SymsIn(e[2]) \o SymsIn(e[3])
               [] OTHER -> <<>>

RECURSIVE expr_calc(_, _)
expr_calc(e, cur) ==
    CASE e[1] = "NULL" -> yes
      [] e[1] = "SYMBOL" -> TriOf(e[2], cur)
      [] e[1] = "AND" -> EXPR_AND(expr_calc(e[2], cur), expr_calc(e[3], cur))
      [] e[1] = "OR" -> EXPR_OR(expr_calc(e[2], cur), expr_calc(e[3], cur))
      [] e[1] = "NOT" -> EXPR_NOT(expr_calc(e[2], cur))
      [] e[1] \in Compare ->
           IF (sym_get_string_value(e[2], cur) = sym_get_string_value(e[3], cur))
              <=> (e[1] = "EQUAL")
           THEN yes ELSE no

-----------------------------------------------------------------------------
(* Constants: y && e, n || e and the like.                                  *)

Neutral(type) == IF type = "AND" THEN Yes ELSE No
Absorbing(type) == IF type = "AND" THEN No ELSE Yes

Simplest(type, l, r) ==
    CASE l = Absorbing(type) -> l
      [] l = Neutral(type) -> r
      [] r = Absorbing(type) -> r
      [] r = Neutral(type) -> l
      [] OTHER -> expr_alloc_two(type, l, r)

RECURSIVE expr_eliminate_yn(_)
expr_eliminate_yn(e) ==
    IF e[1] \notin Junction THEN e
    ELSE Simplest(e[1], expr_eliminate_yn(e[2]), expr_eliminate_yn(e[3]))

-----------------------------------------------------------------------------
(* Paths into a tree: 2 is the left operand of a node and 3 the right one.  *)

RECURSIVE At(_, _)
At(t, p) == IF p = <<>> THEN t ELSE At(t[Head(p)], Tail(p))

RECURSIVE Put(_, _, _)
Put(t, p, e) == IF p = <<>> THEN e
                ELSE [t EXCEPT ![Head(p)] = Put(@, Tail(p), e)]

Put2(t, p1, e1, p2, e2) == Put(Put(t, p1, e1), p2, e2)
L(p) == Append(p, 2)
R(p) == Append(p, 3)

-----------------------------------------------------------------------------
(* Equality: what both chains have in common is taken out of both.          *)

Both(e1, e2) == <<"BOTH", e1, e2>>

RECURSIVE expr_eq(_, _), eliminate_eq(_, _, _, _)
\* __expr_eliminate_eq, on the operands p1 and p2 of t.
eliminate_eq(type, t, p1, p2) ==
    LET e1 == At(t, p1)
        e2 == At(t, p2)
    IN CASE e1[1] = type -> eliminate_eq(type, eliminate_eq(type, t, L(p1), p2), R(p1), p2)
         [] e2[1] = type -> eliminate_eq(type, eliminate_eq(type, t, p1, L(p2)), p1, R(p2))
         [] e1 = e2 /\ e1 \in {Yes, No} -> t
         [] expr_eq(e1, e2) -> Put2(t, p1, Neutral(type), p2, Neutral(type))
         [] OTHER -> t

\* The operator of the right one is tried too if it is another.
ElimRight(b) == IF b[2][1] # b[3][1] /\ b[3][1] \in Junction
                THEN eliminate_eq(b[3][1], b, <<2>>, <<3>>) ELSE b
ElimBothYn(b) == Both(expr_eliminate_yn(b[2]), expr_eliminate_yn(b[3]))
expr_eliminate_eq(e1, e2) ==
    IF NULL \in {e1, e2} THEN Both(e1, e2)
    ELSE ElimBothYn(ElimRight(IF e1[1] \in Junction
                              THEN eliminate_eq(e1[1], Both(e1, e2), <<2>>, <<3>>)
                              ELSE Both(e1, e2)))

SameSymbol(b) == b[2][1] = "SYMBOL" /\ b[2] = b[3]
expr_eq(e1, e2) ==
    /\ e1[1] = e2[1]
    /\ \/ e1[1] \in Compare \cup {"SYMBOL"} /\ e1 = e2
       \/ e1[1] = "NOT" /\ expr_eq(e1[2], e2[2])
       \/ e1[1] \in Junction /\ SameSymbol(expr_eliminate_eq(e1, e2))

-----------------------------------------------------------------------------
(* Negations are pushed to the symbols; comparisons of booleans become the  *)
(* symbol or its negation.                                                  *)

\* A mutant: the operator is kept when a negation goes through it.
NegatedKept(type) == type
Negated(type) == IF type = "AND" THEN "OR" ELSE "AND"

TransformCompare(e) ==
    LET same == e[1] = "EQUAL"
        sym == expr_alloc_symbol(e[2])
    IN CASE Stype(e[2]) # "BOOLEAN" -> e
         [] e[3] = symbol_mod -> IF same THEN No ELSE Yes
         [] e[3] = (IF same THEN symbol_no ELSE symbol_yes) -> expr_alloc_one("NOT", sym)
         [] e[3] = (IF same THEN symbol_yes ELSE symbol_no) -> sym
         [] OTHER -> e

RECURSIVE expr_transform(_)
TransformNot(f) ==
    CASE f[1] = "NOT" -> expr_transform(f[2])
      [] f[1] = "EQUAL" -> expr_alloc_comp("UNEQUAL", f[2], f[3])
      [] f[1] = "UNEQUAL" -> expr_alloc_comp("EQUAL", f[2], f[3])
      [] f[1] \in Junction ->
           expr_transform(expr_alloc_two(Negated(f[1]), expr_alloc_one("NOT", f[2]),
                                                        expr_alloc_one("NOT", f[3])))
      [] f = Yes -> No
      [] f = No -> Yes
      [] f = expr_alloc_symbol(symbol_mod) -> f
      [] OTHER -> expr_alloc_one("NOT", f)

expr_transform(e) ==
    CASE e[1] \in Compare -> TransformCompare(e)
      [] e[1] \in Junction -> expr_alloc_two(e[1], expr_transform(e[2]), expr_transform(e[3]))
      [] e[1] = "NOT" -> TransformNot(expr_transform(e[2]))
      [] OTHER -> e

\* FOO != n becomes FOO, for a tristate FOO (the comment of the code says bool).
RECURSIVE expr_trans_bool(_)
expr_trans_bool(e) ==
    CASE e[1] \in Junction -> expr_alloc_two(e[1], expr_trans_bool(e[2]), expr_trans_bool(e[3]))
      [] e[1] = "NOT" -> expr_alloc_one("NOT", expr_trans_bool(e[2]))
      [] e[1] = "UNEQUAL" /\ Stype(e[2]) = "TRISTATE" /\ e[3] = symbol_no ->
           expr_alloc_symbol(e[2])
      [] OTHER -> e

-----------------------------------------------------------------------------
(* Two operands that one expression can stand for.                          *)

SimpleExpr == Compare \cup {"SYMBOL", "NOT"}

\* The symbol both sides speak of, or none.
JoinSym(e1, e2) ==
    LET s1 == IF e1[1] # "NOT" THEN e1[2]
              ELSE IF e1[2][1] \in Compare \cup {"SYMBOL"} THEN e1[2][2] ELSE "-"
        s2 == IF e2[1] # "NOT" THEN e2[2]
              ELSE IF e2[2][1] = "SYMBOL" THEN e2[2][2] ELSE "+"
    IN IF /\ e1[1] \in SimpleExpr /\ e2[1] \in SimpleExpr
          /\ s1 = s2 /\ Stype(s1) \in {"BOOLEAN", "TRISTATE"}
       THEN s1 ELSE "-"

Third(a, b) == CHOOSE c \in ConstSyms : c \notin {a, b}

expr_join_or(e1, e2) ==
    LET s == JoinSym(e1, e2)
    IN CASE expr_eq(e1, e2) -> e1
         [] s = "-" -> NULL
         [] /\ Stype(s) = "TRISTATE" /\ e1[1] = "EQUAL" /\ e2[1] = "EQUAL"
            /\ {e1[3], e2[3]} \subseteq ConstSyms /\ e1[3] # e2[3] ->
              expr_alloc_comp("UNEQUAL", s, Third(e1[3], e2[3]))
         [] /\ Stype(s) = "BOOLEAN"
            /\ \/ e1 = expr_alloc_one("NOT", e2) /\ e2[1] = "SYMBOL"
               \/ e2 = expr_alloc_one("NOT", e1) /\ e1[1] = "SYMBOL" -> Yes
         [] OTHER -> NULL

expr_join_and(e1, e2) ==
    LET s == JoinSym(e1, e2)
        Sides(type, c) == \/ e1[1] = "SYMBOL" /\ e2[1] = type /\ e2[3] = c
                          \/ e2[1] = "SYMBOL" /\ e1[1] = type /\ e1[3] = c
        Opposed == e1[1] \in Compare /\ e2[1] \in Compare /\ e1[1] # e2[1]
        eqSide == IF e1[1] = "EQUAL" THEN e1 ELSE e2
        neSide == IF e1[1] = "EQUAL" THEN e2 ELSE e1
    IN CASE expr_eq(e1, e2) -> e1
         [] s = "-" -> NULL
         [] Sides("EQUAL", symbol_yes) -> expr_alloc_comp("EQUAL", s, symbol_yes)
         [] Sides("UNEQUAL", symbol_no) -> expr_alloc_symbol(s)
         [] Sides("UNEQUAL", symbol_mod) -> expr_alloc_comp("EQUAL", s, symbol_yes)
         [] Stype(s) = "TRISTATE" /\ Opposed /\ {e1[3], e2[3]} \subseteq ConstSyms ->
              IF eqSide[3] # neSide[3] THEN eqSide ELSE No
         [] /\ Stype(s) = "TRISTATE" /\ e1[1] = "UNEQUAL" /\ e2[1] = "UNEQUAL"
            /\ {e1[3], e2[3]} \subseteq ConstSyms /\ e1[3] # e2[3] ->
              expr_alloc_comp("EQUAL", s, Third(e1[3], e2[3]))
         [] OTHER -> NULL

Join(type, e1, e2) == IF type = "OR" THEN expr_join_or(e1, e2) ELSE expr_join_and(e1, e2)

\* The passes below work on w.t, and w.count is the trans_count of the code.
Work(t) == [t |-> t, count |-> 0]
Changed(w, t) == [t |-> t, count |-> w.count + 1]

RECURSIVE expr_extract_eq(_, _, _, _)
expr_extract_eq(type, w, p1, p2) ==
    CASE At(w.t, p1)[1] = type ->
           expr_extract_eq(type, expr_extract_eq(type, w, L(p1), p2), R(p1), p2)
      [] At(w.t, p2)[1] = type ->
           expr_extract_eq(type, expr_extract_eq(type, w, p1, L(p2)), p1, R(p2))
      [] expr_eq(At(w.t, p1), At(w.t, p2)) ->
           Changed(w, Put2(w.t, p1, Neutral(type), p2, Neutral(type)))
      [] OTHER -> w

\* expr_extract_eq_and and expr_extract_eq_or: what is left of e1 without the
\* part it has in common with e2.
LeftOver(w, e1) == IF w.count = 0 THEN e1 ELSE expr_eliminate_yn(w.t[2])
Extracted(type, e1, e2) ==
    LeftOver(expr_extract_eq(type, Work(Both(e1, e2)), <<2>>, <<3>>), e1)

RECURSIVE expr_eliminate_dups1(_, _, _, _)
PutJoin(type, w, p1, p2, tmp) ==
    IF tmp = NULL THEN w ELSE Changed(w, Put2(w.t, p1, Neutral(type), p2, tmp))
JoinAt(type, w, p1, p2) == PutJoin(type, w, p1, p2, Join(type, At(w.t, p1), At(w.t, p2)))
expr_eliminate_dups1(type, w, p1, p2) ==
    CASE At(w.t, p1)[1] = type ->
           expr_eliminate_dups1(type, expr_eliminate_dups1(type, w, L(p1), p2), R(p1), p2)
      [] At(w.t, p2)[1] = type ->
           expr_eliminate_dups1(type, expr_eliminate_dups1(type, w, p1, L(p2)), p1, R(p2))
      [] p1 = p2 -> w
      [] OTHER -> JoinAt(type, IF At(w.t, p1)[1] \in Junction
                               THEN expr_eliminate_dups1(At(w.t, p1)[1], w, p1, p1) ELSE w,
                         p1, p2)

RECURSIVE expr_eliminate_dups2(_, _, _, _)
\* (FOO || BAR) && (!FOO && !BAR) is n, and the same with the operators swapped.
PutContradiction(w, p1, p2, outer) ==
    IF Extracted(outer, expr_transform(expr_alloc_one("NOT", At(w.t, p1))), At(w.t, p2)) = Neutral(outer)
    THEN Changed(w, Put(w.t, p1, Absorbing(outer))) ELSE w
Contradicts(w, p1, p2) ==
    IF p1 = p2 \/ At(w.t, p1)[1] \notin Junction THEN w
    ELSE PutContradiction(expr_eliminate_dups2(At(w.t, p1)[1], w, p1, p1), p1, p2,
                          Negated(At(w.t, p1)[1]))

expr_eliminate_dups2(type, w, p1, p2) ==
    IF At(w.t, p1)[1] = type
    THEN expr_eliminate_dups2(type, expr_eliminate_dups2(type, w, L(p1), p2), R(p1), p2)
    ELSE Contradicts(IF At(w.t, p2)[1] = type
                     THEN expr_eliminate_dups2(type,
                              expr_eliminate_dups2(type, w, p1, L(p2)), p1, R(p2))
                     ELSE w, p1, p2)

\* Both passes, until neither finds anything.
RECURSIVE expr_eliminate_dups(_)
MoreDups(w) == IF w.count = 0 THEN w.t ELSE expr_eliminate_dups(expr_eliminate_yn(w.t))
expr_eliminate_dups(e) ==
    IF e[1] \notin Junction THEN e
    ELSE MoreDups(expr_eliminate_dups2(e[1],
             expr_eliminate_dups1(e[1], Work(e), <<>>, <<>>), <<>>, <<>>))

-----------------------------------------------------------------------------
(* What menu_finalize asks of a dependency.                                 *)

RECURSIVE expr_contains_symbol(_, _)
expr_contains_symbol(e, s) ==
    CASE e[1] = "SYMBOL" -> e[2] = s
      [] e[1] \in Compare -> s \in {e[2], e[3]}
      [] e[1] = "NOT" -> expr_contains_symbol(e[2], s)
      [] e[1] \in Junction -> expr_contains_symbol(e[2], s) \/ expr_contains_symbol(e[3], s)
      [] OTHER -> FALSE

RECURSIVE expr_depends_symbol(_, _)
expr_depends_symbol(e, s) ==
    CASE e[1] = "SYMBOL" -> e[2] = s
      [] e[1] = "EQUAL" -> e[2] = s /\ e[3] \in {symbol_yes, symbol_mod}
      [] e[1] = "UNEQUAL" -> e[2] = s /\ e[3] = symbol_no
      [] e[1] = "AND" -> expr_depends_symbol(e[2], s) \/ expr_depends_symbol(e[3], s)
      [] OTHER -> FALSE

\* e = c or e # c, brought down to the symbols.
RECURSIVE expr_trans_compare(_, _, _)
expr_trans_compare(e, type, c) ==
    LET Signed(x) == IF type = "UNEQUAL" THEN expr_alloc_one("NOT", x) ELSE x
        Sub(i) == expr_trans_compare(e[i], "EQUAL", c)
        Flip == IF type = "EQUAL" THEN "UNEQUAL" ELSE "EQUAL"
    IN CASE e[1] = "NULL" -> Signed(expr_alloc_symbol(c))
         [] e[1] \in Junction ->
              Signed(CASE c = symbol_yes -> expr_alloc_two(e[1], Sub(2), Sub(3))
                       [] c = symbol_no -> expr_alloc_two(Negated(e[1]), Sub(2), Sub(3))
                       [] OTHER -> e)
         [] e[1] = "NOT" -> expr_trans_compare(e[2], Flip, c)
         [] e[1] \in Compare ->
              (CASE c = symbol_mod -> IF type = "EQUAL" THEN No ELSE Yes
                 [] (c = symbol_yes) <=> (type = "EQUAL") -> e
                 [] OTHER -> expr_alloc_one("NOT", e))
         [] e[1] = "SYMBOL" -> expr_alloc_comp(type, e[2], c)
=============================================================================
