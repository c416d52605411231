----------------------------- MODULE KconfigSym ------------------------------
(***************************************************************************)
(* The symbols of the configuration tool: how a value is computed, and     *)
(* cached, from the user's settings and the finished menu, and how it is   *)
(* set, read from a file and written to one (tools/kconfig/symbol.c and    *)
(* confdata.c).  Every function of the code becomes an operator on the     *)
(* state st of all symbols:                                                *)
(*   def, has   the user's value and SYMBOL_DEF_USER                       *)
(*   cur, vis, rev   curr, visible and rev_dep.tri                         *)
(*   valid, write    SYMBOL_VALID and SYMBOL_WRITE                         *)
(*   modules    modules_val        changed   sym_change_count # 0          *)
(* SYMBOL_CHANGED only tells a graphical front end what to redraw.         *)
(***************************************************************************)
EXTENDS KconfigMenu

CONSTANT SymSeq           \* the order of for_all_symbols

VARIABLE Z                \* the finished menu tree and its properties

NoVal == "none"

Nothing(s) == [tri |-> no, val |-> IF Stype(s) \in {"BOOLEAN", "TRISTATE"} THEN "n" ELSE ""]

Parsed == [def |-> [s \in Syms |-> [tri |-> no, val |-> NoVal]], has |-> {},
           cur |-> [s \in Syms |-> Nothing(s)], vis |-> [s \in Syms |-> no],
           rev |-> [s \in Syms |-> no], valid |-> {}, write |-> {},
           modules |-> no, changed |-> TRUE]

sym_is_choice(s) == s \in Z.choice
sym_is_choice_value(s) == Z.choiceOf[s] # NoSym
IsAuto(s) == sym_is_choice(s) \/ s = ModulesSym

sym_get_type(st, s) ==
    IF /\ Stype(s) = "TRISTATE"
       /\ (sym_is_choice_value(s) /\ st.vis[s] = yes) \/ st.modules = no
    THEN "BOOLEAN" ELSE Stype(s)

Digit == 0..9
Hex(n) == "0x" \o ToString(n)
\* strtol, on the numerals the instances use.
strtol(str, base) ==
    LET ns == {n \in Digit : str = ToString(n) \/ (base = 16 /\ str = Hex(n))}
    IN IF ns = {} THEN 0 ELSE CHOOSE n \in ns : TRUE
BaseOf(s, base) == CASE Stype(s) = "INT" -> 10 [] Stype(s) = "HEX" -> 16 [] OTHER -> base

sym_string_valid(s, str) ==
    CASE Stype(s) = "STRING" -> TRUE
      [] Stype(s) = "INT" -> str \in {ToString(n) : n \in Digit}
      [] Stype(s) = "HEX" -> str \in {ToString(n) : n \in Digit} \cup {Hex(n) : n \in Digit}
      [] OTHER -> str \in ConstSyms

\* The result of a test or of a setter: the state it leaves, and its answer.
Refused(st) == [st |-> st, ok |-> FALSE]
Accepted(st) == [st |-> st, ok |-> TRUE]

-----------------------------------------------------------------------------
(* Computing a value.                                                       *)

RECURSIVE sym_calc_value(_, _), sym_calc_all(_, _)
sym_calc_all(st, ss) ==
    IF ss = <<>> THEN st ELSE sym_calc_all(sym_calc_value(st, Head(ss)), Tail(ss))

\* expr_calc_value computes every symbol of the expression it evaluates.
Calc(w, e) == [st |-> w, tri |-> expr_calc(e, w.cur)]
expr_calc_value(st, e) == Calc(sym_calc_all(st, SymsIn(e)), e)

\* The first of the properties ps of a symbol that applies, or 0.
RECURSIVE FirstProp(_, _), FirstOf(_, _)
FirstOf(v, ps) ==
    IF v.tri # no THEN [st |-> v.st, p |-> Head(ps), tri |-> v.tri] ELSE FirstProp(v.st, Tail(ps))
FirstProp(st, ps) ==
    IF ps = <<>> THEN [st |-> st, p |-> 0, tri |-> no]
    ELSE FirstOf(expr_calc_value(st, Z.props[Head(ps)].vis), ps)

sym_get_default_prop(st, s) == FirstProp(st, Z.of[s].DEFAULT)
sym_get_range_prop(st, s) == FirstProp(st, Z.of[s].RANGE)

\* The greatest visibility of the properties ps.
RECURSIVE AllProps(_, _)
AllProps(v, ps) ==
    IF ps = <<>> THEN v
    ELSE AllProps([expr_calc_value(v.st, Z.props[Head(ps)].vis) EXCEPT !.tri = EXPR_OR(@, v.tri)],
                  Tail(ps))

SetVis(v, s) ==
    [v.st EXCEPT !.vis[s] = IF v.tri = mod /\ (Stype(s) # "TRISTATE" \/ v.st.modules = no)
                            THEN yes ELSE v.tri]
SetRev(r, s) ==
    [r.st EXCEPT !.rev[s] = IF r.tri = mod /\ sym_get_type(r.st, s) = "BOOLEAN" THEN yes ELSE r.tri]

CalcRev(w, s) ==
    IF sym_is_choice_value(s) THEN w
    ELSE SetRev(expr_calc_value(w, IF Z.rev[s] = NULL THEN No ELSE Z.rev[s]), s)

sym_calc_visibility(st, s) ==
    CalcRev(SetVis(AllProps([st |-> st, tri |-> no], Z.of[s].PROMPT), s), s)

\* The first of the candidates cs, each with the condition it stands under,
\* that is visible.
RECURSIVE FirstVisible(_, _, _), VisibleOf(_, _, _)
IsShown(w, m) == [st |-> w, ok |-> w.vis[m] # no]
CondThenVis(v, m) ==
    IF v.tri = no THEN Refused(v.st) ELSE IsShown(sym_calc_visibility(v.st, m), m)
VisibleOf(v, c, cs) ==
    IF v.ok THEN [v.st EXCEPT !.cur[c].val = Head(cs)[1]] ELSE FirstVisible(v.st, c, Tail(cs))
FirstVisible(st, c, cs) ==
    IF cs = <<>> THEN [st EXCEPT !.cur[c] = [tri |-> no, val |-> NoVal]]
    ELSE VisibleOf(CondThenVis(expr_calc_value(st, Head(cs)[2]), Head(cs)[1]), c, cs)

sym_calc_choice(st, c) ==
    LET user == IF st.def[c].val = NoVal THEN <<>> ELSE <<<<st.def[c].val, NULL>>>>
        ps == Z.of[c].DEFAULT
        defaults == [i \in DOMAIN ps |-> <<Z.props[ps[i]].expr[2], Z.props[ps[i]].vis>>]
        members == [i \in DOMAIN Z.members[c] |-> <<Z.members[c][i], NULL>>]
    IN FirstVisible(st, c, user \o defaults \o members)

Write(st, s, cond) == IF cond THEN [st EXCEPT !.write = @ \cup {s}] ELSE st

SetTri(w, s, tri) ==
    [w EXCEPT !.cur[s].tri = IF tri = mod /\ sym_get_type(w, s) = "BOOLEAN" THEN yes ELSE tri]

\* The value of a default, under the condition cond.
DefaultTri(v, s, cond) == SetTri(v.st, s, EXPR_OR(EXPR_AND(v.tri, cond), v.st.rev[s]))
CalcDefault(d, s) ==
    IF d.p = 0 THEN SetTri(d.st, s, d.st.rev[s])
    ELSE DefaultTri(expr_calc_value(Write(d.st, s, TRUE), Z.props[d.p].expr), s, d.tri)

CalcTri(st, s) ==
    LET user == st.vis[s] # no /\ s \in st.has
        w == Write(st, s, st.vis[s] # no \/ st.rev[s] # no)
    IN CASE sym_is_choice_value(s) /\ st.vis[s] = yes ->
              SetTri(st, s, IF st.cur[Z.choiceOf[s]].val = s THEN yes ELSE no)
         [] user -> SetTri(w, s, EXPR_OR(EXPR_AND(st.def[s].tri, st.vis[s]), st.rev[s]))
         [] ~user /\ sym_is_choice(s) -> SetTri(w, s, st.rev[s])
         [] ~user /\ ~sym_is_choice(s) -> CalcDefault(sym_get_default_prop(w, s), s)

CopyVal(w, s, ds) == [w EXCEPT !.cur[s].val = sym_get_string_value(ds, w.cur)]
CalcDefaultVal(d, s) ==
    IF d.p = 0 THEN d.st
    ELSE CopyVal(sym_calc_value(Write(d.st, s, TRUE), Z.props[d.p].expr[2]), s, Z.props[d.p].expr[2])

CalcVal(st, s) ==
    LET w == Write(st, s, st.vis[s] # no)
    IN IF st.vis[s] # no /\ s \in st.has THEN [w EXCEPT !.cur[s].val = st.def[s].val]
       ELSE CalcDefaultVal(sym_get_default_prop(w, s), s)

\* The range property that applies, with its two bounds computed.
WithBounds(r, base) ==
    LET Bound(s) == strtol(sym_get_string_value(s, r.st.cur), BaseOf(s, base))
    IN IF r.p = 0 THEN [st |-> r.st, none |-> TRUE]
       ELSE [st |-> r.st, none |-> FALSE,
             lo |-> Bound(Z.props[r.p].expr[2]), hi |-> Bound(Z.props[r.p].expr[3])]
CalcBounds(r) == IF r.p = 0 THEN r ELSE [r EXCEPT !.st = sym_calc_all(@, SymsIn(Z.props[r.p].expr))]
RangeOf(st, s) == WithBounds(CalcBounds(sym_get_range_prop(st, s)), BaseOf(s, 10))

Fit(b, s) ==
    LET val == strtol(b.st.cur[s].val, BaseOf(s, 10))
        n == IF val < b.lo THEN b.lo ELSE b.hi
    IN IF b.none \/ (val >= b.lo /\ val <= b.hi) THEN b.st
       ELSE [b.st EXCEPT !.cur[s].val = IF Stype(s) = "INT" THEN ToString(n) ELSE Hex(n)]

sym_validate_range(st, s) == IF Stype(s) \in {"INT", "HEX"} THEN Fit(RangeOf(st, s), s) ELSE st

\* The parts of sym_calc_value, in their order.
CalcCur(w, s) == IF Stype(s) \in {"BOOLEAN", "TRISTATE"} THEN CalcTri(w, s) ELSE CalcVal(w, s)
CalcMember(w, s) == IF sym_is_choice(s) /\ w.cur[s].tri = yes THEN sym_calc_choice(w, s) ELSE w
CalcModules(w, s, old) ==
    IF s = ModulesSym /\ w.cur[s] # old THEN [w EXCEPT !.modules = w.cur[s].tri] ELSE w
SpreadWrite(w, s) ==
    IF sym_is_choice(s) /\ s \in w.write THEN [w EXCEPT !.write = @ \cup Range(Z.members[s])] ELSE w
HideAuto(w, s) == IF IsAuto(s) THEN [w EXCEPT !.write = @ \ {s}] ELSE w

sym_calc_value(st, s) ==
    IF s \notin Syms \/ s \in st.valid THEN st
    ELSE HideAuto(SpreadWrite(CalcModules(sym_validate_range(CalcMember(CalcCur(
           [sym_calc_visibility([st EXCEPT !.valid = @ \cup {s},
                                           !.write = IF sym_is_choice_value(s) THEN @ ELSE @ \ {s}], s)
              EXCEPT !.cur[s] = Nothing(s)], s), s), s), s, st.cur[s]), s), s)

\* A mutant: the values computed before stay valid.
sym_clear_no_valid(st) == sym_calc_value([st EXCEPT !.changed = TRUE], ModulesSym)
sym_clear_all_valid(st) ==
    sym_calc_value([st EXCEPT !.valid = {}, !.changed = TRUE], ModulesSym)

-----------------------------------------------------------------------------
(* Setting a value.                                                         *)

sym_is_changable(st, s) == st.vis[s] > st.rev[s]

sym_tristate_within_range(st, s, val) ==
    LET type == sym_get_type(st, s)
    IN /\ st.vis[s] # no
       /\ type \in {"BOOLEAN", "TRISTATE"}
       /\ ~(type = "BOOLEAN" /\ val = mod)
       /\ st.vis[s] > st.rev[s]
       /\ IF sym_is_choice_value(s) /\ st.vis[s] = yes THEN val = yes
          ELSE val >= st.rev[s] /\ val <= st.vis[s]


sym_set_tristate_value(st, s, val) ==
    LET oldval == st.cur[s].tri
        c == Z.choiceOf[s]
        w == [st EXCEPT !.has = @ \cup {s}, !.def[s].tri = val]
        u == IF sym_is_choice_value(s) /\ val = yes
             THEN [w EXCEPT !.def[c].val = s,
                            !.has = @ \cup {c} \cup {m \in Range(Z.members[c]) : w.vis[m] # no}]
             ELSE w
    IN CASE oldval # val /\ ~sym_tristate_within_range(st, s, val) -> Refused(st)
         [] oldval # val /\ sym_tristate_within_range(st, s, val) ->
              Accepted(sym_clear_all_valid(u))
         [] OTHER -> Accepted(u)

Cycle(v) == (v + 1) % 3

OrElse(r, s, val) == IF r.ok THEN r ELSE sym_set_tristate_value(r.st, s, val)
sym_toggle_tristate_value(st, s) ==
    LET v == st.cur[s].tri
    IN OrElse(OrElse(sym_set_tristate_value(st, s, Cycle(v)), s, Cycle(Cycle(v))), s, v)

\* The range is that of the first range property that applies.
Inside(b, s, str) ==
    [st |-> b.st, ok |-> b.none \/ (/\ strtol(str, BaseOf(s, 10)) >= b.lo
                                    /\ strtol(str, BaseOf(s, 10)) <= b.hi)]
sym_string_within_range(st, s, str) ==
    CASE ~sym_string_valid(s, str) -> Refused(st)
      [] sym_string_valid(s, str) /\ Stype(s) = "STRING" -> Accepted(st)
      [] OTHER -> Inside(RangeOf(st, s), s, str)

SetString(t, s, newval) ==
    LET w == [t.st EXCEPT !.has = @ \cup {s}]
        bare == Stype(s) = "HEX" /\ newval \in {ToString(n) : n \in Digit}
        val == IF bare THEN "0x" \o newval ELSE newval
    IN CASE ~t.ok -> Refused(t.st)
         [] t.ok /\ ~bare /\ t.st.def[s].val = newval -> Accepted(w)
         [] OTHER -> Accepted(sym_clear_all_valid([w EXCEPT !.def[s].val = val]))
sym_set_string_value(st, s, newval) ==
    SetString(sym_string_within_range(st, s, newval), s, newval)

-----------------------------------------------------------------------------
(* Files: a sequence of lines <<symbol, text>>, the text "unset" for        *)
(* "# symbol is not set".                                                   *)

Takes(s, text) ==
    CASE Stype(s) = "TRISTATE" -> text \in {"n", "m", "y", "unset"}
      [] Stype(s) = "BOOLEAN" -> text \in {"n", "y", "unset"}
      [] OTHER -> text = "unset" \/ sym_string_valid(s, text)

conf_set_sym_val(r, s, text) ==
    LET Take(tri, val) == [r EXCEPT !.st.def[s] = [tri |-> tri, val |-> val],
                                    !.st.has = @ \cup {s}]
        old == r.st.def[s]
    IN CASE ~Takes(s, text) -> [r EXCEPT !.warned = TRUE]
         [] Takes(s, text) /\ Stype(s) \in {"BOOLEAN", "TRISTATE"} ->
              Take(CASE text = "y" -> yes [] text = "m" -> mod [] OTHER -> no, old.val)
         [] OTHER -> IF text = "unset" THEN r ELSE Take(old.tri, text)

\* A mutant: the choice does not learn which of its members is set.
MemberLineSilent(r, s) == [r EXCEPT !.st.def[Z.choiceOf[s]].tri = EXPR_OR(@, r.st.def[s].tri)]
\* A member of a choice also speaks for the choice.
MemberLine(r, s) ==
    LET c == Z.choiceOf[s]
        tri == r.st.def[s].tri
        w == CASE tri = mod /\ r.st.def[c].tri = yes ->
                    [r EXCEPT !.warned = TRUE, !.st.has = @ \ {c}]
               [] tri = yes -> [r EXCEPT !.warned = @ \/ r.st.def[c].tri # no,
                                         !.st.def[c].val = s]
               [] OTHER -> r
    IN [w EXCEPT !.st.def[c].tri = EXPR_OR(@, tri)]

ReadLine(r, s, text) ==
    LET w == conf_set_sym_val([r EXCEPT !.warned = @ \/ s \in r.st.has], s, text)
    IN CASE s \notin Syms -> [r EXCEPT !.st.changed = TRUE]
         [] s \in Syms /\ sym_is_choice_value(s) /\ Takes(s, text) -> MemberLine(w, s)
         [] OTHER -> w

RECURSIVE ReadLines(_, _)
ReadLines(r, file) ==
    IF file = <<>> THEN r ELSE ReadLines(ReadLine(r, file[1][1], file[1][2]), Tail(file))

conf_read_simple(st, file) ==
    LET start == [st EXCEPT !.has = Z.choice, !.valid = {},
                            !.def = [s \in Syms |-> [tri |-> no, val |-> NoVal]]]
    IN [ReadLines([st |-> start, warned |-> FALSE], file) EXCEPT !.st = sym_calc_value(@, ModulesSym)]

Visible(st, c) == {m \in Range(Z.members[c]) : st.vis[m] # no}

\* Does the computed value of s disagree with what the file said?
Unsaved(st, s) ==
    /\ ~IsAuto(s)
    /\ CASE s \in st.has /\ s \in st.write ->
              IF Stype(s) \in {"BOOLEAN", "TRISTATE"} THEN st.def[s].tri # st.cur[s].tri
              ELSE st.def[s].val # st.cur[s].val
         [] s \notin st.has /\ s \notin st.write -> FALSE
         [] OTHER -> TRUE

\* The first loop of conf_read: a choice is new unless all its members are set.
Checked(w, r, s) ==
    [unsaved |-> r.unsaved \/ Unsaved(w, s), warned |-> r.warned,
     st |-> IF sym_is_choice(s) /\ ~(Visible(w, s) \subseteq w.has)
            THEN [w EXCEPT !.has = @ \ {s}] ELSE w]
RECURSIVE CheckSaved(_, _)
CheckSaved(r, ss) == IF ss = <<>> THEN r
                     ELSE CheckSaved(Checked(sym_calc_value(r.st, Head(ss)), r, Head(ss)), Tail(ss))

\* The second one: values of hidden symbols are forgotten, as are texts out
\* of range.
ForgetText(t, r, s) ==
    IF t.ok THEN [r EXCEPT !.st = t.st]
    ELSE [r EXCEPT !.st = [t.st EXCEPT !.valid = @ \ {s}, !.has = @ \ {s}], !.unsaved = TRUE]
ForgetOne(r, s) ==
    LET w == IF r.st.vis[s] = no /\ ~r.unsaved THEN [r.st EXCEPT !.has = @ \ {s}] ELSE r.st
    IN CASE s \notin r.st.has \/ sym_is_choice_value(s) -> r
         [] s \in r.st.has /\ Stype(s) \in {"BOOLEAN", "TRISTATE"} -> [r EXCEPT !.st = w]
         [] OTHER -> ForgetText(sym_string_within_range(w, s, w.def[s].val), r, s)
RECURSIVE Forget(_, _)
Forget(r, ss) == IF ss = <<>> THEN r ELSE Forget(ForgetOne(r, Head(ss)), Tail(ss))

CountChanges(r) == [r.st EXCEPT !.changed = @ \/ r.unsaved \/ r.warned]
WithUnsaved(r) == [st |-> r.st, warned |-> r.warned, unsaved |-> FALSE]

conf_read(st, file) ==
    CountChanges(Forget(CheckSaved(WithUnsaved(
        conf_read_simple([st EXCEPT !.changed = FALSE], file)), SymSeq), SymSeq))

RECURSIVE menu_is_visible(_, _), AnyVisible(_, _)
OrNext(v, ms) == IF v.ok THEN v ELSE AnyVisible(v.st, Tail(ms))
AnyVisible(st, ms) ==
    IF ms = <<>> THEN Refused(st) ELSE OrNext(menu_is_visible(st, Head(ms)), ms)
OrKids(v, m) ==
    CASE v.tri # no -> Accepted(v.st)
      [] v.tri = no /\ Z.menus[m].sym \in Syms ->
           IF v.st.cur[Z.menus[m].sym].tri = no THEN Refused(v.st)
           ELSE AnyVisible(v.st, Z.menus[m].kids)
      [] OTHER -> Refused(v.st)
menu_is_visible(st, m) ==
    IF Z.menus[m].prompt = 0 THEN Refused(st)
    ELSE OrKids(expr_calc_value(sym_calc_value(st, Z.menus[m].sym),
                                Z.props[Z.menus[m].prompt].vis), m)

Text(st, s) == LET v == sym_get_string_value(s, st.cur)
               IN IF Stype(s) \in {"BOOLEAN", "TRISTATE"} /\ v = "n" THEN "unset" ELSE v

WriteSym(w, s, file) ==
    IF s \notin w.write THEN [st |-> w, file |-> file]
    ELSE [st |-> [w EXCEPT !.write = @ \ {s}], file |-> Append(file, <<s, Text(w, s)>>)]

\* The entries of the menu tree, depth first; ms are those still to come.
RECURSIVE WriteEntries(_, _)
WriteEntries(r, ms) ==
    IF ms = <<>> THEN r
    ELSE LET s == Z.menus[Head(ms)].sym
         IN WriteEntries(CASE s = NoSym -> [r EXCEPT !.st = menu_is_visible(@, Head(ms)).st]
                           [] s \in Z.choice -> r
                           [] OTHER -> WriteSym(sym_calc_value(r.st, s), s, r.file),
                         Z.menus[Head(ms)].kids \o Tail(ms))

\* The text of the file, and the state when it has been written to the
\* temporary file but not yet renamed.
conf_write(st) ==
    WriteEntries([st |-> IF st.changed THEN st ELSE sym_clear_all_valid(st), file |-> <<>>],
                 Z.menus[rootmenu].kids)
=============================================================================
