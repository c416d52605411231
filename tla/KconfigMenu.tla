----------------------------- MODULE KconfigMenu -----------------------------
(***************************************************************************)
(* From the statements of the menu files to the finished menu tree:        *)
(* conf_parse and menu_finalize (tools/kconfig/zconf.y and menu.c).  A     *)
(* statement is a tuple: its keyword, then its arguments.  "block" is the  *)
(* point where the options of a choice or a menu end and its entries       *)
(* begin.                                                                  *)
(***************************************************************************)
EXTENDS KconfigExpr, FiniteSets

CONSTANTS Statements,     \* the menu files, in order
          ModulesSym      \* the unnamed symbol modules_sym

Syms == DOMAIN SymType
NoSym == "-"
rootmenu == 1

HasText(p) == p.type \in {"PROMPT", "MENU", "COMMENT"}

\* menus: the struct menu of every entry, with its children in kids;
\* props: every struct property, in the order it was allocated;
\* of: those of a symbol, by their type, once all are known.
Empty == [menus |-> <<[sym |-> NoSym, dep |-> NULL, prompt |-> 1, kids |-> <<>>, parent |-> 0]>>,
          props |-> <<[type |-> "MENU", sym |-> NoSym, menu |-> rootmenu,
                       vis |-> NULL, expr |-> NULL]>>,
          rev |-> [s \in Syms |-> NULL],
          optional |-> {}, choice |-> {},
          choiceOf |-> [s \in Syms |-> NoSym], members |-> [s \in Syms |-> <<>>],
          entry |-> rootmenu, cur |-> rootmenu, of |-> <<>>]

PropsOf(z, s, type) ==
    SelectSeq([i \in 1..Len(z.props) |-> i],
              LAMBDA i : z.props[i].sym = s /\ z.props[i].type = type)

-----------------------------------------------------------------------------
(* The actions of the grammar.                                              *)

\* m is m && MODULES.
RECURSIVE menu_check_dep(_)
menu_check_dep(e) ==
    CASE e[1] = "NOT" -> expr_alloc_one("NOT", menu_check_dep(e[2]))
      [] e[1] \in Junction -> expr_alloc_two(e[1], menu_check_dep(e[2]), menu_check_dep(e[3]))
      [] e = expr_alloc_symbol(symbol_mod) ->
           expr_alloc_and(e, expr_alloc_symbol(ModulesSym))
      [] OTHER -> e

menu_add_entry(z, s) ==
    [z EXCEPT !.menus = Append([@ EXCEPT ![z.cur].kids = Append(@, Len(z.menus) + 1)],
                               [sym |-> s, dep |-> NULL, prompt |-> 0,
                                kids |-> <<>>, parent |-> z.cur]),
              !.entry = Len(z.menus) + 1]
menu_add_menu(z) == [z EXCEPT !.cur = z.entry]
menu_end_menu(z) == [z EXCEPT !.cur = z.menus[z.cur].parent]

menu_add_dep(z, dep) ==
    [z EXCEPT !.menus[z.entry].dep = expr_alloc_and(@, menu_check_dep(dep))]

menu_add_prop(z, type, expr, dep) ==
    LET p == [type |-> type, sym |-> z.menus[z.entry].sym, menu |-> z.entry,
              vis |-> menu_check_dep(dep), expr |-> expr]
    IN [z EXCEPT !.props = Append(@, p),
                 !.menus[z.entry].prompt = IF HasText(p) THEN Len(z.props) + 1 ELSE @]

\* The rules for config, for choice, and for the blocks around them.
config_stmt(z, s) ==
    CASE s[1] = "config" -> menu_add_entry([z EXCEPT !.optional = @ \cup {s[2]}], s[2])
      [] s[1] = "prompt" -> menu_add_prop(z, "PROMPT", NULL, s[2])
      [] s[1] = "default" -> menu_add_prop(z, "DEFAULT", s[2], s[3])
      [] s[1] = "select" -> menu_add_prop(z, "SELECT", expr_alloc_symbol(s[2]), s[3])
      [] s[1] = "range" -> menu_add_prop(z, "RANGE", expr_alloc_comp("RANGE", s[2], s[3]), s[4])
choice_stmt(z, s) ==
    CASE s[1] = "choice" -> menu_add_entry([z EXCEPT !.choice = @ \cup {s[2]}], s[2])
      [] s[1] = "optional" -> [z EXCEPT !.optional = @ \cup {z.menus[z.entry].sym}]
menu_stmt(z, s) ==
    CASE s[1] = "if" -> menu_add_menu(menu_add_dep(menu_add_entry(z, NoSym), s[2]))
      [] s[1] = "menu" -> menu_add_prop(menu_add_entry(z, NoSym), "MENU", NULL, NULL)
      [] s[1] = "comment" -> menu_add_prop(menu_add_entry(z, NoSym), "COMMENT", NULL, NULL)
      [] s[1] = "depends" -> menu_add_dep(z, s[2])
      [] s[1] = "block" -> menu_add_menu(z)
      [] s[1] = "end" -> menu_end_menu(z)
zconfparse(z, s) ==
    CASE s[1] \in {"config", "prompt", "default", "select", "range"} -> config_stmt(z, s)
      [] s[1] \in {"choice", "optional"} -> choice_stmt(z, s)
      [] OTHER -> menu_stmt(z, s)

-----------------------------------------------------------------------------
(* menu_finalize, in its order: the dependencies of the enclosing entry go  *)
(* down to the properties of each entry, entries that depend on the symbol  *)
(* before them become its children, and the members of choices are tied up. *)

PromptVis(z, m) == z.props[z.menus[m].prompt].vis

\* A select adds to the reverse dependency of the symbol it names.
RECURSIVE SelectVis(_, _, _)
SelectVis(z, m, i) ==
    LET p == z.props[i]
        y == IF p.menu # m \/ p.type # "SELECT" THEN z
             ELSE [z EXCEPT !.rev[p.expr[2]] = expr_alloc_or(@,
                      expr_alloc_and(expr_alloc_symbol(z.menus[m].sym), p.vis))]
    IN IF i > Len(z.props) THEN z ELSE SelectVis(y, m, i + 1)

BoolVis(z, m, p) ==
    IF z.menus[m].sym # NoSym /\ Stype(z.menus[m].sym) # "TRISTATE" THEN expr_trans_bool(p)
    ELSE p
SetDep(z, m, basedep) ==
    [z EXCEPT !.menus[m].dep = basedep,
              !.props = [i \in DOMAIN @ |->
                 IF @[i].menu # m THEN @[i]
                 ELSE [@[i] EXCEPT !.vis = BoolVis(z, m,
                          expr_eliminate_dups(expr_alloc_and(basedep, expr_transform(@))))]]]
Propagate(z, parentdep, m) ==
    SelectVis(SetDep(z, m, expr_eliminate_dups(expr_alloc_and(parentdep,
                              expr_transform(z.menus[m].dep)))), m, 1)

RECURSIVE PropagateAll(_, _, _)
PropagateAll(z, parentdep, ms) ==
    IF ms = <<>> THEN z ELSE PropagateAll(Propagate(z, parentdep, Head(ms)), parentdep, Tail(ms))

Normal(e) == expr_eliminate_dups(expr_transform(expr_trans_compare(e, "UNEQUAL", symbol_no)))

\* Does an entry with dependency dep belong under the symbol s?
Under(dep, s, basedep) ==
    /\ expr_contains_symbol(dep, s)
    /\ expr_depends_symbol(dep, s) \/ expr_is_yes(expr_eliminate_eq(Normal(dep), basedep)[3])

RECURSIVE menu_finalize(_, _, _), FinalizeKids(_, _, _), AbsorbFrom(_, _, _, _, _)

FinalizeKids(z, m, i) ==
    IF i > Len(z.menus[m].kids) THEN z
    ELSE FinalizeKids(menu_finalize(z, m, z.menus[m].kids[i]), m, i + 1)

\* The entries after m, from the i-th child of owner on, become children of m.
AbsorbFrom(z, owner, m, i, basedep) ==
    LET kids == z.menus[owner].kids
        k == kids[i]
        dep == IF z.menus[k].prompt # 0 THEN PromptVis(z, k) ELSE z.menus[k].dep
        y == menu_finalize(z, owner, k)
    IN IF i > Len(kids) \/ ~Under(dep, z.menus[m].sym, basedep) THEN z
       ELSE AbsorbFrom([y EXCEPT !.menus[owner].kids = RemoveAt(@, i),
                                 !.menus[m].kids = Append(@, k),
                                 !.menus[k].parent = m],
                       owner, m, i, basedep)

MakeMember(z, choice, m) ==
    LET s == z.menus[m].sym
        only == expr_alloc_comp("EQUAL", choice, symbol_yes)
        y == IF Stype(choice) = "TRISTATE" /\ Stype(s) # "TRISTATE"
             THEN [z EXCEPT !.menus[m].dep = expr_alloc_and(only, @),
                            !.props = [i \in DOMAIN @ |->
                               IF @[i].menu # m THEN @[i]
                               ELSE [@[i] EXCEPT !.vis = expr_alloc_and(only, @)]]]
             ELSE z
    IN [y EXCEPT !.choiceOf[s] = choice, !.members[choice] = Append(@, s)]

\* The entries of a block that has no prompt of its own go into the list
\* around it.
Hoist(z, m, i) ==
    LET k == z.menus[m].kids[i]
        moved == z.menus[k].kids
    IN [z EXCEPT !.menus = [j \in DOMAIN @ |->
           CASE j = m -> [@[j] EXCEPT !.kids = SubSeq(@, 1, i) \o moved
                                               \o SubSeq(@, i + 1, Len(@))]
             [] j = k -> [@[j] EXCEPT !.kids = <<>>]
             [] j \in Range(moved) -> [@[j] EXCEPT !.parent = m]
             [] OTHER -> @[j]]]

RECURSIVE TieKids(_, _, _)
TieKids(z, m, i) ==
    IF i > Len(z.menus[m].kids) THEN z
    ELSE LET k == z.menus[m].kids[i]
             s == z.menus[k].sym
             y == IF z.menus[m].sym \in z.choice /\ s # NoSym /\ z.choiceOf[s] = NoSym
                  THEN MakeMember(z, z.menus[m].sym, k) ELSE z
         IN TieKids(IF y.menus[k].prompt = 0 /\ y.menus[k].kids # <<>> THEN Hoist(y, m, i) ELSE y,
                    m, i + 1)

menu_finalize(z, owner, m) ==
    LET sym == z.menus[m].sym
        kids == z.menus[m].kids
        parentdep == CASE sym \in z.choice -> expr_alloc_symbol(sym)
                       [] z.menus[m].prompt # 0 -> PromptVis(z, m)
                       [] OTHER -> z.menus[m].dep
        basedep == Normal(IF z.menus[m].prompt # 0 THEN PromptVis(z, m) ELSE NULL)
        after == CHOOSE i \in DOMAIN z.menus[owner].kids : z.menus[owner].kids[i] = m
        y == CASE kids # <<>> ->
                    FinalizeKids(PropagateAll(z, parentdep, kids), m, 1)
               [] kids = <<>> /\ sym # NoSym -> AbsorbFrom(z, owner, m, after + 1, basedep)
               [] OTHER -> z
        x == TieKids(y, m, 1)
    IN IF sym # NoSym /\ sym \notin x.optional /\ x.menus[m].prompt # 0
       THEN [x EXCEPT !.rev[sym] = expr_alloc_or(@,
                expr_alloc_and(PromptVis(x, m), expr_alloc_symbol(symbol_mod)))]
       ELSE x

RECURSIVE ParseFrom(_, _)
ParseFrom(z, i) == IF i > Len(Statements) THEN z ELSE ParseFrom(zconfparse(z, Statements[i]), i + 1)

ByType(z) == [z EXCEPT !.of = [s \in Syms |-> [type \in {"PROMPT", "DEFAULT", "RANGE"} |->
                                                  PropsOf(z, s, type)]]]

\* MODULES is the default of the unnamed symbol modules_sym.
conf_parse ==
    LET z == ParseFrom(Empty, 1)
        w == [z EXCEPT !.props = Append(@, [type |-> "DEFAULT", sym |-> ModulesSym, menu |-> 0,
                                           vis |-> NULL, expr |-> expr_alloc_symbol("MODULES")])]
    IN ByType(menu_finalize(w, rootmenu, rootmenu))

-----------------------------------------------------------------------------
(* The search for recursive dependencies that conf_parse ends with.  A      *)
(* check gives the symbol in which it was caught, or NoSym; f holds the     *)
(* flags SYMBOL_CHECK and SYMBOL_CHECKED and the errors counted.            *)

Unchecked == [check |-> {}, checked |-> {}, zconfnerrs |-> 0, caught |-> NoSym]

\* What the value of s depends on, in the order it is looked at.
DepSeq(z, s) ==
    LET ps == SelectSeq([i \in 1..Len(z.props) |-> i],
                        LAMBDA i : z.props[i].sym = s /\ z.props[i].type # "SELECT")
        Of(p) == SymsIn(p.vis) \o (IF p.type = "DEFAULT" /\ s \notin z.choice
                                   THEN SymsIn(p.expr) ELSE <<>>)
        All[i \in 0..Len(ps)] == IF i = 0 THEN SymsIn(z.rev[s]) ELSE All[i - 1] \o Of(z.props[ps[i]])
    IN All[Len(ps)]

\* The members of a choice are checked together with it, whichever of them
\* the check comes to first.
RECURSIVE sym_check_deps(_, _, _), CheckSeq(_, _, _), CheckGroup(_, _, _, _)

\* sym_check_expr_deps: the first symbol that is caught ends the check.
CheckSeq(z, f, ss) ==
    IF ss = <<>> \/ f.caught # NoSym THEN f
    ELSE CheckSeq(z, sym_check_deps(z, f, Head(ss)), Tail(ss))
CheckGroup(z, f, t, ss) ==
    IF ss = <<>> \/ f.caught # NoSym THEN f
    ELSE CheckGroup(z, [CheckSeq(z, f, DepSeq(z, Head(ss))) EXCEPT !.check = @ \ {t}], t, Tail(ss))

\* A symbol that was caught and is now left has been reported in full.
Report(f, t, members) ==
    LET caught == IF f.caught \in members THEN t ELSE f.caught
    IN [f EXCEPT !.check = @ \ members, !.caught = IF caught = t THEN NoSym ELSE caught,
                 !.zconfnerrs = IF caught = t THEN @ + 1 ELSE @]

sym_check_deps(z, f, s) ==
    LET t == IF s \in Syms /\ z.choiceOf[s] # NoSym THEN z.choiceOf[s] ELSE s
        all == {t} \cup Range(z.members[t])
    IN CASE s \in f.check -> [f EXCEPT !.caught = s]
         [] s \notin f.check /\ t \in f.check -> [f EXCEPT !.caught = t]
         [] s \notin Syms \/ {s, t} \cap (f.checked \ f.check) # {} -> f
         [] OTHER -> Report(CheckGroup(z, [f EXCEPT !.check = @ \cup all, !.checked = @ \cup all],
                                       t, <<t>> \o z.members[t]),
                            t, all \ {t})

=============================================================================
