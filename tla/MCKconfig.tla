------------------------------ MODULE MCKconfig ------------------------------
(***************************************************************************)
(* A small menu with the constructs of configs/Config.in (a choice under a *)
(* dependency, defaults with conditions, ranges) and those the tool adds:  *)
(* if, menu, select, tristate symbols and modules.                         *)
(*                                                                         *)
(* Beside the tool, what conf_parse does to one expression or one set of   *)
(* dependencies: the initial states in which probe holds one of those take *)
(* no step.                                                                *)
(***************************************************************************)
EXTENDS KconfigText

CONSTANTS Exprs,          \* expressions
          DepGraphs,      \* functions from symbols to the symbol they depend on
          Choice, Members,  \* the choice of these and the sequence of its members
          Grid            \* values of the symbols

VARIABLE probe

pvars == <<allvars, probe>>
None == <<"none">>

ProbeInit == /\ TextInit
             /\ \/ probe = None
                \/ disk[DotConfig] = NoFile /\ probe \in {<<"expr", e>> : e \in Exprs} \cup
                                             {<<"deps", d>> : d \in DepGraphs}

ProbeNext == \/ probe = None /\ AllNext /\ UNCHANGED probe
             \/ probe # None /\ UNCHANGED pvars

ProbeSpec == ProbeInit /\ [][ProbeNext]_pvars

Booleans == {cur \in Grid : \A s \in DOMAIN cur : cur[s].tri # mod}

\* What menu_finalize makes of an expression means the same: for all values
\* after expr_eliminate_yn and expr_transform, and without m after
\* expr_eliminate_dups, whose simplifications ignore m; and an entry goes below
\* a symbol (expr_depends_symbol) only if it is hidden when the symbol is n.
SimplifyExact ==
    probe[1] = "expr" =>
        LET e == probe[2]
            t == expr_transform(e)
        IN /\ \A cur \in Grid : /\ expr_calc(t, cur) = expr_calc(e, cur)
                                /\ expr_calc(expr_eliminate_yn(e), cur) = expr_calc(e, cur)
           /\ symbol_mod \notin Range(SymsIn(e)) =>
                 \A cur \in Booleans : expr_calc(expr_eliminate_dups(t), cur) = expr_calc(e, cur)
           /\ \A s \in Syms : expr_depends_symbol(e, s) =>
                 \A cur \in Grid : s \in DOMAIN cur /\ cur[s].tri = no => expr_calc(e, cur) = no

\* The menu tree of a probe: the choice and its members depend by their
\* prompts, boolean symbols by a select and tristate ones by a default.
DepTree(d) ==
    LET Prompted == Range(Members) \cup {Choice}
        E(s) == IF d[s] = NoSym THEN NULL ELSE expr_alloc_symbol(d[s])
        P(s) == [type |-> IF s \in Prompted THEN "PROMPT" ELSE "DEFAULT", sym |-> s, menu |-> rootmenu,
                 expr |-> IF s \in Prompted THEN NULL ELSE E(s),
                 vis |-> IF s \in Range(Members) THEN expr_alloc_and(expr_alloc_symbol(Choice), E(s))
                         ELSE IF s = Choice THEN E(s) ELSE NULL]
        props == SelectSeq(SymSeq, LAMBDA s : s \in DOMAIN d
                                              /\ (s \in Prompted \/ Stype(s) = "TRISTATE"))
    IN [Empty EXCEPT !.choice = {Choice},
                     !.choiceOf = [s \in Syms |-> IF s \in Range(Members) THEN Choice ELSE NoSym],
                     !.members = [s \in Syms |-> IF s = Choice THEN Members ELSE <<>>],
                     !.rev = [s \in Syms |-> IF s \in DOMAIN d \ Prompted /\ Stype(s) = "BOOLEAN"
                                             THEN E(s) ELSE NULL],
                     !.props = [i \in DOMAIN props |-> P(props[i])]]

\* A cycle of the dependencies between groups of symbols.
Cyclic(z, Group(_), Own(_, _)) ==
    LET Leads(g, h) == \E s \in Syms : /\ Group(s) = g
                                       /\ \E d \in Range(DepSeq(z, s)) \cap Syms :
                                             Group(d) = h /\ ~Own(s, d)
    IN \E gs \in SUBSET {Group(s) : s \in DOMAIN probe[2]} :
          gs # {} /\ \A a \in gs : \E b \in gs : Leads(a, b)

\* The members of a choice count as one; or the choice counts as one with
\* them, and their dependency on it is none.
Members1(z, s) == IF z.choiceOf[s] # NoSym THEN z.members[z.choiceOf[s]][1] ELSE s
Choice1(z, s) == IF z.choiceOf[s] # NoSym THEN z.choiceOf[s] ELSE s

\* sym_check_deps, called for every symbol, reports every cycle, whatever was
\* checked before and wherever a choice is entered, and reports nothing where
\* there is none.  Between the two readings lies the symbol that depends on a
\* choice and that a member depends on: it is reported or not as the check
\* comes first to it or to the choice.
CyclesFound ==
    probe[1] = "deps" =>
        LET z == DepTree(probe[2])
            f == CheckSeq(z, Unchecked, SymSeq)
        IN /\ Cyclic(z, LAMBDA s : Members1(z, s), LAMBDA s, d : FALSE) => f.zconfnerrs > 0
           /\ f.zconfnerrs > 0 =>
                 Cyclic(z, LAMBDA s : Choice1(z, s), LAMBDA s, d : d = z.choiceOf[s])

\* conf_parse understands the menu files: what menu_finalize makes of their
\* expressions means the same (SimplifyExact), and sym_check_deps rejects
\* those that define a symbol by itself (CyclesFound).
ParseRight == SimplifyExact /\ CyclesFound

-----------------------------------------------------------------------------
S(s) == expr_alloc_symbol(s)

MCSymType ==
    [MODULES |-> "BOOLEAN", HAL |-> "BOOLEAN", B1 |-> "BOOLEAN", B2 |-> "BOOLEAN",
     interval |-> "TRISTATE", DRV |-> "TRISTATE", LIB |-> "TRISTATE", CPUS |-> "INT",
     BASE |-> "HEX", modules |-> "BOOLEAN"]
MCSymSeq == <<"MODULES", "HAL", "B1", "B2", "DRV", "LIB", "CPUS", "BASE", "interval", "modules">>

MCStatements ==
    << <<"config", "MODULES">>, <<"prompt", NULL>>,
       <<"config", "HAL">>, <<"prompt", NULL>>, <<"default", S("n"), NULL>>,
       <<"choice", "interval">>, <<"optional">>, <<"prompt", NULL>>, <<"default", S("B2"), NULL>>,
         <<"depends", S("HAL")>>, <<"block">>,
         <<"config", "B1">>, <<"prompt", NULL>>,
         <<"config", "B2">>, <<"prompt", NULL>>, <<"end">>,
       <<"if", expr_alloc_and(S("HAL"), expr_alloc_one("NOT",
                  expr_alloc_or(S("B1"), expr_alloc_one("NOT", S("HAL")))))>>,
         <<"config", "DRV">>, <<"prompt", NULL>>, <<"select", "LIB", NULL>>,
         <<"depends", S("HAL")>>, <<"end">>,
       <<"config", "BASE">>, <<"prompt", S("LIB")>>,
         <<"default", S("0x1"), S("LIB")>>, <<"default", S("0x2"), NULL>>,
       <<"menu">>, <<"block">>,
         <<"config", "LIB">>, <<"prompt", expr_alloc_comp("UNEQUAL", "HAL", "n")>>,
         <<"config", "CPUS">>, <<"prompt", NULL>>,
           <<"default", S("1"), expr_alloc_one("NOT", S("HAL"))>>,
           <<"default", S("2"), S("HAL")>>, <<"range", "1", "3", NULL>>, <<"end">> >>

One   == << <<"MODULES", "unset">>, <<"HAL", "y">>, <<"B2", "y">>, <<"B1", "y">>, <<"CPUS", "9">>, <<"GONE", "y">> >>
Two   == << <<"MODULES", "y">>, <<"HAL", "y">>, <<"B1", "unset">>, <<"DRV", "m">>, <<"CPUS", "2">> >>
Three == << <<"MODULES", "unset">>, <<"HAL", "unset">>, <<"BASE", "0x2">>, <<"CPUS", "1">> >>
MCOthers == {One, Two, Three}
MCFiles == {DotConfig, "other"}
MCDisks == {(DotConfig :> d[1]) @@ ("other" :> d[2]) :
              d \in {<<NoFile, One>>, <<One, Two>>, <<Two, Three>>, <<Three, NoFile>>}}

-----------------------------------------------------------------------------
Values1 == {[tri |-> v, val |-> ""] : v \in {no, yes}}
Values2 == {[tri |-> v, val |-> ""] : v \in {no, mod, yes}}
MCGrid == {[HAL |-> a, DRV |-> b] : a \in Values1, b \in Values2}

Atoms == {S("HAL"), S("DRV"), S("y"), S("n"), S("m"), expr_alloc_comp("EQUAL", "HAL", "n"),
          expr_alloc_comp("UNEQUAL", "DRV", "m")}
WithNot(es) == es \cup {expr_alloc_one("NOT", e) : e \in es}
Joined(es, fs) == {expr_alloc_two(op, e, f) : op \in Junction, e \in es, f \in fs}
Pairs == Joined(Atoms, WithNot({S("HAL"), S("DRV"), S("y")}))
MCExprs == WithNot(Pairs) \cup Joined(Pairs, WithNot(Atoms))

Nodes == {"HAL", "LIB", "interval", "B1", "B2"}
MCDepGraphs == [Nodes -> Nodes \cup {NoSym}]
MCMembers == <<"B1", "B2">>
=============================================================================
