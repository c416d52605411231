----------------------------- MODULE KconfigText -----------------------------
(***************************************************************************)
(* "make config", "make oldconfig" and their kin: tools/kconfig/conf.c     *)
(* asks for one symbol after the other on the terminal.  The recursion of  *)
(* conf and check_conf is kept as the list of the calls that are to come.  *)
(* A question is one step: the answer that is taken; an answer that is     *)
(* refused asks again and changes nothing.                                 *)
(***************************************************************************)
EXTENDS Kconfig

CONSTANTS TextModes,      \* the input modes, with "sync" for the option -s
          Others,         \* allyes.config and the like
          MaxTexts        \* only the first MaxTexts sessions are of this program,
                          \* and no session of mconf after one makes edits (bounds)

VARIABLES mode,           \* input_mode
          work,           \* calls that are pending: <<function, menu>>
          rootEntry,
          conf_cnt,       \* the symbols this round of check_conf found new
          rounds          \* the rounds so far

tvars == <<mode, work, rootEntry, conf_cnt, rounds>>
allvars == <<vars, tvars>>

TextInit == Init /\ mode = "none" /\ work = <<>> /\ rootEntry = rootmenu /\ conf_cnt = 0 /\ rounds = 0

Silent == mode # "ask_all"
Read(f) == IF f = NoFile THEN Parsed ELSE conf_read(Parsed, f)

\* main, up to the first question.
TextStart(how) ==
    /\ session = "off" /\ sessions < MaxTexts /\ edits' = MaxEdits
    /\ how = "sync" => disk[DotConfig] # NoFile
    /\ session' = "text" /\ sessions' = sessions + 1 /\ mode' = how
    /\ st' = Read(disk[DotConfig]) /\ fresh' = (saved[DotConfig] # Never)
    /\ rootEntry' = rootmenu /\ conf_cnt' = 0 /\ rounds' = 0
    /\ work' = <<<<IF how = "ask_all" THEN "conf" ELSE "check", rootmenu>>>>
    /\ touched' = {} /\ UNCHANGED <<Z, items, filename, disk, saved, auto, header, torn>>

Call(f, ms) == [i \in DOMAIN ms |-> <<f, ms[i]>>]

\* The call at hand ends in state w and is followed by the calls todo.
Step(w, todo) ==
    /\ st' = w /\ fresh' = FALSE
    /\ work' = todo \o Tail(work)
    /\ UNCHANGED <<Z, items, filename, files, torn, edits, session, sessions, mode>>

Calling(f) == session = "text" /\ work # <<>> /\ Head(work)[1] = f
Menu == Head(work)[2]
Seen == menu_is_visible(st, Menu)
Msym == Z.menus[Menu].sym
Mkids == Z.menus[Menu].kids

\* conf_askvalue: is the user asked for the value of s?
Asked(w, s) == sym_is_changable(w, s) /\ (Silent => s \notin w.has)

confHidden == Calling("conf") /\ ~Seen.ok /\ Step(Seen.st, <<>>) /\ UNCHANGED <<rootEntry, conf_cnt, rounds>>

ToCheck == Silent /\ rootEntry # Menu /\ Z.props[Z.menus[Menu].prompt].type = "MENU"

\* A menu or a comment.
confMenu ==
    /\ Calling("conf") /\ Seen.ok /\ Msym = NoSym
    /\ Step(Seen.st, IF ToCheck THEN <<<<"check", Menu>>>> ELSE Call("conf", Mkids))
    /\ UNCHANGED <<rootEntry, conf_cnt, rounds>>

\* The states in which conf_sym may leave the symbol s.
conf_sym(w, s) ==
    IF ~Asked(w, s) THEN {w}
    ELSE {r.st : r \in {t \in {sym_set_tristate_value(w, s, v) : v \in {no, mod, yes}} : t.ok}}

conf_string_text(w, s) ==
    IF ~Asked(w, s) THEN {w}
    ELSE {r.st : r \in {t \in {sym_set_string_value(w, s, text) :
                                 text \in Inputs \cup {w.cur[s].val}} : t.ok}}

confSym ==
    /\ Calling("conf") /\ Seen.ok /\ Msym \in Syms \ Z.choice
    /\ \E w \in IF Stype(Msym) \in {"BOOLEAN", "TRISTATE"} THEN conf_sym(Seen.st, Msym)
                ELSE conf_string_text(Seen.st, Msym) :
          Step(w, Call("conf", Mkids))
    /\ UNCHANGED <<rootEntry, conf_cnt, rounds>>

\* The entries that conf_choice numbers.
Numbered(w) == {k \in Range(Mkids) : Z.menus[k].sym # NoSym /\ menu_is_visible(w, k).ok}

\* The entry taken: the only one, the present one when nothing is new, or
\* the one whose number is typed.
Taken(w, isnew) ==
    LET ks == Numbered(w)
        def == {k \in ks : Z.menus[k].sym = w.cur[Msym].val}
    IN IF Cardinality(ks) = 1 \/ ~Silent \/ isnew THEN ks ELSE def

confChoice ==
    /\ Calling("conf") /\ Seen.ok /\ Msym \in Z.choice
    /\ \E v \in IF sym_is_changable(Seen.st, Msym) THEN conf_sym(Seen.st, Msym) ELSE {Seen.st} :
          LET c == sym_calc_value(v, Msym)
              w == FoldLeft(LAMBDA u, k : menu_is_visible(u, k).st, c, Mkids)
          IN \/ c.cur[Msym].tri = no /\ Step(c, <<>>)
             \/ c.cur[Msym].tri = mod /\ Step(c, Call("conf", Mkids))
             \/ /\ c.cur[Msym].tri = yes
                /\ \E k \in Taken(w, Msym \notin Seen.st.has) :
                      Step(sym_set_tristate_value(w, Z.menus[k].sym, yes).st,
                           Call("conf", Z.menus[k].kids))
    /\ UNCHANGED <<rootEntry, conf_cnt, rounds>>

\* check_conf looks for a symbol that has no value yet, and asks for
\* everything in its menu.
IsNew(w, s) == /\ s \in Syms \ w.has
               /\ sym_is_changable(w, s) \/ (s \in Z.choice /\ w.cur[s].tri = yes)

RECURSIVE menu_get_parent_menu(_)
menu_get_parent_menu(m) ==
    LET p == Z.menus[m].parent
    IN IF m = rootmenu THEN m
       ELSE IF Z.menus[m].prompt # 0 /\ Z.props[Z.menus[m].prompt].type = "MENU" THEN m
       ELSE menu_get_parent_menu(p)

\* A mutant: a round that found something new is taken for the last one.
CheckNewUncounted ==
    /\ Calling("check") /\ Seen.ok /\ IsNew(Seen.st, Msym)
    /\ UNCHANGED <<conf_cnt, rounds>>
    /\ rootEntry' = menu_get_parent_menu(Menu)
    /\ Step(Seen.st, <<<<"conf", rootEntry'>>>> \o Call("check", Mkids))
CheckNew ==
    /\ Calling("check") /\ Seen.ok /\ IsNew(Seen.st, Msym)
    /\ conf_cnt' = conf_cnt + 1 /\ UNCHANGED rounds
    /\ rootEntry' = menu_get_parent_menu(Menu)
    /\ Step(Seen.st, <<<<"conf", rootEntry'>>>> \o Call("check", Mkids))

CheckOld ==
    /\ Calling("check") /\ ~(Seen.ok /\ IsNew(Seen.st, Msym))
    /\ Step(Seen.st, IF Seen.ok THEN Call("check", Mkids) ELSE <<>>)
    /\ UNCHANGED <<rootEntry, conf_cnt, rounds>>

\* All calls have returned: another round, or the end of main.
Again ==
    /\ session = "text" /\ work = <<>> /\ (conf_cnt # 0 \/ mode = "ask_all")
    /\ mode' = IF mode = "ask_all" THEN "ask_silent" ELSE mode
    /\ work' = <<<<"check", rootmenu>>>> /\ conf_cnt' = 0
    /\ rounds' = rounds + 1
    /\ UNCHANGED <<vars, rootEntry>>

TextLeave == /\ fresh' = FALSE
             /\ mode' = "none" /\ work' = <<>> /\ rootEntry' = rootmenu /\ conf_cnt' = 0 /\ rounds' = 0
             /\ UNCHANGED <<Z, items, filename, torn, edits, sessions, auto, header, touched>>

Done == session = "text" /\ work = <<>> /\ conf_cnt = 0 /\ mode # "ask_all"

Finish ==
    /\ Done /\ TextLeave
    /\ IF mode = "sync" /\ ~st.changed THEN UNCHANGED <<disk, saved>> ELSE Save(DotConfig, st)
    /\ IF mode # "sync" THEN End
       ELSE conf_write_autoconf(IF st.changed THEN conf_write(st).st ELSE st)

\* conf_write fails, or nobody can answer a question of "sync" (check_stdin).
GiveUp ==
    /\ \/ Done /\ (mode = "sync" => st.changed) /\ SaveFails(DotConfig)
       \/ /\ mode = "sync" /\ Calling("conf") /\ Seen.ok /\ IsNew(Seen.st, Msym)
          /\ UNCHANGED <<disk, saved>>
    /\ TextLeave /\ End

-----------------------------------------------------------------------------
(* The modes that ask nothing: "make allyesconfig" and its kin.  rand is    *)
(* drawn from a few functions, all but one of whose values are equal.       *)

Draws == {[s \in Syms |-> IF s = odd THEN a ELSE b] : odd \in Syms, a \in 0..2, b \in 0..2}

\* A member is drawn by a number that counts from 1, and compared with one
\* that counts from 0: the first is never taken, and after the last comes none.
DrawMember(w, c, draw) ==
    LET u == sym_calc_value(w, c)
        shown == SelectSeq(Z.members[c], LAMBDA m : u.vis[m] # no)
        def == (draw[c] % Len(shown)) + 1
    IN IF c \in w.has THEN w
       ELSE [u EXCEPT !.has = @ \cup {c},
                      !.def[c].val = IF Len(shown) >= 2 /\ def < Len(shown)
                                     THEN shown[def + 1] ELSE @]

conf_set_all_new_symbols(w, how, draw) ==
    LET new == {s \in Syms : s \notin w.has /\ Stype(s) \in {"BOOLEAN", "TRISTATE"}}
        val(s) == CASE how = "set_yes" -> yes [] how = "set_mod" -> mod
                    [] how = "set_no" -> no [] how = "set_random" -> draw[s]
        u == IF how = "set_default" THEN w
             ELSE [w EXCEPT !.def = [s \in Syms |-> IF s \in new THEN [@[s] EXCEPT !.tri = val(s)]
                                                    ELSE @[s]],
                            !.has = @ \cup (IF how = "set_random" THEN new \ Z.choice ELSE new)]
        v == sym_calc_value(u, ModulesSym)
    IN IF how # "set_random" THEN v
       ELSE FoldLeft(LAMBDA x, c : IF sym_is_choice(c) THEN DrawMember(x, c, draw) ELSE x, v, SymSeq)

\* The symbols that a file "allyes.config" and the like sets are not new.
SetAll(how, f, draw) ==
    /\ session = "off" /\ sessions < MaxTexts /\ sessions' = sessions + 1 /\ edits' = MaxEdits
    /\ how = "set_default" => f # NoFile
    /\ LET r == CASE how = "set_default" -> conf_read(Parsed, f)
                  [] how # "set_default" /\ f = NoFile -> Parsed
                  [] OTHER -> conf_read_simple(Parsed, f).st
       IN Save(DotConfig, conf_set_all_new_symbols(r, how, draw)) \/ SaveFails(DotConfig)
    /\ touched' = {} /\ UNCHANGED <<Z, session, st, items, filename, auto, header, fresh, torn, tvars>>

-----------------------------------------------------------------------------
Over == session = "off" /\ sessions = MaxSessions /\ UNCHANGED allvars

AllNext ==
    \/ Next /\ UNCHANGED tvars
    \/ \E how \in TextModes \cap {"ask_all", "ask_silent", "sync"} : TextStart(how)
    \/ confHidden \/ confMenu \/ confSym \/ confChoice \/ CheckNew \/ CheckOld
    \/ Again \/ Finish \/ GiveUp \/ Over
    \/ \E how \in TextModes \cap {"set_default", "set_no", "set_mod", "set_yes"},
          f \in Others \cup {NoFile} : SetAll(how, f, [s \in Syms |-> 0])
    \/ \E f \in Others \cup {NoFile}, draw \in Draws :
          "set_random" \in TextModes /\ SetAll("set_random", f, draw)

TextSpec == TextInit /\ [][AllNext]_allvars

\* The symbols the user sees, from the menu m down.
RECURSIVE SeenIn(_, _)
SeenIn(w, m) == IF ~menu_is_visible(w, m).ok THEN {}
                ELSE {Z.menus[m].sym} \cup UNION {SeenIn(w, k) : k \in Range(Z.menus[m].kids)}

\* The loop of main "until a loop caused no more changes" comes to its end:
\* an answer may bring up new questions in front of the one it is about, but
\* every round gives a value to a symbol that had none; and when it is over
\* every symbol that is shown and that the user can change has one.
ConfAsksAll ==
    /\ conf_cnt <= Cardinality(Syms) /\ rounds <= Cardinality(Syms)
    /\ Done => LET w == sym_calc_all(st, SymSeq)
               IN \A s \in SeenIn(w, rootmenu) : ~IsNew(w, s)
=============================================================================
