------------------------------- MODULE Kconfig -------------------------------
(***************************************************************************)
(* "make menuconfig": sessions of tools/kconfig/mconf.c over the symbols   *)
(* of KconfigSym.  A session parses the menu files, reads .config, lets    *)
(* the user change what the menu shows, load and save under any name, and  *)
(* keep or discard the changes; then it writes the files that make depends *)
(* on, in four steps (conf_write_autoconf).  A file may be missing, may    *)
(* not be opened and may not be renamed.                                   *)
(***************************************************************************)
EXTENDS KconfigSym

CONSTANTS Inputs,         \* what the user may type for the value of a symbol
          Files,          \* and for the name of a file
          Disks,          \* the contents of these files at first
          MaxEdits, MaxSessions   \* bounds

VARIABLES session,        \* "off", "on" while mconf runs, or what conf_write_autoconf
                          \* does next: "split", "header", "auto"
          st,             \* the symbols of the running session
          items,          \* the screen: <<tag, menu>>
          disk,           \* the configuration files
          filename,       \* where mconf saves
          auto,           \* include/config/auto.conf, as a set of lines
          header,         \* include/config/autoconf.h, the same
          touched,        \* the headers that the last program to run has renewed
          saved,          \* what every symbol was when a file was saved
          fresh,          \* filename was read and nothing done since
          torn,           \* a rename failed and no value changed since
          edits, sessions \* the work done so far

files == <<disk, saved, auto, header, touched>>
vars == <<Z, session, st, items, filename, files, fresh, torn, edits, sessions>>

DotConfig == ".config"      \* conf_get_configname
NoFile == <<<<NoVal, NoVal>>>>
Never == [s \in {} |-> NoVal]
Named == {s \in Syms : ~IsAuto(s)}

Finals(all) == [s \in Syms |-> all.cur[s]]
Values(w) == Finals(sym_calc_all(w, SymSeq))

-----------------------------------------------------------------------------
(* The menu on the screen: the entries the user can act on, with the tag    *)
(* the code gives them: t for a tristate or a choice, s for a text.  All    *)
(* submenus are unfolded, as in the single menu mode.                       *)

RECURSIVE build_conf(_, _), BuildAll(_, _)

BuildAll(b, ms) == IF ms = <<>> THEN b ELSE BuildAll(build_conf(b, Head(ms)), Tail(ms))

Add(b, tag, m) == [b EXCEPT !.items = @ \cup {<<tag, m>>}]

\* Every entry of a choice is computed; an active choice shows only what
\* hangs under the member it stands for.
RECURSIVE VisitKids(_, _)
VisitKids(w, ms) == IF ms = <<>> THEN w ELSE VisitKids(menu_is_visible(w, Head(ms)).st, Tail(ms))
BuildChoice(b, m) ==
    LET c == Z.menus[m].sym
        kids == Z.menus[m].kids
        def == SelectSeq(kids, LAMBDA k : /\ Z.menus[k].sym = b.st.cur[c].val
                                          /\ menu_is_visible(b.st, k).ok)
        tag == IF sym_is_changable(b.st, c) \/ def # <<>> THEN "t" ELSE ":"
    IN BuildAll(Add(b, tag, m),
                IF b.st.cur[c].tri # yes THEN kids
                ELSE SelectSeq(def, LAMBDA k : Z.menus[k].kids # <<>>))

BuildShown(b, m) ==
    LET s == Z.menus[m].sym
        tag == CASE s = NoSym -> ":"
                 [] s # NoSym /\ sym_is_choice_value(s) /\ b.st.cur[s].tri = yes -> ":"
                 [] OTHER -> IF Stype(s) \in {"BOOLEAN", "TRISTATE"} THEN "t" ELSE "s"
    IN IF s \in Z.choice THEN BuildChoice([b EXCEPT !.st = VisitKids(@, Z.menus[m].kids)], m)
       ELSE BuildAll(Add(b, tag, m), Z.menus[m].kids)
BuildIf(v, b, m) ==
    IF v.ok THEN BuildShown([b EXCEPT !.st = v.st], m) ELSE [b EXCEPT !.st = v.st]
build_conf(b, m) == BuildIf(menu_is_visible(b.st, m), b, m)

\* conf draws the menu again before it waits for the next key.
Draw(b) == st' = b.st /\ items' = b.items
Show(w) == Draw(build_conf([st |-> w, items |-> {}], rootmenu))

-----------------------------------------------------------------------------
Init == /\ Z = conf_parse /\ session = "off" /\ st = Parsed /\ items = {}
        /\ disk \in Disks /\ filename = DotConfig
        /\ auto = {} /\ header = {} /\ touched = {} /\ saved = [f \in Files |-> Never]
        /\ fresh = FALSE /\ torn = FALSE /\ edits = 0 /\ sessions = 0

\* main, up to the first menu: conf_parse and conf_read(NULL).
Start ==
    /\ session = "off" /\ sessions < MaxSessions
    /\ session' = "on" /\ sessions' = sessions + 1
    /\ Show(IF disk[DotConfig] = NoFile THEN Parsed ELSE conf_read(Parsed, disk[DotConfig]))
    /\ filename' = DotConfig /\ fresh' = (saved[DotConfig] # Never) /\ torn' = FALSE
    /\ touched' = {} /\ UNCHANGED <<Z, disk, saved, auto, header, edits>>

\* The user does something that leaves the symbols in state w.
Edit(w) ==
    /\ Show(w)
    /\ edits' = edits + 1 /\ fresh' = FALSE
    /\ torn' = (torn /\ st.valid \subseteq w.valid)
    /\ UNCHANGED <<Z, session, sessions, filename, files>>

On(tag, m) == session = "on" /\ edits < MaxEdits /\ <<tag, m>> \in items
SymOf(m) == Z.menus[m].sym

SetYes(w, s) == OrElse(sym_set_tristate_value(w, s, yes), s, mod)

KeyYes(m) == On("t", m) /\ Edit(SetYes(st, SymOf(m)).st)
KeyMod(m) == On("t", m) /\ Edit(sym_set_tristate_value(st, SymOf(m), mod).st)
KeyNo(m) == On("t", m) /\ Edit(sym_set_tristate_value(st, SymOf(m), no).st)
KeyToggle(m) == On("t", m) /\ Edit(sym_toggle_tristate_value(st, SymOf(m)).st)

\* conf_choice: one of the members that are shown is picked.
conf_choice(m, s) ==
    /\ On("t", m) /\ SymOf(m) \in Z.choice /\ st.cur[SymOf(m)].tri = yes
    /\ s \in Visible(st, SymOf(m))
    /\ Edit(sym_set_tristate_value(st, s, yes).st)

conf_string(m, text) == On("s", m) /\ Edit(sym_set_string_value(st, SymOf(m), text).st)

\* What the user does with files counts as an edit.
OnFile == session = "on" /\ edits < MaxEdits /\ edits' = edits + 1 /\ UNCHANGED <<Z, session, sessions>>

\* A file is loaded into the running session, which saves there from now on.
conf_load(f) ==
    /\ OnFile /\ disk[f] # NoFile
    /\ Show([conf_read(st, disk[f]) EXCEPT !.changed = TRUE])
    /\ filename' = f /\ fresh' = (saved[f] # Never) /\ torn' = FALSE
    /\ UNCHANGED files

\* "File does not exist!": conf_read has set the count of changes to 0 before
\* it looks for the file, so that mconf does not ask to save them any more.
conf_load_missing(f) ==
    /\ OnFile /\ disk[f] = NoFile
    /\ Show([st EXCEPT !.changed = FALSE])
    /\ fresh' = FALSE /\ UNCHANGED <<filename, files, torn>>

\* conf_write succeeds, or fails: when the file cannot be opened nothing
\* happens; when the new one cannot be renamed, the old one has its name .old.
Save(f, w) ==
    /\ disk' = [disk EXCEPT ![f] = conf_write(w).file]
    /\ saved' = [saved EXCEPT ![f] = IF torn /\ w.changed THEN Never ELSE Values(w)]
RenameFails(f) == disk' = [disk EXCEPT ![f] = NoFile] /\ saved' = [saved EXCEPT ![f] = Never]
SaveFails(f) == UNCHANGED <<disk, saved>> \/ RenameFails(f)

conf_save(f) ==
    /\ OnFile /\ Save(f, st)
    /\ Show([conf_write(st).st EXCEPT !.changed = FALSE])
    /\ filename' = f /\ fresh' = FALSE /\ torn' = FALSE
    /\ UNCHANGED <<auto, header, touched>>

\* The lines were written, SYMBOL_WRITE is gone, nothing is saved.
conf_save_fails(f) ==
    /\ OnFile /\ RenameFails(f)
    /\ Show(conf_write(st).st)
    /\ fresh' = FALSE /\ torn' = TRUE
    /\ UNCHANGED <<filename, auto, header, touched>>

Line(lines, s) == {l \in lines : l[1] = s}

\* The lines of auto.conf: a symbol set to m is written under another name.
AutoLines(w) ==
    UNION {CASE s \notin w.write \/ Text(w, s) = "unset" -> {}
             [] Text(w, s) = "m" /\ Stype(s) = "TRISTATE" -> {<<"CONFIG_" \o s, "m">>}
             [] OTHER -> {<<s, Text(w, s)>>} : s \in Named}

\* A mutant: symbols that are not written any more are not compared.
SplitWritten(w, old) == {s \in Named \cap w.write : <<s, Text(w, s)>> \notin old}
\* conf_split_config: the symbols whose header is renewed.
conf_split_config(w, old) ==
    {s \in Named :
        CASE s \in w.write /\ Line(old, s) # {} -> <<s, Text(w, s)>> \notin old
          [] s \in w.write /\ Line(old, s) = {} -> Text(w, s) # "unset"
          [] OTHER -> Line(old, s) # {}}

\* The menu is left: the program ends, or goes on with conf_write_autoconf,
\* which computes the values anew.
Leave == /\ session = "on" /\ items' = {} /\ filename' = DotConfig /\ fresh' = FALSE /\ torn' = FALSE
         /\ UNCHANGED <<Z, edits, sessions, auto, header, touched>>
End == session' = "off" /\ st' = Parsed
conf_write_autoconf(w) ==
    /\ session' = "split"
    /\ st' = sym_calc_all([sym_clear_all_valid(w) EXCEPT !.valid = {}], SymSeq)

\* Nothing changed, or the changes are discarded.
Quit == Leave /\ conf_write_autoconf(st) /\ UNCHANGED <<disk, saved>>

\* The user saves on the way out; when conf_write fails, main returns at once.
SaveAndQuit == st.changed /\ Leave /\ Save(filename, st) /\ conf_write_autoconf(conf_write(st).st)
SaveFailsAndQuit == st.changed /\ Leave /\ SaveFails(filename) /\ End

\* A step of conf_write_autoconf.
Writing(what) ==
    /\ session = what
    /\ UNCHANGED <<Z, items, filename, disk, saved, fresh, torn, edits, sessions>>

SplitConfig ==
    /\ Writing("split") /\ touched' = conf_split_config(st, auto)
    /\ session' = "header" /\ UNCHANGED <<st, auto, header>>

\* The header of one of the symbols, in their order, cannot be opened, or a
\* directory not be entered; or the headers are renewed and .tmpconfig cannot
\* be opened.
SplitFails ==
    /\ Writing("split") /\ End
    /\ \E n \in 0..Len(SymSeq) :
          touched' = conf_split_config(st, auto) \cap {SymSeq[i] : i \in 1..n}
    /\ UNCHANGED <<auto, header>>

\* A mutant: auto.conf is renamed before autoconf.h.
RenameHeaderLast ==
    /\ Writing("header") /\ auto' = AutoLines(st)
    /\ session' = "auto" /\ UNCHANGED <<st, header, touched>>
RenameHeader ==
    /\ Writing("header") /\ header' = AutoLines(st)
    /\ session' = "auto" /\ UNCHANGED <<st, auto, touched>>

RenameAuto ==
    /\ Writing("auto") /\ auto' = AutoLines(st)
    /\ End /\ UNCHANGED <<header, touched>>

RenameAutoFails == (Writing("header") \/ Writing("auto")) /\ End /\ UNCHANGED <<auto, header, touched>>

Next ==
    \/ Start \/ Quit \/ SaveAndQuit \/ SaveFailsAndQuit
    \/ SplitConfig \/ SplitFails \/ RenameHeader \/ RenameAuto \/ RenameAutoFails
    \/ \E m \in DOMAIN Z.menus :
          \/ KeyYes(m) \/ KeyMod(m) \/ KeyNo(m) \/ KeyToggle(m)
          \/ \E s \in Syms : conf_choice(m, s)
          \/ \E text \in Inputs : conf_string(m, text)
    \/ \E f \in Files : conf_load(f) \/ conf_load_missing(f) \/ conf_save(f) \/ conf_save_fails(f)

Spec == Init /\ [][Next]_vars

-----------------------------------------------------------------------------
(* The language as its description states it, read off the statements: the  *)
(* condition of an option is its own one and those of everything around it. *)

Keyword(i) == Statements[i][1]
Starts == {i \in DOMAIN Statements : Keyword(i) \in {"config", "choice", "if", "menu", "comment"}}
Opens == {i \in DOMAIN Statements : Keyword(i) \in {"if", "block"}}
Ends == {i \in DOMAIN Statements : Keyword(i) = "end"}
EntryOf(i) == Max({j \in Starts : j <= i})
Around(i) == {b \in Opens : b < i /\ \A k \in b..(i - 1) :
                 Cardinality(Opens \cap (b..k)) > Cardinality(Ends \cap (b..k))}

OwnConds(i) ==
    CASE Keyword(i) \in {"prompt", "if"} -> {Statements[i][2]}
      [] Keyword(i) \in {"default", "select"} -> {Statements[i][3]}
      [] Keyword(i) = "range" -> {Statements[i][4]}
      [] OTHER -> {}
DependsOf(i) == {Statements[j][2] : j \in {k \in DOMAIN Statements :
                    Keyword(k) = "depends" /\ EntryOf(k) = EntryOf(i)}}
\* What a choice asks of its entry i: a boolean one needs a choice that is y.
ChoiceConds(c, i) ==
    {expr_alloc_symbol(c)} \cup
    (IF Stype(c) = "TRISTATE" /\ Keyword(i) = "config" /\ Stype(Statements[i][2]) # "TRISTATE"
     THEN {expr_alloc_comp("EQUAL", c, symbol_yes)} ELSE {})
BlockConds(b, i) ==
    OwnConds(EntryOf(b)) \cup DependsOf(b)
    \cup (IF Keyword(EntryOf(b)) = "choice" THEN ChoiceConds(Statements[EntryOf(b)][2], i) ELSE {})
Conds == [i \in DOMAIN Statements |->
             OwnConds(i) \cup DependsOf(i)
             \cup UNION {BlockConds(b, EntryOf(i)) : b \in Around(EntryOf(i))}]

Holds(i, cur) == Min({yes} \cup {expr_calc(e, cur) : e \in Conds[i]})
Options(s, kw) == {i \in DOMAIN Statements :
                     /\ Keyword(i) = kw /\ Keyword(EntryOf(i)) \in {"config", "choice"}
                     /\ Statements[EntryOf(i)][2] = s}
Selects(s) == {i \in DOMAIN Statements : Keyword(i) = "select" /\ Statements[i][2] = s}

Promote(v, cond) == IF v = mod /\ cond THEN yes ELSE v

Shown(s, w) == Promote(Max({no} \cup {Holds(i, w.cur) : i \in Options(s, "prompt")}),
                       Stype(s) # "TRISTATE" \/ w.modules = no)
Forced(s, w) ==
    LET selected == {EXPR_AND(w.cur[Statements[EntryOf(i)][2]].tri, Holds(i, w.cur)) :
                        i \in Selects(s)}
        compulsory == {EXPR_AND(Holds(i, w.cur), mod) : i \in Options(s, "prompt")}
    IN Promote(Max({no} \cup selected
                   \cup (IF s \in Z.choice /\ Options(s, "optional") = {} THEN compulsory ELSE {})),
               sym_get_type(w, s) = "BOOLEAN")

Applying(s, w, kw) == {i \in Options(s, kw) : Holds(i, w.cur) # no}
Default(s, w) ==
    LET ds == Applying(s, w, "default")
    IN IF ds = {} THEN no
       ELSE EXPR_AND(expr_calc(Statements[Min(ds)][2], w.cur), Holds(Min(ds), w.cur))

RightTri(s, w) ==
    LET asked == IF Shown(s, w) # no /\ s \in w.has
                 THEN EXPR_AND(w.def[s].tri, Shown(s, w))
                 ELSE IF s \in Z.choice THEN no ELSE Default(s, w)
    IN IF sym_is_choice_value(s) /\ Shown(s, w) = yes
       THEN IF w.cur[Z.choiceOf[s]].val = s THEN yes ELSE no
       ELSE Promote(EXPR_OR(asked, IF sym_is_choice_value(s) THEN no ELSE Forced(s, w)),
                    sym_get_type(w, s) = "BOOLEAN")

\* A choice that is y stands for exactly one of its visible members.
RightMember(c, w) ==
    LET shown == {m \in Range(Z.members[c]) : Shown(m, w) # no}
        named == {Statements[i][2][2] : i \in Applying(c, w, "default")}
        pick == w.cur[c].val
    IN shown # {} => /\ pick \in shown
                     /\ w.def[c].val \in shown => pick = w.def[c].val
                     /\ w.def[c].val \notin shown /\ named \cap shown # {} => pick \in named

InRange(s, w) == \A i \in Options(s, "range") :
    Holds(i, w.cur) # no =>
        /\ strtol(w.cur[s].val, BaseOf(s, 10)) >= strtol(Statements[i][2], BaseOf(s, 10))
        /\ strtol(w.cur[s].val, BaseOf(s, 10)) <= strtol(Statements[i][3], BaseOf(s, 10))

\* In a running session every value the tool computes or has cached (the
\* SYMBOL_VALID flags of symbol.c) is the one the statements of the menu files
\* and the user's settings give, whatever menu_finalize simplified or moved and
\* whatever was changed, loaded or saved since the value was computed.
ValuesRight ==
    session = "on" =>
        LET w == sym_calc_all(st, SymSeq)
        IN \A s \in Syms \ {ModulesSym} :
              /\ Stype(s) \in {"BOOLEAN", "TRISTATE"} /\ ~(s \in Z.choice /\ w.cur[s].val = NoVal) =>
                    w.cur[s].tri = RightTri(s, w)
              /\ s \in Z.choice /\ w.cur[s].tri = yes => RightMember(s, w)
              /\ Stype(s) \in {"INT", "HEX"} => InRange(s, w)

\* A file that conf_write saved gives every named symbol the value it had then
\* when the next session starts with it, or when it is loaded into a session
\* that goes on with it whatever was changed before (conf_read of confdata.c),
\* whatever the programs did to other files meanwhile.  Excepted is a file that
\* was saved after a rename had failed and nothing was changed since: conf_write
\* has cleared SYMBOL_WRITE then.  A file whose own rename fails is gone: the
\* next session starts without one.  A choice has no line: one that is m while
\* all its members are n is n in the next session.
RoundTrip == fresh => \A s \in Named : Values(st)[s] = saved[filename][s]

\* make rebuilds what depends on a symbol when its header is newer, and takes a
\* new auto.conf for the end of the work (confdata.c:777): when auto.conf is
\* replaced, the program that does so has renewed the header of every symbol
\* whose line changes, whatever programs before it left undone, and autoconf.h
\* says the same as auto.conf.  No other header is renewed, even by a program
\* that fails; but a symbol set to m has no line that the next run could find,
\* and is renewed every time.
HeadersFollow ==
    [][/\ auto' # auto =>
             /\ header' = auto'
             /\ \A s \in Named : Line(auto', s) # Line(auto, s) => s \in touched'
       /\ \A s \in touched' \ touched :
             \/ Line(AutoLines(st), s) # Line(auto, s)
             \/ Line(AutoLines(st), "CONFIG_" \o s) # {}]_vars
=============================================================================
