------------------------------ MODULE MCStart ------------------------------
(* An instance of Start for TLC.  Addresses have two bits and ports two;    *)
(* files of two of the lines below, and of three of the complete ones, are  *)
(* read by a sandbox without a program; programs run behind one file.       *)
EXTENDS Start

Str(n) == [i \in 1 .. n |-> "c"]

MCChar == {" ", "tab", "newline", "nul", "#", "!", "7f", "E", "L", "F", "c"}
MCSandbox == <<"F">>
MCLd == <<"L">>

Rule(kind, port, ip, mask) == [kind |-> kind, port |-> port, ip |-> ip, mask |-> mask]

MCLines ==
    {Rule("comment", Absent, Absent, Absent), Rule("other", Absent, Absent, Absent),
     Rule("bind", 1, Absent, Absent), Rule("bind", 3, Absent, Absent), Rule("bind", Absent, Absent, Absent),
     Rule("allow", Star, {1}, {1}), Rule("allow", 5, {}, {}), Rule("allow", 2, Absent, Absent),
     Rule("deny", 1, {}, {}), Rule("deny", Junk, {1}, {1, 2}), Rule("deny", Star, {2}, Junk),
     Rule("deny", 4, Junk, {1})}

Plain == {l \in MCLines : l.kind = "comment" \/ (RuleLine(l) /\ Complete(l))}

MCFiles == {<<a, b, c>> : a, b, c \in Plain} \cup {<<a, b>> : a, b \in MCLines} \cup {<<>>}

OneFile == <<Rule("blank", Absent, Absent, Absent), Rule("allow", Star, {1}, {1})>>

Cmd(f, a, e) == [file |-> f, argv |-> a, envv |-> e]

MCInputs ==
    {Cmd(f, <<Str(1)>>, <<>>) : f \in MCFiles}
    \cup {Cmd(OneFile, <<Str(1), Str(n)>> \o more, env) :
            n \in {0, 7, 15}, more \in {<<>>, <<Str(1), Str(2)>>}, env \in {<<>>, <<Str(7)>>}}

Ph(type, vaddr, memsz, filesz) ==
    [p_type |-> type, p_vaddr |-> vaddr, p_memsz |-> memsz, p_filesz |-> filesz]

MCElfs ==
    {[e_type |-> t, ph |-> <<Ph("other", 0, 0, 0), Ph("LOAD", v, n, 1)>>] :
        t \in {"EXEC", "DYN"}, v \in {2, WORD - 1}, n \in {1, 2, WORD - 2}}
    \cup {[e_type |-> "EXEC", ph |-> <<Ph("INTERP", 0, 1, 1)>>],
          [e_type |-> "EXEC", ph |-> <<Ph("LOAD", 0, 1, 1), Ph("LOAD", 2, 1, 2)>>],
          [e_type |-> "EXEC", ph |-> <<Ph("LOAD", 0, 1, 0), Ph("LOAD", 2, 2, 2)>>]}

Line3 == {" ", "newline", "nul", "c"}

MCTexts ==
    {<<>>, <<"c">>, <<"c", "c">>, <<"7f", "E", "L", "F">>, <<"7f", "E", "L", "c">>, <<"c", "!", "c", "newline">>}
    \cup {<<"#", "!">> \o t : t \in UNION {[1 .. n -> Line3] : n \in 0 .. 3}}
    \cup {<<"#", "!", "c", " ", "c", "newline", "c">>, <<"#", "!", "c", "c", "c", "c">>}
MCFilename == Str(2)
MCArgvs == {<<>>, <<Str(1), Str(0)>>}
============================================================================
