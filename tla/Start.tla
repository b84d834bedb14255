------------------------------- MODULE Start -------------------------------
(***************************************************************************)
(* The life of a sandboxed process from main to the first instruction of   *)
(* the program and through execve: firewall.c reads its rules and calls    *)
(* boxer_main (main.c), which loads the program and enters it; an execve   *)
(* of the program (exec.c) forks a child that starts ./sandbox on a new    *)
(* command line, and so boxer_main again.                                  *)
(***************************************************************************)
EXTENDS Firewall, Exec, Boot

CONSTANTS
    Inputs,     \* rules, command line and environment: [file, argv, envv]
    Elfs,       \* the ELF files
    Texts,      \* the beginnings of the files the program passes to execve
    Filename,   \* their name
    Argvs,      \* the arguments it passes along
    MaxExec     \* bound: calls of execve that succeed

(* What process_elf_ph reads of a file: its type and its program headers.  *)
ElfFile ==
    [e_type : {"EXEC", "DYN", "other"},
     ph : Seq([p_type : {"LOAD", "INTERP", "other"}, p_vaddr : 0 .. WORD - 1,
               p_memsz : 0 .. WORD - 1, p_filesz : 0 .. WORD - 1])]

ASSUME StartAssumption ==
    /\ \A i \in Inputs : i.file \in Seq(Line) /\ i.argv \in Seq(Seq(Char)) /\ i.envv \in Seq(Seq(Char))
    /\ \A e \in Elfs : e \in ElfFile
    /\ Texts \subseteq Seq(Char) /\ Filename \in Seq(Char) /\ Argvs \subseteq Seq(Seq(Char))
    /\ MaxExec \in Nat

NoElf == [e_type |-> "other", ph |-> <<>>]
NoCall == [text |-> <<>>, argv |-> <<>>]

VARIABLES
    stage,      \* how far the process has come
    readerr,    \* reading ufw.rules failed
    argv, envv, \* the command line and the environment of the process
    elf, next,  \* the program and the next of its headers
    mem,        \* the addresses that segments were loaded to
    app,        \* the arguments the program finds on its stack
    call,       \* history: the execve that started the process
    execs       \* number of calls of execve that succeeded

bvars == <<elf, next, mem, app>>
svars == <<fvars, stage, readerr, argv, envv, bvars, call, execs>>

StartInit ==
    /\ \E i \in Inputs : FirewallInit(i.file) /\ argv = i.argv /\ envv = i.envv
    /\ stage = "parse"
    /\ readerr = FALSE
    /\ elf = NoElf /\ next = 1 /\ mem = {} /\ app = <<>>
    /\ call = NoCall /\ execs = 0

-----------------------------------------------------------------------------
Goto(s) == stage' = s

(* main of firewall.c.                                                     *)
Parse ==
    /\ stage = "parse"
    /\ ParseLine
    /\ UNCHANGED <<stage, readerr, argv, envv, bvars, call, execs>>

(* There is an unknown line in ufw.rules.                                  *)
CannotParse_ignored_faulty ==
    /\ stage = "parse"
    /\ ParseFails
    /\ Goto("boxer")
    /\ UNCHANGED <<fvars, readerr, argv, envv, bvars, call, execs>>

CannotParse ==
    /\ stage = "parse"
    /\ ParseFails
    /\ Goto("exit")
    /\ UNCHANGED <<fvars, readerr, argv, envv, bvars, call, execs>>

(* fopen fails; fgets returns NULL for an error as for the end of the      *)
(* file.                                                                   *)
OpenError ==
    /\ stage = "parse" /\ pos = 1
    /\ Goto("exit")
    /\ UNCHANGED <<fvars, readerr, argv, envv, bvars, call, execs>>

ReadError ==
    /\ stage = "parse"
    /\ ~ParseEnds
    /\ readerr' = TRUE
    /\ Goto("boxer")
    /\ UNCHANGED <<fvars, argv, envv, bvars, call, execs>>

Parsed ==
    /\ stage = "parse"
    /\ ParseEnds
    /\ Goto("boxer")
    /\ UNCHANGED <<fvars, readerr, argv, envv, bvars, call, execs>>

(* boxer_main up to load_elf; dune_init and dune_enter may fail.           *)
boxer_main ==
    /\ stage = "boxer"
    /\ \/ Len(argv) >= 2 /\ Goto("open")
       \/ Goto("exit")
    /\ UNCHANGED <<fvars, readerr, argv, envv, bvars, call, execs>>

(* load_elf opens the program, which may be missing or of another type.    *)
load_elf ==
    /\ stage = "open"
    /\ \/ /\ elf' \in {e \in Elfs : e.e_type \in {"EXEC", "DYN"}}
          /\ next' = 1 /\ mem' = {}
          /\ Goto("load")
       \/ /\ Goto("exit")
          /\ UNCHANGED <<elf, next, mem>>
    /\ UNCHANGED <<fvars, readerr, argv, envv, app, call, execs>>

SkipHeader ==
    /\ stage = "load" /\ next <= Len(elf.ph)
    /\ elf.ph[next].p_type = "other"
    /\ next' = next + 1
    /\ UNCHANGED <<fvars, stage, readerr, argv, envv, elf, mem, app, call, execs>>

LoadSegment ==
    /\ stage = "load" /\ next <= Len(elf.ph)
    /\ elf.ph[next].p_type = "LOAD"
    /\ ~insecure(elf, elf.ph[next])
    /\ host_loads(elf, elf.ph[next])
    /\ mem' = mem \cup Segment(elf, elf.ph[next])
    /\ next' = next + 1
    /\ UNCHANGED <<fvars, stage, readerr, argv, envv, elf, app, call, execs>>

(* An .interp or an insecure segment, or mapping, loading or protecting    *)
(* it fails, perhaps after it has been loaded.                             *)
LoadFails ==
    /\ stage = "load" /\ next <= Len(elf.ph)
    /\ elf.ph[next].p_type # "other"
    /\ \/ UNCHANGED mem
       \/ /\ elf.ph[next].p_type = "LOAD"
          /\ ~insecure(elf, elf.ph[next]) /\ host_loads(elf, elf.ph[next])
          /\ mem' = mem \cup Segment(elf, elf.ph[next])
    /\ Goto("exit")
    /\ UNCHANGED <<fvars, readerr, argv, envv, elf, next, app, call, execs>>

(* trap_init, umm_alloc_stack and setup_arguments; then run_app.           *)
RunApp ==
    /\ stage = "load" /\ next > Len(elf.ph)
    /\ \/ /\ app' = app_argv(argv[2], SubSeq(argv, 3, Len(argv)), envv)
          /\ Goto("run")
       \/ Goto("exit") /\ UNCHANGED app
    /\ UNCHANGED <<fvars, readerr, argv, envv, elf, next, mem, call, execs>>

-----------------------------------------------------------------------------
(* exec_execev.  The parent exits and the child goes on as ./sandbox,      *)
(* whose monitor has no rules and allows every call (nullsandbox.c:7-16).  *)
exec_execev(text, rest, args) ==
    LET p == page(text, rest) IN
    /\ stage = "run" /\ execs < MaxExec
    /\ ~too_short(text) /\ ~noexec(p)
    /\ argv' = new_argv(p, Filename, args)
    /\ call' = [text |-> text, argv |-> args]
    /\ execs' = execs + 1
    /\ file' = <<>> /\ pos' = 1 /\ rules' = <<>> /\ scratch' = scratch
    /\ readerr' = FALSE
    /\ elf' = NoElf /\ next' = 1 /\ mem' = {} /\ app' = <<>>
    /\ Goto("boxer")
    /\ UNCHANGED envv

(* fork fails in the parent or execve in the child, where the assertion    *)
(* ends it; the program ends, or any other call that fails.                *)
AppEnds ==
    /\ stage = "run"
    /\ Goto("exit")
    /\ UNCHANGED <<fvars, readerr, argv, envv, bvars, call, execs>>

StartNext ==
    \/ Parse \/ CannotParse \/ Parsed \/ OpenError \/ ReadError
    \/ boxer_main \/ load_elf \/ SkipHeader \/ LoadSegment \/ LoadFails \/ RunApp
    \/ \E text \in Texts, rest \in Char, args \in Argvs : exec_execev(text, rest, args)
    \/ AppEnds

StartSpec == StartInit /\ [][StartNext]_svars

-----------------------------------------------------------------------------
(* IPv4 addresses a program may bind or connect to.                        *)
Sockaddr == [ipv4 : {TRUE}, port : Port, ip : Ip]

(* The last line of ufw.rules that matches a connect decides, and without  *)
(* one it is denied, whatever incomplete lines precede it: rules are put   *)
(* in front of the list (firewall.c:144) and the first match in the list   *)
(* wins (firewall.c:174-194).                                              *)
LastLineDecides ==
    execs = 0 => \A a \in Sockaddr :
        /\ \A j \in 1 .. pos - 1 :
             (/\ \A k \in j .. pos - 1 : RuleLine(file[k]) => Complete(file[k])
              /\ Says(file[j], "connect", a)
              /\ \A k \in j + 1 .. pos - 1 : ~Says(file[k], "connect", a))
                => (syscall_monitor("connect", a) <=> file[j].kind = "allow")
        /\ (\A k \in 1 .. pos - 1 :
              RuleLine(file[k]) => Complete(file[k]) /\ ~Says(file[k], "connect", a))
                => ~syscall_monitor("connect", a)

(* A bind is allowed just when some line names its port, in any order of   *)
(* bind and connect lines, where a word that atoi reads as a multiple of   *)
(* 65536 names every port (firewall.c:93-96, 157-167).  The port of a line *)
(* without a word is that of an earlier line.                              *)
BindsAsListed ==
    execs = 0 => \A a \in Sockaddr :
        (\A k \in 1 .. pos - 1 : RuleLine(file[k]) => Complete(file[k])) =>
            (syscall_monitor("bind", a) <=> \E j \in 1 .. pos - 1 : Says(file[j], "bind", a))

(* The program never runs behind a part of its rules: an unknown line ends *)
(* the process (firewall.c:138-141, 266-269), and nothing but an error     *)
(* while reading makes firewall_parse return 0 early.                      *)
AllRulesRead ==
    stage \notin {"parse", "exit"} /\ ~readerr =>
        /\ pos = Len(file) + 1
        /\ \A j \in 1 .. Len(file) : file[j].kind # "other"

(* A segment is loaded only below APP_MAX_ELF_VADDR, for headers whose     *)
(* sums wrap around, too (main.c:40-45): what Umm assumes of the loader.   *)
LoadedInside == mem \subseteq 0 .. APP_MAX_ELF_VADDR - 1

(* The program finds its command line on the stack (main.c:201-262),       *)
(* except that the strings that begin in their first eight bytes are lost  *)
(* when the padding is too short for the end of the aux vector, for which  *)
(* no space is counted (main.c:198, 222).                                  *)
ArgumentsArrive ==
    stage = "run" =>
        LET strs == Tail(argv) IN
        /\ Len(app) = Len(strs)
        /\ \A k \in 1 .. Len(strs) :
             bytes(SubSeq(strs, 1, k - 1)) >= WORDSIZE => app[k] = strs[k]
        /\ padding(Len(strs) - 1, Len(envv), bytes(strs \o envv)) >= WORDSIZE => app = strs

(* The first line of a script behind "#!", and how the comment in          *)
(* exec.c:95-103 reads it: an interpreter and at most one argument, which  *)
(* is the rest of the line.                                                *)
HasFirstLine(text) ==
    \E k \in 3 .. Len(text) :
        k <= EXECPGSIZE /\ text[k] = "newline" /\ \A j \in 3 .. k : text[j] # "nul"

FirstLine(text) ==
    LET end == CHOOSE k \in 3 .. Len(text) :
                 text[k] = "newline" /\ \A j \in 3 .. k - 1 : text[j] # "newline"
    IN  SubSeq(text, 3, end - 1)

Words(line) ==
    LET n == Len(line) + 1
        a == CHOOSE i \in 1 .. n : (i = n \/ line[i] \notin blank) /\ \A j \in 1 .. i - 1 : line[j] \in blank
        b == CHOOSE i \in a .. n : (i = n \/ line[i] \in blank) /\ \A j \in a .. i - 1 : line[j] \notin blank
    IN  <<SubSeq(line, a, b - 1)>> \o IF b = n THEN <<>> ELSE <<SubSeq(line, b + 1, n - 1)>>

(* A script with a complete first line is run by the interpreter named     *)
(* there, with the rest of the line as one argument, followed by the name  *)
(* of the script and all arguments of execve, the name of the program in   *)
(* argv[0] included (exec.c:105-150).                                      *)
ScriptCommand ==
    (execs > 0 /\ SubSeq(call.text, 1, 2) = <<"#", "!">> /\ HasFirstLine(call.text)) =>
        argv = <<sandbox_path, ld_path>> \o Words(FirstLine(call.text)) \o <<Filename>> \o call.argv

(* A file shorter than the buffer never makes exec_execev write behind the *)
(* buffer, whatever that held before: the zero after the last character    *)
(* stops every loop (exec.c:48-49, 105-134).                               *)
BufferKept ==
    execs > 0 /\ stage = "boxer" /\ Len(call.text) < EXECPGSIZE =>
        \A rest \in Char : ~overrun(page(call.text, rest))

-----------------------------------------------------------------------------
StartTypeOK ==
    /\ stage \in {"parse", "boxer", "open", "load", "run", "exit"}
    /\ argv \in Seq(Seq(Char)) /\ envv \in Seq(Seq(Char))
    /\ elf \in ElfFile /\ next \in Nat \ {0}
    /\ execs \in Nat

(* What has been read so far holds no unknown line, and all has been read  *)
(* when the program is started without an error.                           *)
ReadSoFar ==
    /\ \A j \in 1 .. pos - 1 : file[j].kind # "other"
    /\ stage \notin {"parse", "exit"} /\ ~readerr => pos = Len(file) + 1
    /\ execs > 0 => rules = <<>> /\ file = <<>>

(* The stack is laid out for a command line that names a program.          *)
StackMade ==
    /\ stage \in {"open", "load", "run"} => Len(argv) >= 2
    /\ stage = "run" => app = app_argv(argv[2], SubSeq(argv, 3, Len(argv)), envv)

(* The command line after execve is what exec_execev made of the file.     *)
CommandMade ==
    execs > 0 =>
        /\ call.text \in Texts /\ call.argv \in Argvs /\ ~too_short(call.text)
        /\ \E rest \in Char : /\ ~noexec(page(call.text, rest))
                              /\ argv = new_argv(page(call.text, rest), Filename, call.argv)

(* The inductive invariant behind the properties above.                    *)
StartInv ==
    FirewallInv /\ StartTypeOK /\ ReadSoFar /\ LoadedInside /\ StackMade /\ CommandMade
=============================================================================
