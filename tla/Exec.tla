------------------------------- MODULE Exec -------------------------------
(***************************************************************************)
(* execve in the sandbox, sandbox/src/exec.c: which command line a file    *)
(* gives.  A file is the sequence of its first characters; all strings are *)
(* sequences of characters.                                                *)
(***************************************************************************)
EXTENDS Naturals, Sequences

CONSTANTS
    EXECPGSIZE,     \* bytes of a file that are read
    Char,           \* characters, among them those named below
    sandbox_path,
    ld_path

blank == {" ", "tab"}

ASSUME ExecAssumption ==
    /\ EXECPGSIZE \in Nat /\ EXECPGSIZE > 4
    /\ blank \cup {"newline", "nul", "#", "!", "7f", "E", "L", "F"} \subseteq Char
    /\ sandbox_path \in Seq(Char) /\ ld_path \in Seq(Char)

(* Definitions named ..._faulty are variants with a plausible mistake; no  *)
(* action uses them.  README.md says which property notices which.         *)

page_unterminated_faulty(text, rest) ==
    [i \in 0 .. EXECPGSIZE |-> IF i < Len(text) /\ i < EXECPGSIZE THEN text[i + 1] ELSE rest]

(* The buffer after the file has been read.  Bytes behind the terminator,  *)
(* and the byte behind the buffer, hold whatever was there: rest.          *)
page(text, rest) ==
    [i \in 0 .. EXECPGSIZE |->
       CASE i < Len(text) /\ i < EXECPGSIZE -> text[i + 1]
         [] i = Len(text) /\ i < EXECPGSIZE -> "nul"
         [] OTHER -> rest]

is_elf(p) == p[0] = "7f" /\ p[1] = "E" /\ p[2] = "L" /\ p[3] = "F"
is_script(p) == p[0] = "#" \/ p[1] = "!"

(* Where a loop from i stops: at the first character in stop, or at the    *)
(* end of the buffer.                                                      *)
StopAt(p, i, stop) ==
    CHOOSE k \in i .. EXECPGSIZE :
        /\ k = EXECPGSIZE \/ p[k] \in stop
        /\ \A j \in i .. k - 1 : p[j] \notin stop

Between(p, a, b) == [i \in 1 .. b - a |-> p[a + i - 1]]

interp_begin(p) == StopAt(p, 2, Char \ blank)
interp_end(p) == StopAt(p, interp_begin(p), blank \cup {"newline", "nul"})

no_interp(p) == interp_begin(p) = interp_end(p)

no_args(p) == p[interp_end(p)] = "newline"

arg_begin_early_faulty(p) == interp_end(p)

(* The argument string starts behind the character that ends the name of   *)
(* the interpreter, even if that is the end of the file: then it consists  *)
(* of whatever follows in memory.                                          *)
arg_begin(p) == interp_end(p) + 1

arg_end(p) == StopAt(p, interp_end(p), {"newline", "nul"})
arg_unset(p) == ~no_args(p) /\ arg_end(p) < arg_begin(p)

Unknown(p) == <<p[EXECPGSIZE]>>

argstring(p) == IF arg_unset(p) THEN Unknown(p) ELSE Between(p, arg_begin(p), arg_end(p))

elf_argv(argv) == <<sandbox_path, ld_path>> \o argv

script_argv(p, filename, argv) ==
    <<sandbox_path, ld_path, Between(p, interp_begin(p), interp_end(p))>>
        \o (IF no_args(p) THEN <<>> ELSE <<argstring(p)>>)
        \o <<filename>> \o argv

(* Too short, or neither an ELF file nor a script with an interpreter.     *)
too_short(text) == Len(text) < 2

noexec(p) == ~is_elf(p) /\ (is_script(p) => no_interp(p))

new_argv(p, filename, argv) ==
    IF is_elf(p) THEN elf_argv(argv) ELSE script_argv(p, filename, argv)

(* page[i] = 0 behind the buffer: the end of the name or of the argument   *)
(* has not been found in it.                                               *)
overrun(p) ==
    /\ ~is_elf(p) /\ ~noexec(p)
    /\ interp_end(p) = EXECPGSIZE \/ (~no_args(p) /\ arg_end(p) = EXECPGSIZE)
=============================================================================
