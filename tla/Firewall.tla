----------------------------- MODULE Firewall -----------------------------
(***************************************************************************)
(* The user level firewall, ufirewall/src/firewall.c: how the lines of     *)
(* ufw.rules become the list of rules, and what the list says about a      *)
(* bind or a connect of the program.                                       *)
(*                                                                         *)
(* A line is a record: its kind and the words for port, ip and mask; a     *)
(* word that is missing is Absent.  The word for a port is Star, a number  *)
(* or Junk; for an address it is an address or Junk.  An address is the    *)
(* set of its bits that are one.                                           *)
(***************************************************************************)
EXTENDS Naturals, Sequences, FiniteSets

CONSTANTS
    PORT,       \* number of values of a uint16_t, 2^16
    Bit,        \* the bits of an IPv4 address
    Absent, Star, Junk,
    Unset       \* what a variable holds before its first assignment

FW_PORT_ANY == 0
Port == 0 .. PORT - 1
Ip == {bits : bits \in SUBSET Bit}

Line == [kind : {"comment", "blank", "bind", "allow", "deny", "other"},
         port : Nat \cup {Absent, Star, Junk},
         ip : Ip \cup {Absent, Junk}, mask : Ip \cup {Absent, Junk}]

ASSUME FirewallAssumption ==
    /\ PORT \in Nat \ {0}
    /\ \A w \in {Absent, Star, Junk, Unset} : w \notin Nat \cup Ip
    /\ Absent # Star /\ Absent # Junk /\ Star # Junk /\ Unset \notin {Absent, Star, Junk}

VARIABLES
    file,       \* the lines of ufw.rules
    pos,        \* the line read next
    rules,      \* the list, first element first
    scratch     \* port, ip, mask and inp of firewall_parse

fvars == <<file, pos, rules, scratch>>

FirewallInit(lines) ==
    /\ file = lines /\ pos = 1
    /\ rules = <<>>
    /\ scratch = [port |-> Unset, ip |-> Unset, mask |-> Unset, inp |-> Unset]

-----------------------------------------------------------------------------
(* Definitions named ..._faulty are variants with a plausible mistake; no  *)
(* action uses them.  README.md says which property notices which.         *)

(* sscanf leaves a variable alone when there is no word for it.            *)
scanned(word, old) == IF word = Absent THEN old ELSE word

(* The numbers a word may be read as; an unset word is read as anything.   *)
atoi(word) ==
    CASE word = Unset -> Port
      [] word = Star  -> {FW_PORT_ANY}
      [] word = Junk  -> {0}
      [] OTHER        -> {word % PORT}

(* The addresses inp may hold after inet_aton: it is left alone when the   *)
(* word is no address.  The test for a negative result never succeeds.     *)
inet_aton(word, inp) ==
    CASE word = Unset -> Ip
      [] word = Junk  -> IF inp = Unset THEN Ip ELSE {inp}
      [] OTHER        -> {word}

parsed(line) ==
    [port |-> scanned(line.port, scratch.port),
     ip   |-> scanned(line.ip, scratch.ip),
     mask |-> scanned(line.mask, scratch.mask)]

Insert_tail_faulty(r) == rules' = rules \o <<r>>

Insert(r) == rules' = <<r>> \o rules

(* The turns of the loop of firewall_parse.                                *)
Reads(kinds) ==
    /\ pos <= Len(file) /\ file[pos].kind \in kinds
    /\ pos' = pos + 1
    /\ UNCHANGED file

SkipLine ==
    /\ Reads({"comment", "blank"})
    /\ UNCHANGED <<rules, scratch>>

BindLine ==
    /\ Reads({"bind"})
    /\ LET w == scanned(file[pos].port, scratch.port) IN
       /\ scratch' = [scratch EXCEPT !.port = w]
       /\ \E p \in atoi(w) : Insert([type |-> "bind", port |-> p, ip |-> {}, mask |-> {}])

ConnectLine_stale_ip_faulty ==
    /\ Reads({"allow", "deny"})
    /\ LET w == parsed(file[pos]) IN
       \E p \in atoi(w.port) : \E a \in inet_aton(scratch.ip, scratch.inp) : \E m \in inet_aton(w.mask, a) :
         /\ Insert([type |-> file[pos].kind, port |-> p, ip |-> a, mask |-> m])
         /\ scratch' = [port |-> w.port, ip |-> w.ip, mask |-> w.mask, inp |-> m]

ConnectLine ==
    /\ Reads({"allow", "deny"})
    /\ LET w == parsed(file[pos]) IN
       \E p \in atoi(w.port) : \E a \in inet_aton(w.ip, scratch.inp) : \E m \in inet_aton(w.mask, a) :
         /\ Insert([type |-> file[pos].kind, port |-> p, ip |-> a, mask |-> m])
         /\ scratch' = [port |-> w.port, ip |-> w.ip, mask |-> w.mask, inp |-> m]

ParseLine == SkipLine \/ BindLine \/ ConnectLine

(* An unknown line ends the parsing with -1; the end of the file with 0.   *)
ParseFails == pos <= Len(file) /\ file[pos].kind = "other"

ParseEnds == pos > Len(file)

-----------------------------------------------------------------------------
PortMatches(r, port) == r.port = FW_PORT_ANY \/ r.port = port

IpMatches(r, ip) == ip \cap r.ip = ip \cap r.mask

firewall_check_bind_first_faulty(port) ==
    \E i \in 1 .. Len(rules) :
        /\ rules[i].type = "bind" /\ PortMatches(rules[i], port)
        /\ \A j \in 1 .. i - 1 : rules[j].type # "bind"

firewall_check_bind(port) ==
    \E i \in 1 .. Len(rules) : rules[i].type = "bind" /\ PortMatches(rules[i], port)

(* The first rule of the list that matches decides.                        *)
Deciding(port, ip) ==
    {i \in 1 .. Len(rules) :
       /\ rules[i].type \in {"allow", "deny"}
       /\ IpMatches(rules[i], ip) /\ PortMatches(rules[i], port)}

firewall_check_connect(port, ip) ==
    \E i \in Deciding(port, ip) :
        /\ \A j \in Deciding(port, ip) : i <= j
        /\ rules[i].type = "allow"

(* A socket address: whether its length and family are those of IPv4.      *)
check_bind(a) == a.ipv4 => firewall_check_bind(a.port)

check_connect(a) == a.ipv4 => firewall_check_connect(a.port, a.ip)

syscall_monitor(rax, a) ==
    CASE rax = "bind"    -> check_bind(a)
      [] rax = "connect" -> check_connect(a)
      [] OTHER           -> TRUE

-----------------------------------------------------------------------------
(* Words that say what they mean.                                          *)
Complete(line) ==
    /\ line.port # Absent
    /\ line.kind \in {"allow", "deny"} => line.ip \in Ip /\ line.mask \in Ip

RuleLine(line) == line.kind \in {"bind", "allow", "deny"}

(* What a complete line says of a bind or a connect.                       *)
Says(line, rax, a) ==
    /\ line.kind \in IF rax = "bind" THEN {"bind"} ELSE {"allow", "deny"}
    /\ rax = "connect" => IpMatches(line, a.ip)
    /\ \E p \in atoi(line.port) : p = FW_PORT_ANY \/ p = a.port

(* The position in the list of the rule made of line j.                    *)
RuleOf(j) == Cardinality({k \in j .. pos - 1 : RuleLine(file[k])})

(* A rule holds the words of a line; a mask that is no address makes it    *)
(* match every address.                                                    *)
HoldsWords(r, line) ==
    /\ r.type = line.kind
    /\ line.port # Absent => r.port \in atoi(line.port)
    /\ line.kind # "bind" =>
         /\ line.ip \in Ip => r.ip = line.ip
         /\ line.mask \in Ip => r.mask = line.mask
         /\ line.mask = Junk => \A ip \in Ip : IpMatches(r, ip)

(* The words of a line end up in its own rule although the buffers they    *)
(* are read into outlive the line (firewall.c:57-60, 91, 99, 119).  A mask *)
(* that is no address becomes a copy of the ip, since inet_aton is taken   *)
(* to fail with a negative result (firewall.c:111, 131): such a rule       *)
(* matches every address.                                                  *)
OwnWords ==
    \A j \in 1 .. pos - 1 : RuleLine(file[j]) => HoldsWords(rules[RuleOf(j)], file[j])

-----------------------------------------------------------------------------
(* The types.                                                              *)
RuleRec == [type : {"bind", "allow", "deny"}, port : Port, ip : Ip, mask : Ip]

FirewallTypeOK ==
    /\ file \in Seq(Line) /\ pos \in 1 .. Len(file) + 1
    /\ rules \in Seq(RuleRec)
    /\ scratch \in [port : Nat \cup {Star, Junk, Unset}, ip : Ip \cup {Junk, Unset},
                    mask : Ip \cup {Junk, Unset}, inp : Ip \cup {Unset}]

(* Each rule of the list is that of one line, and the later line comes     *)
(* first.                                                                  *)
RulesInOrder ==
    /\ \A i \in DOMAIN rules : \E j \in 1 .. pos - 1 : RuleLine(file[j]) /\ RuleOf(j) = i
    /\ \A j \in 1 .. pos - 1 : RuleLine(file[j]) => RuleOf(j) \in DOMAIN rules
    /\ \A j, k \in 1 .. pos - 1 :
         j < k /\ RuleLine(file[j]) /\ RuleLine(file[k]) => RuleOf(k) < RuleOf(j)

(* The inductive invariant of the parser.                                  *)
FirewallInv == FirewallTypeOK /\ RulesInOrder /\ OwnWords
=============================================================================
