---------------------------- MODULE StartProofs ----------------------------
(***************************************************************************)
(* Proof that a sandboxed process is started as its rules, its ELF file    *)
(* and its command line say, for every rules file, ELF file, script and    *)
(* command line that satisfies the assumptions: the parser of ufw.rules    *)
(* first, then the loader and the layout of the stack, then execve.        *)
(***************************************************************************)
EXTENDS Start, FiniteSetTheorems, SequenceTheorems, TLAPS

-----------------------------------------------------------------------------
(* A set of numbers between a and b that is not empty has a least element. *)
LEMMA LeastElement ==
  ASSUME NEW a \in Nat, NEW b \in Nat, NEW S, S \subseteq a .. b, S # {}
  PROVE  \E k \in S : \A j \in S : k <= j
<1> DEFINE U == a .. b
           T == {a .. x : x \in S}
<1>1. IsFiniteSet(U)
  BY FS_Interval
<1>2. FiniteSubsetsOf(U) = SUBSET U
  BY <1>1, FS_FiniteSubsetsOfFinite
<1>3. IsWellFoundedOn(StrictSubsetOrdering(U), SUBSET U)
  BY <1>2, FS_StrictSubsetOrderingWellFounded, Zenon
<1>4. T \subseteq SUBSET U /\ T # {}
  <2>1. \A x \in S : a .. x \subseteq U
    OBVIOUS
  <2> QED
    BY <2>1, Zenon
<1>5. PICK m \in T : \A y \in T : ~(<<y, m>> \in StrictSubsetOrdering(U))
  BY <1>3, <1>4, WFMin, Zenon
<1>6. PICK x \in S : m = a .. x
  BY <1>5
<1>7. ASSUME NEW y \in S PROVE x <= y
  <2>1. SUFFICES ASSUME y < x PROVE FALSE
    BY <1>6, <1>7
  <2>2. a .. y \in T /\ a .. y \in SUBSET U /\ m \in SUBSET U
    BY <1>4, <1>5, <1>7
  <2>3. a .. y \subseteq m
    BY <2>1, <1>6
  <2>4. x \in m /\ x \notin a .. y
    BY <2>1, <1>6
  <2>5. <<a .. y, m>> \in StrictSubsetOrdering(U)
    <3>1. a .. y # m
      BY <2>4
    <3> QED
      BY <2>2, <2>3, <3>1 DEF StrictSubsetOrdering
  <2> QED
    BY Zenon, <1>5, <2>2, <2>5
<1> QED
  BY <1>6, <1>7

(* Division with remainder, stated over a variable divisor.                *)
LEMMA DivMod ==
  ASSUME NEW P \in Nat, P > 0, NEW a \in Int
  PROVE  /\ a = P * (a \div P) + (a % P)
         /\ a % P \in 0 .. P - 1 /\ a \div P \in Int
  OBVIOUS

(* A sum may be reduced in two steps.                                      *)
LEMMA ModSum ==
  ASSUME NEW P \in Nat, P > 0, NEW x \in Nat, NEW n \in Nat, (x % P) + n < P
  PROVE  (x + n) % P = (x % P) + n
<1> DEFINE q == x \div P  r == x % P  s == (x + n) \div P  t == (x + n) % P
<1>1. q \in Int /\ r \in 0 .. P - 1 /\ x = P * q + r
  BY DivMod
<1>2. s \in Int /\ t \in 0 .. P - 1 /\ x + n = P * s + t
  <2>1. x + n \in Int
    OBVIOUS
  <2> QED
    BY <2>1, DivMod
<1>0. r + n < P
  OBVIOUS
<1> HIDE DEF q, r, s, t
<1>3. P * (s - q) = r + n - t
  BY <1>1, <1>2
<1>4. CASE s - q >= 1
  <2>1. P * (s - q) >= P
    BY <1>1, <1>2, <1>4
  <2> QED
    BY <1>0, <1>1, <1>2, <1>3, <2>1
<1>5. CASE s - q <= -1
  <2>1. P * (s - q) <= -P
    BY <1>1, <1>2, <1>5
  <2> QED
    BY <1>0, <1>1, <1>2, <1>3, <2>1
<1>6. s = q
  BY <1>1, <1>2, <1>4, <1>5
<1>7. t = r + n
  BY <1>1, <1>2, <1>6
<1> QED
  BY <1>7 DEF t, r

-----------------------------------------------------------------------------
(* A sequence and a first element.                                         *)
LEMMA ConsSeq ==
  ASSUME NEW S, NEW s \in Seq(S), NEW r \in S
  PROVE  LET t == <<r>> \o s IN
         /\ t \in Seq(S) /\ Len(t) = Len(s) + 1 /\ t[1] = r /\ DOMAIN t = 1 .. Len(s) + 1
         /\ DOMAIN s = 1 .. Len(s) /\ Len(s) \in Nat
         /\ \A i \in DOMAIN s : i + 1 \in DOMAIN t /\ t[i + 1] = s[i]
  OBVIOUS

LEMMA SeqType ==
  ASSUME NEW S, NEW s \in Seq(S)
  PROVE  Len(s) \in Nat /\ DOMAIN s = 1 .. Len(s) /\ \A i \in 1 .. Len(s) : s[i] \in S
  OBVIOUS

LEMMA SubType ==
  ASSUME NEW S, NEW s \in Seq(S), NEW m \in Nat, NEW n \in Nat, 0 < m, m <= n + 1, n <= Len(s)
  PROVE  /\ SubSeq(s, m, n) \in Seq(S) /\ Len(SubSeq(s, m, n)) = n + 1 - m
         /\ \A i \in 1 .. n + 1 - m : SubSeq(s, m, n)[i] = s[m + i - 1]
<1>1. m \in Int /\ n \in Int /\ \A i \in m .. n : s[i] \in S
  OBVIOUS
<1> DEFINE t == SubSeq(s, m, n)
<1>2. /\ t \in Seq(S) /\ Len(t) = (IF m <= n THEN n - m + 1 ELSE 0)
      /\ \A i \in 1 .. n - m + 1 : t[i] = s[m + i - 1]
  BY <1>1, SubSeqProperties
<1> HIDE DEF t
<1>3. n + 1 - m = n - m + 1 /\ (~(m <= n) => n - m + 1 = 0)
  OBVIOUS
<1>4. Len(t) = n - m + 1
  BY <1>2, <1>3
<1> QED
  BY <1>2, <1>3, <1>4, Zenon DEF t

(* The words of a line, and what the variables of the parser hold.         *)
LEMMA Words1 ==
  /\ Absent \notin Nat \cup Ip /\ Star \notin Nat \cup Ip /\ Junk \notin Nat \cup Ip /\ Unset \notin Nat \cup Ip
  /\ Absent # Star /\ Absent # Junk /\ Star # Junk /\ Unset # Absent /\ Unset # Star /\ Unset # Junk
  BY FirewallAssumption, Zenon

(* One more line: the rules made so far move up by one if it makes a rule. *)
LEMMA RuleOfNext ==
  ASSUME FirewallTypeOK, NEW n, n = pos, pos <= Len(file), pos' = pos + 1, file' = file
  PROVE  /\ n \in Nat /\ 1 .. pos' - 1 = (1 .. pos - 1) \cup {n} /\ n \notin 1 .. pos - 1
         /\ \A j \in 1 .. pos - 1 :
              /\ RuleOf(j) \in Nat
              /\ RuleLine(file[n]) => RuleOf(j)' = RuleOf(j) + 1
              /\ ~RuleLine(file[n]) => RuleOf(j)' = RuleOf(j)
         /\ RuleLine(file[n]) => RuleOf(n)' = 1
<1>1. pos \in Nat /\ pos >= 1
  BY DEF FirewallTypeOK
<1>2. 1 .. pos' - 1 = (1 .. pos - 1) \cup {n} /\ n \in Nat /\ n \notin 1 .. pos - 1
  BY <1>1
<1>3. ASSUME NEW j \in 1 .. pos - 1
      PROVE  /\ RuleOf(j) \in Nat
             /\ RuleLine(file[n]) => RuleOf(j)' = RuleOf(j) + 1
             /\ ~RuleLine(file[n]) => RuleOf(j)' = RuleOf(j)
  <2> DEFINE A == {k \in j .. pos - 1 : RuleLine(file[k])}
             B == {k \in j .. n : RuleLine(file[k])}
  <2>1. RuleOf(j) = Cardinality(A) /\ RuleOf(j)' = Cardinality(B)
    <3>1. pos' - 1 = n
      BY <1>1
    <3> QED
      BY <3>1, Zenon DEF RuleOf, RuleLine
  <2>2. IsFiniteSet(A) /\ Cardinality(A) \in Nat
    <3>1. IsFiniteSet(j .. pos - 1)
      BY <1>1, FS_Interval
    <3>2. A \in SUBSET (j .. pos - 1)
      BY Zenon
    <3> QED
      BY <3>1, <3>2, FS_Subset, FS_CardinalityType, Zenon
  <2>3. n \notin A /\ B = (IF RuleLine(file[n]) THEN A \cup {n} ELSE A)
    BY <1>1, <1>3
  <2> HIDE DEF A, B
  <2>4. Cardinality(A \cup {n}) = Cardinality(A) + 1
    BY <2>2, <2>3, FS_AddElement, Zenon
  <2> QED
    BY <2>1, <2>2, <2>3, <2>4, Zenon
<1>4. ASSUME RuleLine(file[n]) PROVE RuleOf(n)' = 1
  <2> DEFINE B == {k \in n .. n : RuleLine(file[k])}
  <2>1. RuleOf(n)' = Cardinality(B)
    <3>1. pos' - 1 = n
      BY <1>1
    <3> QED
      BY <3>1, Zenon DEF RuleOf, RuleLine
  <2>2. B = {n}
    BY <1>1, <1>4
  <2>3. Cardinality({n}) = 1
    BY FS_Singleton, Zenon
  <2> QED
    BY <2>1, <2>2, <2>3, Zenon
<1> QED
  BY <1>2, <1>3, <1>4, Zenon

(* A line that makes no rule.                                              *)
LEMMA SkipInv ==
  ASSUME FirewallInv, SkipLine
  PROVE  FirewallInv'
<1>1. /\ pos <= Len(file) /\ file[pos].kind \in {"comment", "blank"} /\ pos' = pos + 1
      /\ file' = file /\ rules' = rules /\ scratch' = scratch
  BY DEF SkipLine, Reads
<1>2. PICK n : n = pos
  OBVIOUS
<1>3. ~RuleLine(file[n])
  BY <1>1, <1>2 DEF RuleLine
<1>4. /\ 1 .. pos' - 1 = (1 .. pos - 1) \cup {n}
      /\ \A j \in 1 .. pos - 1 : RuleOf(j)' = RuleOf(j)
  BY <1>1, <1>2, <1>3, RuleOfNext, Zenon DEF FirewallInv
<1>5. FirewallTypeOK'
  BY <1>1 DEF FirewallInv, FirewallTypeOK
<1>6. \A j \in 1 .. pos' - 1 : RuleLine(file[j]) => j \in 1 .. pos - 1
  BY <1>3, <1>4, Zenon
<1>7. RulesInOrder'
  <2>1. \A i \in DOMAIN rules' : \E j \in 1 .. pos' - 1 : RuleLine(file'[j]) /\ RuleOf(j)' = i
    BY <1>1, <1>4, Zenon DEF FirewallInv, RulesInOrder
  <2>2. \A j \in 1 .. pos' - 1 : RuleLine(file'[j]) => RuleOf(j)' \in DOMAIN rules'
    BY <1>1, <1>4, <1>6, Zenon DEF FirewallInv, RulesInOrder
  <2>3. ASSUME NEW j \in 1 .. pos' - 1, NEW k \in 1 .. pos' - 1,
               j < k, RuleLine(file'[j]), RuleLine(file'[k])
        PROVE  RuleOf(k)' < RuleOf(j)'
    <3>1. j \in 1 .. pos - 1 /\ k \in 1 .. pos - 1 /\ RuleLine(file[j]) /\ RuleLine(file[k])
      BY <1>1, <1>6, <2>3, Zenon
    <3>2. RuleOf(k) < RuleOf(j)
      BY <2>3, <3>1, Zenon DEF FirewallInv, RulesInOrder
    <3>3. RuleOf(j)' = RuleOf(j) /\ RuleOf(k)' = RuleOf(k)
      BY <1>4, <3>1, Zenon
    <3> HIDE DEF RuleOf
    <3> QED
      BY <3>2, <3>3
  <2> QED
    BY <2>1, <2>2, <2>3, Zenon DEF RulesInOrder, RuleLine
<1>8. OwnWords'
  <2> SUFFICES ASSUME NEW j \in 1 .. pos' - 1, RuleLine(file'[j])
               PROVE  HoldsWords(rules'[RuleOf(j)'], file'[j])
    BY Zenon DEF OwnWords, RuleLine, HoldsWords, IpMatches, atoi, Port, FW_PORT_ANY, Ip
  <2>1. j \in 1 .. pos - 1 /\ RuleLine(file[j])
    BY <1>1, <1>6, Zenon
  <2>2. HoldsWords(rules[RuleOf(j)], file[j])
    BY <2>1, Zenon DEF FirewallInv, OwnWords
  <2> QED
    BY <1>1, <1>4, <2>1, <2>2, Zenon
<1> QED
  BY <1>5, <1>7, <1>8 DEF FirewallInv


(* A line that makes a rule: the rule goes to the head of the list.        *)
LEMMA InsertInv ==
  ASSUME FirewallInv, pos <= Len(file), pos' = pos + 1, file' = file,
         NEW r \in RuleRec, Insert(r), RuleLine(file[pos]), HoldsWords(r, file[pos]),
         scratch' \in [port : Nat \cup {Star, Junk, Unset}, ip : Ip \cup {Junk, Unset},
                       mask : Ip \cup {Junk, Unset}, inp : Ip \cup {Unset}]
  PROVE  FirewallInv'
<1>1. rules' = <<r>> \o rules /\ rules \in Seq(RuleRec)
  BY DEF Insert, FirewallInv, FirewallTypeOK
<1>2. /\ rules' \in Seq(RuleRec) /\ Len(rules) \in Nat /\ rules'[1] = r
      /\ DOMAIN rules' = 1 .. Len(rules) + 1 /\ DOMAIN rules = 1 .. Len(rules)
      /\ \A i \in DOMAIN rules : i + 1 \in DOMAIN rules' /\ rules'[i + 1] = rules[i]
  <2> DEFINE t == <<r>> \o rules
  <2>1. /\ t \in Seq(RuleRec) /\ Len(rules) \in Nat /\ t[1] = r
        /\ DOMAIN t = 1 .. Len(rules) + 1 /\ DOMAIN rules = 1 .. Len(rules)
        /\ \A i \in DOMAIN rules : i + 1 \in DOMAIN t /\ t[i + 1] = rules[i]
    BY <1>1, ConsSeq
  <2> HIDE DEF t
  <2>2. rules' = t
    BY <1>1 DEF t
  <2> QED
    BY <2>1, <2>2, Zenon
<1>3. PICK n : n = pos
  OBVIOUS
<1>4. /\ n \in Nat /\ 1 .. pos' - 1 = (1 .. pos - 1) \cup {n}
      /\ \A j \in 1 .. pos - 1 : RuleOf(j) \in Nat /\ RuleOf(j)' = RuleOf(j) + 1
      /\ RuleOf(n)' = 1
  BY <1>3, RuleOfNext, Zenon DEF FirewallInv
<1>5. FirewallTypeOK'
  <2>1. pos' \in 1 .. Len(file') + 1
    BY DEF FirewallInv, FirewallTypeOK
  <2> QED
    BY <1>2, <2>1, Zenon DEF FirewallInv, FirewallTypeOK, RuleRec, Line, Port, Ip
<1>6. ASSUME NEW j \in 1 .. pos - 1, RuleLine(file[j])
      PROVE  RuleOf(j) \in DOMAIN rules
  BY <1>6, Zenon DEF FirewallInv, RulesInOrder
<1>7. RulesInOrder'
  <2>1. ASSUME NEW i \in DOMAIN rules'
        PROVE  \E j \in 1 .. pos' - 1 : RuleLine(file'[j]) /\ RuleOf(j)' = i
    <3>1. CASE i = 1
      BY <3>1, <1>3, <1>4, Zenon
    <3>2. CASE i # 1
      <4>1. i - 1 \in DOMAIN rules /\ (i - 1) + 1 = i
        BY <1>2, <3>2, <2>1
      <4>2. PICK j \in 1 .. pos - 1 : RuleLine(file[j]) /\ RuleOf(j) = i - 1
        BY <4>1, Zenon DEF FirewallInv, RulesInOrder
      <4>3. RuleOf(j)' = i
        BY <1>4, <4>1, <4>2, Zenon
      <4> QED
        BY <1>4, <4>2, <4>3, Zenon
    <3> QED
      BY <3>1, <3>2
  <2>2. ASSUME NEW j \in 1 .. pos' - 1, RuleLine(file'[j])
        PROVE  RuleOf(j)' \in DOMAIN rules'
    <3>1. CASE j = n
      <4>1. 1 \in DOMAIN rules'
        BY <1>2
      <4> QED
        BY <3>1, <4>1, <1>4, Zenon
    <3>2. CASE j \in 1 .. pos - 1
      BY <3>2, <1>2, <1>4, <1>6, <2>2, Zenon
    <3> QED
      BY <3>1, <3>2, <1>4, Zenon
  <2>3. ASSUME NEW j \in 1 .. pos' - 1, NEW k \in 1 .. pos' - 1,
               j < k, RuleLine(file'[j]), RuleLine(file'[k])
        PROVE  RuleOf(k)' < RuleOf(j)'
    <3>1. j \in 1 .. pos - 1 /\ RuleLine(file[j])
      <4>1. j \in 1 .. pos - 1
        BY <1>3, <1>4, <2>3
      <4> QED
        BY <4>1, <2>3, Zenon
    <3>2. RuleOf(j) \in Nat /\ RuleOf(j) >= 1 /\ RuleOf(j)' = RuleOf(j) + 1
      <4>1. RuleOf(j) \in DOMAIN rules
        BY <3>1, <1>6, Zenon
      <4>2. RuleOf(j)' = RuleOf(j) + 1
        BY <3>1, <1>4, Zenon
      <4> HIDE DEF RuleOf
      <4> QED
        BY <1>2, <4>1, <4>2
    <3>3. CASE k = n
      <4>1. RuleOf(k)' = 1
        BY <3>3, <1>4, Zenon
      <4> QED
        BY <4>1, <3>2
    <3>4. CASE k \in 1 .. pos - 1
      <4>1. RuleOf(k) < RuleOf(j)
        BY <3>4, <3>1, <2>3, Zenon DEF FirewallInv, RulesInOrder
      <4>2. RuleOf(k) \in Nat /\ RuleOf(k)' = RuleOf(k) + 1
        BY <3>4, <1>4, Zenon
      <4> QED
        BY <4>1, <4>2, <3>2
    <3> QED
      BY <3>3, <3>4, <1>4, Zenon
  <2> QED
    BY <2>1, <2>2, <2>3, Zenon DEF RulesInOrder, RuleLine
<1>8. OwnWords'
  <2> SUFFICES ASSUME NEW j \in 1 .. pos' - 1, RuleLine(file'[j])
               PROVE  HoldsWords(rules'[RuleOf(j)'], file'[j])
    BY Zenon DEF OwnWords, RuleLine, HoldsWords, IpMatches, atoi, Port, FW_PORT_ANY, Ip
  <2>1. CASE j = n
    BY <2>1, <1>2, <1>3, <1>4, Zenon
  <2>2. CASE j \in 1 .. pos - 1
    <3>1. HoldsWords(rules[RuleOf(j)], file[j])
      BY <2>2, Zenon DEF FirewallInv, OwnWords
    <3>2. rules'[RuleOf(j)'] = rules[RuleOf(j)]
      BY <2>2, <1>2, <1>4, <1>6, Zenon
    <3> QED
      BY <3>1, <3>2, Zenon
  <2> QED
    BY <2>1, <2>2, <1>4, Zenon
<1> QED
  BY <1>5, <1>7, <1>8 DEF FirewallInv

(* What atoi makes of a word is a port, and one port if there is a word.   *)
LEMMA AtoiType ==
  /\ \A w \in Nat \cup {Star, Junk, Unset} : atoi(w) \subseteq Port
  /\ \A w \in Nat \cup {Star, Junk} : \E p \in Port : atoi(w) = {p}
<1>1. 0 \in Port /\ FW_PORT_ANY \in Port
  BY FirewallAssumption DEF Port, FW_PORT_ANY
<1>2. \A w \in Nat : w % PORT \in Port
  BY FirewallAssumption, DivMod DEF Port
<1>3. atoi(Unset) = Port
  BY Words1, Zenon DEF atoi
<1>4. atoi(Star) = {FW_PORT_ANY}
  BY Words1, Zenon DEF atoi
<1>5. atoi(Junk) = {0}
  BY Words1, Zenon DEF atoi
<1>6. \A w \in Nat : atoi(w) = {w % PORT}
  BY Words1, Zenon DEF atoi
<1> HIDE DEF Port, FW_PORT_ANY, atoi
<1> QED
  BY <1>1, <1>2, <1>3, <1>4, <1>5, <1>6, ZenonT(30)

(* What inet_aton leaves in inp is an address.                             *)
LEMMA InetType ==
  ASSUME NEW w \in Ip \cup {Junk, Unset}, NEW inp \in Ip \cup {Unset}
  PROVE  /\ inet_aton(w, inp) \subseteq Ip
         /\ w \in Ip => inet_aton(w, inp) = {w}
         /\ w = Junk /\ inp \in Ip => inet_aton(w, inp) = {inp}
<1>1. CASE w = Unset
  BY <1>1, Words1, Zenon DEF inet_aton
<1>2. CASE w = Junk
  BY <1>2, Words1, Zenon DEF inet_aton
<1>3. CASE w \in Ip
  BY <1>3, Words1, Zenon DEF inet_aton
<1> QED
  BY <1>1, <1>2, <1>3, Zenon


(* The line read next, the variables of the parser and their words.        *)
LEMMA LineType ==
  ASSUME FirewallTypeOK, pos <= Len(file)
  PROVE  /\ file[pos] \in Line
         /\ scanned(file[pos].port, scratch.port) \in Nat \cup {Star, Junk, Unset}
         /\ scanned(file[pos].ip, scratch.ip) \in Ip \cup {Junk, Unset}
         /\ scanned(file[pos].mask, scratch.mask) \in Ip \cup {Junk, Unset}
         /\ scratch.inp \in Ip \cup {Unset}
<1>1. file \in Seq(Line) /\ pos \in 1 .. Len(file)
  BY DEF FirewallTypeOK
<1>2. file[pos] \in Line
  BY <1>1, SeqType, Zenon
<1> HIDE DEF Ip
<1>3. /\ file[pos].port \in Nat \cup {Absent, Star, Junk}
      /\ file[pos].ip \in Ip \cup {Absent, Junk} /\ file[pos].mask \in Ip \cup {Absent, Junk}
  BY <1>2 DEF Line
<1>4. /\ scratch.port \in Nat \cup {Star, Junk, Unset}
      /\ scratch.ip \in Ip \cup {Junk, Unset} /\ scratch.mask \in Ip \cup {Junk, Unset}
      /\ scratch.inp \in Ip \cup {Unset}
  BY DEF FirewallTypeOK
<1> QED
  BY <1>2, <1>3, <1>4, Zenon DEF scanned

LEMMA BindInv ==
  ASSUME FirewallInv, BindLine
  PROVE  FirewallInv'
<1> DEFINE line == file[pos]
           w == scanned(line.port, scratch.port)
<1>1. /\ pos <= Len(file) /\ line.kind \in {"bind"} /\ pos' = pos + 1 /\ file' = file
      /\ scratch' = [scratch EXCEPT !.port = w]
  BY Zenon DEF BindLine, Reads
<1>2. PICK p \in atoi(w) : Insert([type |-> "bind", port |-> p, ip |-> {}, mask |-> {}])
  BY Zenon DEF BindLine
<1>3. w \in Nat \cup {Star, Junk, Unset}
  BY <1>1, LineType, Zenon DEF FirewallInv
<1>4. p \in Port
  BY <1>2, <1>3, AtoiType, Zenon
<1> DEFINE r == [type |-> "bind", port |-> p, ip |-> {}, mask |-> {}]
<1>5. r \in RuleRec
  <2>1. {} \in Ip
    BY Zenon DEF Ip
  <2> HIDE DEF Ip, Port
  <2> QED
    BY <1>4, <2>1 DEF RuleRec
<1>6. line.port # Absent => w = line.port
  BY Zenon DEF scanned
<1>7. HoldsWords(r, line)
  <2>1. r.type = "bind" /\ r.port = p /\ line.kind = "bind"
    BY <1>1
  <2> HIDE DEF r, w, line
  <2> QED
    BY <1>2, <1>6, <2>1, Zenon DEF HoldsWords
<1>8. scratch' \in [port : Nat \cup {Star, Junk, Unset}, ip : Ip \cup {Junk, Unset},
                    mask : Ip \cup {Junk, Unset}, inp : Ip \cup {Unset}]
  <2> HIDE DEF Ip, w
  <2> QED
    BY <1>1, <1>3, SMTT(30) DEF FirewallInv, FirewallTypeOK
<1>9. RuleLine(file[pos])
  BY <1>1 DEF RuleLine
<1> QED
  BY <1>1, <1>2, <1>5, <1>7, <1>8, <1>9, InsertInv, Zenon

LEMMA ConnectInv ==
  ASSUME FirewallInv, ConnectLine
  PROVE  FirewallInv'
<1> DEFINE line == file[pos]
           wp == scanned(line.port, scratch.port)
           wi == scanned(line.ip, scratch.ip)
           wm == scanned(line.mask, scratch.mask)
           R(p, a, m) == [type |-> line.kind, port |-> p, ip |-> a, mask |-> m]
<1>1. pos <= Len(file) /\ line.kind \in {"allow", "deny"} /\ pos' = pos + 1 /\ file' = file
  BY Zenon DEF ConnectLine, Reads
<1>2. /\ parsed(line).port = wp /\ parsed(line).ip = wi /\ parsed(line).mask = wm
  BY DEF parsed
<1>3. \E p \in atoi(wp) : \E a \in inet_aton(wi, scratch.inp) : \E m \in inet_aton(wm, a) :
        /\ Insert(R(p, a, m))
        /\ scratch' = [port |-> wp, ip |-> wi, mask |-> wm, inp |-> m]
  BY <1>2, Zenon DEF ConnectLine
<1>4. PICK p \in atoi(wp), a \in inet_aton(wi, scratch.inp) : \E m \in inet_aton(wm, a) :
        /\ Insert(R(p, a, m))
        /\ scratch' = [port |-> wp, ip |-> wi, mask |-> wm, inp |-> m]
  BY <1>3, Zenon
<1>5. PICK m \in inet_aton(wm, a) :
        /\ Insert(R(p, a, m))
        /\ scratch' = [port |-> wp, ip |-> wi, mask |-> wm, inp |-> m]
  BY <1>4, Zenon
<1>6. /\ wp \in Nat \cup {Star, Junk, Unset}
      /\ wi \in Ip \cup {Junk, Unset} /\ wm \in Ip \cup {Junk, Unset}
      /\ scratch.inp \in Ip \cup {Unset}
  BY <1>1, LineType, Zenon DEF FirewallInv
<1>7. /\ p \in Port /\ a \in Ip /\ m \in Ip
      /\ wi \in Ip => a = wi
      /\ wm \in Ip => m = wm
      /\ wm = Junk => m = a
  <2>1. p \in Port
    BY <1>4, <1>6, AtoiType, Zenon
  <2>2. a \in Ip /\ (wi \in Ip => a = wi)
    <3>1. inet_aton(wi, scratch.inp) \subseteq Ip /\ (wi \in Ip => inet_aton(wi, scratch.inp) = {wi})
      BY <1>6, InetType, Zenon
    <3> QED
      BY <1>4, <3>1, Zenon
  <2>3. a \in Ip \cup {Unset}
    BY <2>2, Zenon
  <2>4. m \in Ip /\ (wm \in Ip => m = wm) /\ (wm = Junk => m = a)
    <3>1. /\ inet_aton(wm, a) \subseteq Ip /\ (wm \in Ip => inet_aton(wm, a) = {wm})
          /\ wm = Junk => inet_aton(wm, a) = {a}
      BY <1>6, <2>2, <2>3, InetType, ZenonT(30)
    <3> QED
      BY <1>5, <3>1, Zenon
  <2> QED
    BY <2>1, <2>2, <2>4, Zenon
<1>8. /\ line.port # Absent => wp = line.port
      /\ line.ip \in Ip => wi = line.ip
      /\ line.mask \in Ip => wm = line.mask
      /\ line.mask = Junk => wm = Junk
  BY Words1, Zenon DEF scanned
<1> DEFINE r == R(p, a, m)
<1>9. r \in RuleRec
  <2> HIDE DEF Ip, Port
  <2> QED
    BY <1>1, <1>7 DEF RuleRec
<1>10. HoldsWords(r, line)
  <2>1. r.type = line.kind /\ r.port = p /\ r.ip = a /\ r.mask = m
    OBVIOUS
  <2> HIDE DEF r, wp, wi, wm, line, Ip
  <2>2. line.mask = Junk => \A ip \in Ip : IpMatches(r, ip)
    BY <1>7, <1>8, <2>1, Zenon DEF IpMatches
  <2> QED
    BY <1>4, <1>7, <1>8, <2>1, <2>2, Zenon DEF HoldsWords
<1>11. scratch' \in [port : Nat \cup {Star, Junk, Unset}, ip : Ip \cup {Junk, Unset},
                     mask : Ip \cup {Junk, Unset}, inp : Ip \cup {Unset}]
  <2> HIDE DEF Ip, wp, wi, wm
  <2> QED
    BY <1>5, <1>6, <1>7
<1>12. RuleLine(file[pos])
  BY <1>1 DEF RuleLine
<1>13. Insert(r)
  BY <1>5, Zenon
<1> HIDE DEF r
<1> QED
  BY <1>1, <1>9, <1>10, <1>11, <1>12, <1>13, InsertInv, Zenon

(* Every turn of the loop keeps the invariant of the parser.               *)
LEMMA ParseInv ==
  ASSUME FirewallInv, ParseLine
  PROVE  FirewallInv'
  BY SkipInv, BindInv, ConnectInv, Zenon DEF ParseLine

(* It holds for a file of which nothing has been read.                     *)
LEMMA FirewallStart ==
  ASSUME file \in Seq(Line), pos = 1, rules = <<>>,
         scratch \in [port : Nat \cup {Star, Junk, Unset}, ip : Ip \cup {Junk, Unset},
                      mask : Ip \cup {Junk, Unset}, inp : Ip \cup {Unset}]
  PROVE  FirewallInv
<1>1. 1 .. pos - 1 = {} /\ pos \in 1 .. Len(file) + 1
  BY SeqType
<1>2. rules \in Seq(RuleRec) /\ DOMAIN rules = {}
  OBVIOUS
<1>3. RulesInOrder /\ OwnWords
  BY <1>1, <1>2, Zenon DEF RulesInOrder, OwnWords
<1> QED
  BY <1>1, <1>2, <1>3, Zenon DEF FirewallInv, FirewallTypeOK

(* And it says nothing of other variables.                                 *)
LEMMA FirewallKept ==
  ASSUME FirewallInv, UNCHANGED fvars
  PROVE  FirewallInv'
<1>1. file' = file /\ pos' = pos /\ rules' = rules /\ scratch' = scratch
  BY Zenon DEF fvars
<1>2. FirewallTypeOK'
  BY <1>1, Zenon DEF FirewallInv, FirewallTypeOK, Line, RuleRec, Port, Ip
<1>3. \A j : RuleOf(j)' = RuleOf(j)
  BY <1>1, Zenon DEF RuleOf, RuleLine
<1>4. RulesInOrder'
  BY <1>1, <1>3, Zenon DEF FirewallInv, RulesInOrder, RuleLine
<1>5. OwnWords'
  <2> SUFFICES ASSUME NEW j \in 1 .. pos' - 1, RuleLine(file'[j])
               PROVE  HoldsWords(rules'[RuleOf(j)'], file'[j])
    BY Zenon DEF OwnWords, RuleLine, HoldsWords, IpMatches, atoi, Port, FW_PORT_ANY, Ip
  <2> QED
    BY <1>1, <1>3, Zenon DEF FirewallInv, OwnWords
<1> QED
  BY <1>2, <1>4, <1>5, Zenon DEF FirewallInv


-----------------------------------------------------------------------------
(* What the monitor answers.                                               *)
LEMMA MonitorAsks ==
  ASSUME NEW a \in Sockaddr
  PROVE  /\ syscall_monitor("connect", a) <=> firewall_check_connect(a.port, a.ip)
         /\ syscall_monitor("bind", a) <=> firewall_check_bind(a.port)
<1>1. a.ipv4 = TRUE
  <2> HIDE DEF Port, Ip
  <2> QED
    BY Zenon DEF Sockaddr
<1>2. "bind" # "connect"
  OBVIOUS
<1>3. syscall_monitor("connect", a) = check_connect(a)
  BY <1>2, Zenon DEF syscall_monitor
<1>4. syscall_monitor("bind", a) = check_bind(a)
  BY <1>2, Zenon DEF syscall_monitor
<1> QED
  BY <1>1, <1>3, <1>4, Zenon DEF check_connect, check_bind

(* The rule of a complete line matches just what the line says.            *)
LEMMA RuleSays ==
  ASSUME FirewallInv, NEW a, NEW j \in 1 .. pos - 1, RuleLine(file[j]), Complete(file[j])
  PROVE  LET r == rules[RuleOf(j)] IN
         /\ r.type = file[j].kind
         /\ Says(file[j], "connect", a) <=>
              r.type \in {"allow", "deny"} /\ IpMatches(r, a.ip) /\ PortMatches(r, a.port)
         /\ Says(file[j], "bind", a) <=> r.type = "bind" /\ PortMatches(r, a.port)
<1> DEFINE line == file[j]
           r == rules[RuleOf(j)]
<1>1. HoldsWords(r, line)
  BY Zenon DEF FirewallInv, OwnWords
<1>2. line \in Line
  <2>1. file \in Seq(Line) /\ j \in 1 .. Len(file)
    BY DEF FirewallInv, FirewallTypeOK
  <2> QED
    BY <2>1, SeqType, Zenon
<1>3. line.port \in Nat \cup {Absent, Star, Junk} /\ line.port # Absent
  <2>1. line.port \in Nat \cup {Absent, Star, Junk}
    <3> HIDE DEF Ip
    <3> QED
      BY <1>2 DEF Line
  <2> QED
    BY <2>1, Zenon DEF Complete
<1>4. PICK p \in Port : atoi(line.port) = {p}
  BY <1>3, AtoiType, Zenon
<1> HIDE DEF line, r
<1>5. r.type = line.kind /\ r.port = p
  BY <1>1, <1>3, <1>4, Zenon DEF HoldsWords
<1>6. PortMatches(r, a.port) <=> \E q \in atoi(line.port) : q = FW_PORT_ANY \/ q = a.port
  BY <1>4, <1>5, Zenon DEF PortMatches
<1>7. "bind" # "connect" /\ "bind" \notin {"allow", "deny"}
  OBVIOUS
<1>8. line.kind \in {"allow", "deny"} => r.ip = line.ip /\ r.mask = line.mask
  <2>1. line.kind \in {"allow", "deny"} => line.ip \in Ip /\ line.mask \in Ip /\ line.kind # "bind"
    BY <1>7, Zenon DEF Complete, line
  <2> QED
    BY <1>1, <2>1, Zenon DEF HoldsWords
<1>9. line.kind \in {"allow", "deny"} => (IpMatches(r, a.ip) <=> IpMatches(line, a.ip))
  BY <1>8, Zenon DEF IpMatches
<1>10. /\ Says(line, "connect", a) <=>
            r.type \in {"allow", "deny"} /\ IpMatches(r, a.ip) /\ PortMatches(r, a.port)
  BY <1>5, <1>6, <1>7, <1>9, Zenon DEF Says
<1>11. Says(line, "bind", a) <=> r.type = "bind" /\ PortMatches(r, a.port)
  BY <1>5, <1>6, <1>7, Zenon DEF Says
<1> QED
  BY <1>5, <1>10, <1>11, Zenon DEF line, r

(* What says something of a call is a line for a rule.                     *)
LEMMA SaysRule ==
  ASSUME NEW line, NEW a, NEW rax \in {"bind", "connect"}, Says(line, rax, a)
  PROVE  RuleLine(line)
  BY DEF Says, RuleLine

(* LastLineDecides and BindsAsListed follow from the invariant of the      *)
(* parser.                                                                 *)
LEMMA ConnectDecided ==
  ASSUME FirewallInv
  PROVE  LastLineDecides
<1> SUFFICES ASSUME NEW a \in Sockaddr
             PROVE  /\ \A j \in 1 .. pos - 1 :
                         (/\ \A k \in j .. pos - 1 : RuleLine(file[k]) => Complete(file[k])
                          /\ Says(file[j], "connect", a)
                          /\ \A k \in j + 1 .. pos - 1 : ~Says(file[k], "connect", a))
                            => (syscall_monitor("connect", a) <=> file[j].kind = "allow")
                    /\ (\A k \in 1 .. pos - 1 :
                          RuleLine(file[k]) => Complete(file[k]) /\ ~Says(file[k], "connect", a))
                            => ~syscall_monitor("connect", a)
  BY Zenon DEF LastLineDecides
<1> DEFINE D == Deciding(a.port, a.ip)
           Fits(r) == r.type \in {"allow", "deny"} /\ IpMatches(r, a.ip) /\ PortMatches(r, a.port)
<1>1. /\ syscall_monitor("connect", a) <=> \E i \in D : (\A k \in D : i <= k) /\ rules[i].type = "allow"
      /\ D = {i \in 1 .. Len(rules) : Fits(rules[i])} /\ D \subseteq Nat
  <2>1. syscall_monitor("connect", a) <=> firewall_check_connect(a.port, a.ip)
    BY MonitorAsks, Zenon
  <2>2. D = {i \in 1 .. Len(rules) : Fits(rules[i])}
    BY Zenon DEF Deciding
  <2>3. 1 .. Len(rules) \subseteq Nat
    BY DEF FirewallInv, FirewallTypeOK
  <2> QED
    BY <2>1, <2>2, <2>3, Zenon DEF firewall_check_connect
<1> HIDE DEF D, Fits
<1>2. DOMAIN rules = 1 .. Len(rules)
  BY SeqType, Zenon DEF FirewallInv, FirewallTypeOK
<1>3. \A i \in D : \E k \in 1 .. pos - 1 : RuleLine(file[k]) /\ RuleOf(k) = i
  BY <1>1, <1>2, Zenon DEF FirewallInv, RulesInOrder
<1>4. ASSUME NEW k \in 1 .. pos - 1, RuleLine(file[k]), Complete(file[k])
      PROVE  /\ Says(file[k], "connect", a) <=> RuleOf(k) \in D
             /\ rules[RuleOf(k)].type = file[k].kind
  <2>1. RuleOf(k) \in 1 .. Len(rules)
    BY <1>2, <1>4, Zenon DEF FirewallInv, RulesInOrder
  <2>2. /\ Says(file[k], "connect", a) <=> Fits(rules[RuleOf(k)])
        /\ rules[RuleOf(k)].type = file[k].kind
    BY <1>4, RuleSays, Zenon DEF Fits
  <2> QED
    BY <1>1, <2>1, <2>2, Zenon
<1>5. ASSUME NEW j \in 1 .. pos - 1,
             \A k \in j .. pos - 1 : RuleLine(file[k]) => Complete(file[k]),
             Says(file[j], "connect", a),
             \A k \in j + 1 .. pos - 1 : ~Says(file[k], "connect", a)
      PROVE  syscall_monitor("connect", a) <=> file[j].kind = "allow"
  <2>1. RuleLine(file[j])
    BY <1>5, SaysRule, Zenon
  <2>2. pos \in Nat /\ j \in j .. pos - 1
    BY DEF FirewallInv, FirewallTypeOK
  <2>3. Complete(file[j])
    BY <1>5, <2>1, <2>2, Zenon
  <2>4. RuleOf(j) \in D /\ rules[RuleOf(j)].type = file[j].kind
    BY <1>4, <1>5, <2>1, <2>3, Zenon
  <2>5. ASSUME NEW i \in D PROVE RuleOf(j) <= i
    <3>1. PICK k \in 1 .. pos - 1 : RuleLine(file[k]) /\ RuleOf(k) = i
      BY <1>3, Zenon
    <3>2. RuleOf(j) \in Nat /\ i \in Nat
      BY <1>1, <2>4, <2>5, Zenon
    <3>3. CASE k < j
      <4>1. RuleOf(j) < RuleOf(k)
        BY <2>1, <3>1, <3>3, Zenon DEF FirewallInv, RulesInOrder
      <4> QED
        BY <3>1, <3>2, <4>1
    <3>4. CASE k = j
      BY <3>1, <3>2, <3>4
    <3>5. CASE k > j
      <4>1. k \in j .. pos - 1 /\ k \in j + 1 .. pos - 1
        BY <2>2, <3>5
      <4>2. Complete(file[k]) /\ ~Says(file[k], "connect", a)
        BY <1>5, <3>1, <4>1, Zenon
      <4> QED
        BY <1>4, <3>1, <4>2, <2>5, Zenon
    <3> QED
      BY <3>3, <3>4, <3>5
  <2>6. ASSUME NEW i \in D, \A k \in D : i <= k PROVE i = RuleOf(j)
    <3>1. i <= RuleOf(j) /\ RuleOf(j) <= i /\ i \in Nat /\ RuleOf(j) \in Nat
      BY <1>1, <2>4, <2>5, <2>6, Zenon
    <3> QED
      BY <3>1
  <2> QED
    BY <1>1, <2>4, <2>5, <2>6, Zenon
<1>6. ASSUME \A k \in 1 .. pos - 1 :
               RuleLine(file[k]) => Complete(file[k]) /\ ~Says(file[k], "connect", a)
      PROVE  ~syscall_monitor("connect", a)
  <2>1. D = {}
    BY <1>3, <1>4, <1>6, Zenon
  <2> QED
    BY <1>1, <2>1, Zenon
<1> QED
  BY <1>5, <1>6, Zenon

LEMMA BindDecided ==
  ASSUME FirewallInv
  PROVE  BindsAsListed
<1> SUFFICES ASSUME NEW a \in Sockaddr,
                    \A k \in 1 .. pos - 1 : RuleLine(file[k]) => Complete(file[k])
             PROVE  syscall_monitor("bind", a) <=> \E j \in 1 .. pos - 1 : Says(file[j], "bind", a)
  BY Zenon DEF BindsAsListed
<1> DEFINE Fits(r) == r.type = "bind" /\ PortMatches(r, a.port)
<1>1. syscall_monitor("bind", a) <=> \E i \in DOMAIN rules : Fits(rules[i])
  <2>1. DOMAIN rules = 1 .. Len(rules)
    BY SeqType, Zenon DEF FirewallInv, FirewallTypeOK
  <2> QED
    BY <2>1, MonitorAsks, Zenon DEF firewall_check_bind
<1> HIDE DEF Fits
<1>2. ASSUME NEW k \in 1 .. pos - 1, RuleLine(file[k])
      PROVE  /\ Says(file[k], "bind", a) <=> Fits(rules[RuleOf(k)])
             /\ RuleOf(k) \in DOMAIN rules
  <2>1. Says(file[k], "bind", a) <=> Fits(rules[RuleOf(k)])
    BY <1>2, RuleSays, Zenon DEF Fits
  <2> QED
    BY <1>2, <2>1, Zenon DEF FirewallInv, RulesInOrder
<1>3. ASSUME NEW i \in DOMAIN rules, Fits(rules[i])
      PROVE  \E j \in 1 .. pos - 1 : Says(file[j], "bind", a)
  <2>1. PICK k \in 1 .. pos - 1 : RuleLine(file[k]) /\ RuleOf(k) = i
    BY Zenon DEF FirewallInv, RulesInOrder
  <2> QED
    BY <1>2, <1>3, <2>1, Zenon
<1>4. ASSUME NEW j \in 1 .. pos - 1, Says(file[j], "bind", a)
      PROVE  \E i \in DOMAIN rules : Fits(rules[i])
  <2>1. RuleLine(file[j])
    BY <1>4, SaysRule, Zenon
  <2> QED
    BY <1>2, <1>4, <2>1, Zenon
<1> QED
  BY <1>1, <1>3, <1>4, Zenon


-----------------------------------------------------------------------------
(* A segment that passes the tests of the loader and the host ends below   *)
(* APP_MAX_ELF_VADDR: the sum that load_elf tests cannot have wrapped.     *)
LEMMA SegmentInside ==
  ASSUME elf \in ElfFile, next \in Nat \ {0}, next <= Len(elf.ph),
         ~insecure(elf, elf.ph[next]), host_loads(elf, elf.ph[next])
  PROVE  Segment(elf, elf.ph[next]) \subseteq 0 .. APP_MAX_ELF_VADDR - 1
<1> DEFINE Hdr == [p_type : {"LOAD", "INTERP", "other"}, p_vaddr : 0 .. WORD - 1,
                   p_memsz : 0 .. WORD - 1, p_filesz : 0 .. WORD - 1]
           ph == elf.ph[next]
           x == ph.p_vaddr + off(elf)
           n == ph.p_memsz
<1>1. WORD \in Nat /\ TASK_SIZE \in Nat /\ APP_MAX_ELF_VADDR \in Nat /\ LOADER_VADDR_OFF \in Nat
  BY BootAssumption, Zenon
<1>2. TASK_SIZE + APP_MAX_ELF_VADDR <= WORD
  BY BootAssumption, Zenon
<1>3. elf.ph \in Seq(Hdr)
  <2> HIDE DEF Hdr
  <2>1. elf \in [e_type : {"EXEC", "DYN", "other"}, ph : Seq(Hdr)]
    BY Zenon DEF ElfFile, Hdr
  <2> QED
    BY <2>1
<1>4. ph \in Hdr
  <2> HIDE DEF Hdr
  <2>1. next \in 1 .. Len(elf.ph)
    BY <1>3, SeqType
  <2> QED
    BY <1>3, <2>1, SeqType, Zenon
<1>5. ph.p_vaddr \in 0 .. WORD - 1 /\ ph.p_memsz \in 0 .. WORD - 1
  <2> HIDE DEF ph
  <2> QED
    BY <1>4
<1>6. off(elf) \in Nat
  BY <1>1 DEF off
<1>7. x \in Nat /\ n \in Nat /\ WORD > 0
  BY <1>1, <1>5, <1>6
<1>8. /\ ~((x + n) % WORD > APP_MAX_ELF_VADDR) /\ ~(n > APP_MAX_ELF_VADDR)
      /\ (x % WORD) + n <= TASK_SIZE
  BY DEF insecure, host_loads, segment_start
<1>9. Segment(elf, ph) = {a \in 0 .. TASK_SIZE - 1 : x % WORD <= a /\ a < (x % WORD) + n}
  BY Zenon DEF Segment, segment_start
<1> HIDE DEF x, n
<1>10. x % WORD \in 0 .. WORD - 1
  BY <1>1, <1>7, DivMod
<1>11. CASE n = 0
  <2>1. Segment(elf, ph) = {}
    BY <1>1, <1>9, <1>10, <1>11
  <2> QED
    BY <2>1, Zenon
<1>12. CASE n > 0
  <2>1. (x % WORD) + n < WORD
    BY <1>1, <1>2, <1>7, <1>8, <1>10, <1>12
  <2>2. (x + n) % WORD = (x % WORD) + n
    BY <1>1, <1>7, <2>1, ModSum
  <2>3. (x % WORD) + n <= APP_MAX_ELF_VADDR
    BY <1>1, <1>7, <1>8, <1>10, <2>2
  <2> QED
    BY <1>1, <1>7, <1>9, <1>10, <2>3
<1> QED
  BY <1>7, <1>11, <1>12

-----------------------------------------------------------------------------
(* The strings take finitely many bytes.                                   *)
LEMMA BytesNat ==
  ASSUME NEW strs \in Seq(Seq(Char))
  PROVE  bytes(strs) \in Nat
<1> DEFINE B(k) == {k} \X (0 .. Len(strs[k]))
           S == {B(k) : k \in DOMAIN strs}
<1>1. /\ IsFiniteSet(DOMAIN strs)
      /\ \A k \in DOMAIN strs : strs[k] \in Seq(Char)
  <2>1. DOMAIN strs = 1 .. Len(strs) /\ Len(strs) \in Nat
    BY SeqType
  <2> QED
    BY <2>1, FS_Interval, SeqType
<1>2. ASSUME NEW k \in DOMAIN strs PROVE IsFiniteSet(B(k))
  <2>1. Len(strs[k]) \in Nat
    BY <1>1, SeqType, Zenon
  <2>2. IsFiniteSet(0 .. Len(strs[k]))
    BY <2>1, FS_Interval
  <2>3. IsFiniteSet({k})
    BY FS_Singleton, Zenon
  <2> QED
    BY <2>2, <2>3, FS_Product, Zenon
<1>3. IsFiniteSet(S)
  <2> HIDE DEF B
  <2> DEFINE f == [k \in DOMAIN strs |-> B(k)]
  <2>1. f \in Surjection(DOMAIN strs, S)
    <3>1. f \in [DOMAIN strs -> S]
      BY Zenon
    <3>2. \A t \in S : \E k \in DOMAIN strs : f[k] = t
      BY Zenon
    <3> QED
      BY <3>1, <3>2, Zenon DEF Surjection, Range
  <2> QED
    BY <1>1, <2>1, FS_Surjection, Zenon
<1>4. IsFiniteSet(UNION S)
  <2>1. \A T \in S : IsFiniteSet(T)
    BY <1>2, Zenon
  <2> QED
    BY <1>3, <2>1, FS_UNION, Zenon
<1> QED
  BY <1>4, FS_CardinalityType, Zenon DEF bytes


(* Rounding up never loses a byte.                                         *)
LEMMA PaddingNat ==
  ASSUME NEW argc \in Nat, NEW envc \in Nat, NEW data \in Nat
  PROVE  /\ padding(argc, envc, data) \in Nat
         /\ overlap(argc, envc, data) \in 0 .. WORDSIZE
         /\ padding(argc, envc, data) >= WORDSIZE => overlap(argc, envc, data) = 0
<1> DEFINE t == table_bytes(argc, envc)
<1>1. t \in Nat
  BY DEF table_bytes, arg_words, WORDSIZE, NUM_AUX
<1>2. \A x \in Nat : align(x) \in Nat /\ align(x) >= x
  BY DEF align, ALIGN
<1> HIDE DEF t
<1>3. setup_len(argc, envc, data) \in Nat /\ setup_len(argc, envc, data) >= data + t
  BY <1>1, <1>2 DEF setup_len, t
<1>4. padding(argc, envc, data) \in Nat
  <2> HIDE DEF setup_len
  <2> QED
    BY <1>1, <1>3 DEF padding, t
<1> HIDE DEF padding
<1> QED
  BY <1>4 DEF overlap, WORDSIZE

(* What setup_arguments makes of a command line that names a program.      *)
LEMMA StackArrives ==
  ASSUME argv \in Seq(Seq(Char)), envv \in Seq(Seq(Char)), Len(argv) >= 2,
         app = app_argv(argv[2], SubSeq(argv, 3, Len(argv)), envv)
  PROVE  ArgumentsArrive
<1> DEFINE strs == Tail(argv)
           rest == SubSeq(argv, 3, Len(argv))
           data == bytes(strs \o envv)
           lost == overlap(Len(strs) - 1, Len(envv), data)
           b(k) == bytes(SubSeq(strs, 1, k - 1))
<1>0. \A s \in Seq(Seq(Char)) : Len(s) >= 2 =>
        /\ SubSeq(s, 3, Len(s)) \in Seq(Seq(Char)) /\ Len(SubSeq(s, 3, Len(s))) = Len(s) - 2
        /\ <<s[2]>> \o SubSeq(s, 3, Len(s)) = Tail(s)
        /\ Tail(s) \in Seq(Seq(Char)) /\ Len(Tail(s)) = Len(s) - 1 /\ Len(s) \in Nat
  <2> SUFFICES ASSUME NEW T, NEW s \in Seq(T), Len(s) >= 2
               PROVE  /\ SubSeq(s, 3, Len(s)) \in Seq(T) /\ Len(SubSeq(s, 3, Len(s))) = Len(s) - 2
                      /\ <<s[2]>> \o SubSeq(s, 3, Len(s)) = Tail(s)
                      /\ Tail(s) \in Seq(T) /\ Len(Tail(s)) = Len(s) - 1 /\ Len(s) \in Nat
    BY Zenon
  <2>1. SubSeq(s, 3, Len(s)) \in Seq(T) /\ Len(SubSeq(s, 3, Len(s))) = Len(s) - 2
    <3>1. Len(s) \in Nat /\ 3 \in Nat /\ 0 < 3 /\ 3 <= Len(s) + 1 /\ Len(s) <= Len(s)
      OBVIOUS
    <3>2. SubSeq(s, 3, Len(s)) \in Seq(T) /\ Len(SubSeq(s, 3, Len(s))) = Len(s) + 1 - 3
      BY <3>1, SubType, ZenonT(30)
    <3>3. Len(s) + 1 - 3 = Len(s) - 2
      BY <3>1
    <3> QED
      BY <3>2, <3>3, Zenon
  <2>2. Tail(s) \in Seq(T) /\ Len(Tail(s)) = Len(s) - 1 /\ Len(s) \in Nat
    OBVIOUS
  <2>3. <<s[2]>> \o SubSeq(s, 3, Len(s)) = Tail(s)
    <3>1. s # <<>> /\ 2 \in 1 .. Len(s) /\ Len(s) \in 2 .. Len(s) /\ 2 + 1 = 3
      OBVIOUS
    <3>2. Tail(s) = SubSeq(s, 2, Len(s))
      BY <3>1, TailIsSubSeq, Zenon
    <3>3. SubSeq(s, 2, Len(s)) = <<s[2]>> \o SubSeq(s, 2 + 1, Len(s))
      BY <3>1, SubSeqRecursiveFirst, Zenon
    <3> QED
      BY <3>1, <3>2, <3>3, Zenon
  <2> QED
    BY Zenon, <2>1, <2>2, <2>3
<1>1. /\ rest \in Seq(Seq(Char)) /\ Len(rest) = Len(strs) - 1 /\ <<argv[2]>> \o rest = strs
      /\ strs \in Seq(Seq(Char)) /\ Len(strs) \in Nat \ {0}
  <2>1. /\ rest \in Seq(Seq(Char)) /\ Len(rest) = Len(argv) - 2 /\ <<argv[2]>> \o rest = strs
        /\ strs \in Seq(Seq(Char)) /\ Len(strs) = Len(argv) - 1 /\ Len(argv) \in Nat
    BY <1>0, Zenon
  <2>2. Len(argv) >= 2
    OBVIOUS
  <2>3. ASSUME NEW n \in Nat, NEW m, NEW l, n >= 2, m = n - 2, l = n - 1
        PROVE  m = l - 1 /\ l \in Nat \ {0}
    BY <2>3
  <2> HIDE DEF strs, rest
  <2> QED
    BY <2>1, <2>2, <2>3, Zenon
<1> HIDE DEF strs, rest
<1>2. app = [k \in 1 .. Len(strs) |-> IF b(k) < lost THEN <<>> ELSE strs[k]]
  BY <1>1, Zenon DEF app_argv, rest
<1>3. data \in Nat /\ Len(envv) \in Nat /\ Len(strs) - 1 \in Nat
  <2>1. strs \o envv \in Seq(Seq(Char))
    <3> SUFFICES ASSUME NEW T, strs \in Seq(T), envv \in Seq(T) PROVE strs \o envv \in Seq(T)
      BY <1>1, Zenon
    <3> QED
      OBVIOUS
  <2> QED
    BY Zenon, <1>1, <2>1, BytesNat, SeqType
<1>4. lost \in 0 .. WORDSIZE /\ (padding(Len(strs) - 1, Len(envv), data) >= WORDSIZE => lost = 0)
  <2> HIDE DEF data
  <2> QED
    BY <1>3, PaddingNat, Zenon
<1>5. \A k \in 1 .. Len(strs) : b(k) \in Nat
  <2>1. \A k \in 1 .. Len(strs) : SubSeq(strs, 1, k - 1) \in Seq(Seq(Char))
    <3> SUFFICES ASSUME NEW T, strs \in Seq(T), NEW k \in 1 .. Len(strs)
                 PROVE  SubSeq(strs, 1, k - 1) \in Seq(T)
      BY <1>1, Zenon
    <3> QED
      OBVIOUS
  <2> QED
    BY <2>1, BytesNat, Zenon
<1> HIDE DEF lost, b
<1>6. Len(app) = Len(strs) /\ DOMAIN app = 1 .. Len(strs)
  <2>1. DOMAIN app = 1 .. Len(strs)
    BY <1>2, Zenon
  <2>2. \E n \in Nat : DOMAIN app = 1 .. n
    BY <1>1, <2>1, Zenon
  <2> QED
    BY <1>1, <1>2, <2>1
<1>7. \A k \in 1 .. Len(strs) : b(k) >= WORDSIZE => app[k] = strs[k]
  <2> SUFFICES ASSUME NEW k \in 1 .. Len(strs), b(k) >= WORDSIZE PROVE app[k] = strs[k]
    OBVIOUS
  <2>1. ~(b(k) < lost)
    BY <1>4, <1>5 DEF WORDSIZE
  <2> QED
    BY <1>2, <2>1, Zenon
<1>8. ASSUME lost = 0 PROVE app = strs
  <2>1. \A k \in 1 .. Len(strs) : ~(b(k) < lost)
    BY <1>5, <1>8
  <2>2. app = [k \in 1 .. Len(strs) |-> strs[k]]
    BY <1>2, <2>1, Zenon
  <2>3. strs = [k \in 1 .. Len(strs) |-> strs[k]]
    <3> SUFFICES ASSUME NEW T, strs \in Seq(T) PROVE strs = [k \in 1 .. Len(strs) |-> strs[k]]
      BY <1>1, Zenon
    <3> QED
      OBVIOUS
  <2> QED
    BY <2>2, <2>3, Zenon
<1> QED
  BY <1>4, <1>6, <1>7, <1>8, Zenon DEF ArgumentsArrive, strs, b


-----------------------------------------------------------------------------
(* A loop over the buffer stops, and at one place.                         *)
LEMMA StopFound ==
  ASSUME NEW p, NEW i \in Nat, i <= EXECPGSIZE, NEW stop
  PROVE  LET k == StopAt(p, i, stop) IN
         /\ k \in i .. EXECPGSIZE
         /\ k = EXECPGSIZE \/ p[k] \in stop
         /\ \A j \in i .. k - 1 : p[j] \notin stop
<1> DEFINE S == {k \in i .. EXECPGSIZE : k = EXECPGSIZE \/ p[k] \in stop}
           Q(k) == /\ k = EXECPGSIZE \/ p[k] \in stop
                   /\ \A j \in i .. k - 1 : p[j] \notin stop
<1>1. EXECPGSIZE \in Nat
  BY ExecAssumption, Zenon
<1>2. EXECPGSIZE \in i .. EXECPGSIZE
  BY <1>1
<1>3. S \subseteq i .. EXECPGSIZE /\ S # {}
  BY <1>2, Zenon
<1> HIDE DEF S
<1>4. PICK m \in S : \A j \in S : m <= j
  BY <1>1, <1>3, LeastElement, Zenon
<1>5. m \in i .. EXECPGSIZE /\ (m = EXECPGSIZE \/ p[m] \in stop)
  BY <1>4, Zenon DEF S
<1>6. ASSUME NEW j \in i .. m - 1 PROVE p[j] \notin stop
  <2>1. j \in i .. EXECPGSIZE /\ ~(m <= j)
    BY <1>1, <1>5
  <2> QED
    BY <1>4, <2>1, Zenon DEF S
<1>7. \E k \in i .. EXECPGSIZE : Q(k)
  BY <1>5, <1>6, Zenon
<1> HIDE DEF Q
<1>8. StopAt(p, i, stop) = (CHOOSE k \in i .. EXECPGSIZE : Q(k))
  BY Zenon DEF StopAt, Q
<1>9. StopAt(p, i, stop) \in i .. EXECPGSIZE /\ Q(StopAt(p, i, stop))
  BY <1>7, <1>8, Zenon
<1> QED
  BY <1>9, Zenon DEF Q

LEMMA StopIs ==
  ASSUME NEW p, NEW i \in Nat, i <= EXECPGSIZE, NEW stop, NEW k \in i .. EXECPGSIZE,
         p[k] \in stop, \A j \in i .. k - 1 : p[j] \notin stop
  PROVE  StopAt(p, i, stop) = k
<1> DEFINE l == StopAt(p, i, stop)
<1>1. /\ l \in i .. EXECPGSIZE
      /\ l = EXECPGSIZE \/ p[l] \in stop
      /\ \A j \in i .. l - 1 : p[j] \notin stop
  BY StopFound, Zenon
<1> HIDE DEF l
<1>2. EXECPGSIZE \in Nat
  BY ExecAssumption, Zenon
<1>3. CASE k < l
  <2>1. k \in i .. l - 1
    BY <1>1, <1>2, <1>3
  <2> QED
    BY <1>1, <2>1, Zenon
<1>4. CASE l < k
  <2>1. l \in i .. k - 1 /\ l # EXECPGSIZE
    BY <1>1, <1>2, <1>4
  <2> QED
    BY <1>1, <2>1, Zenon
<1>5. k = l
  BY <1>1, <1>2, <1>3, <1>4
<1> QED
  BY <1>5 DEF l

LEMMA StopBefore ==
  ASSUME NEW p, NEW i \in Nat, NEW l \in Nat, i <= l, l < EXECPGSIZE, NEW stop, p[l] \in stop
  PROVE  StopAt(p, i, stop) \in i .. l
<1> DEFINE k == StopAt(p, i, stop)
<1>1. EXECPGSIZE \in Nat
  BY ExecAssumption, Zenon
<1>2. i <= EXECPGSIZE
  BY <1>1
<1>3. k \in i .. EXECPGSIZE /\ \A j \in i .. k - 1 : p[j] \notin stop
  BY <1>2, StopFound, Zenon
<1> HIDE DEF k
<1>4. ~(k > l)
  <2>1. k > l => l \in i .. k - 1
    BY <1>1, <1>3
  <2> QED
    BY <1>3, <2>1, Zenon
<1>5. k \in i .. l
  BY <1>1, <1>3, <1>4
<1> QED
  BY <1>5, Zenon DEF k

(* What the buffer holds.                                                  *)
LEMMA PageType ==
  ASSUME NEW text \in Seq(Char), NEW rest \in Char
  PROVE  LET p == page(text, rest) IN
         /\ \A i \in 0 .. EXECPGSIZE : p[i] \in Char
         /\ \A i \in Nat : i < Len(text) /\ i < EXECPGSIZE => p[i] = text[i + 1]
         /\ Len(text) < EXECPGSIZE => p[Len(text)] = "nul"
<1> DEFINE p == page(text, rest)
<1>1. EXECPGSIZE \in Nat /\ "nul" \in Char
  BY ExecAssumption, Zenon
<1>2. Len(text) \in Nat /\ \A i \in 1 .. Len(text) : text[i] \in Char
  BY SeqType, Zenon
<1>3. ASSUME NEW i \in 0 .. EXECPGSIZE
      PROVE  /\ i < Len(text) /\ i < EXECPGSIZE => p[i] = text[i + 1]
             /\ i = Len(text) /\ i < EXECPGSIZE => p[i] = "nul"
             /\ ~(i < Len(text) /\ i < EXECPGSIZE) /\ ~(i = Len(text) /\ i < EXECPGSIZE) => p[i] = rest
  <2>1. p[i] = CASE i < Len(text) /\ i < EXECPGSIZE -> text[i + 1]
                 [] i = Len(text) /\ i < EXECPGSIZE -> "nul"
                 [] OTHER -> rest
    BY Zenon DEF page
  <2> HIDE DEF p
  <2>2. ~(i < Len(text) /\ i = Len(text))
    BY <1>2
  <2> QED
    BY <2>1, <2>2
<1> HIDE DEF p
<1>4. ASSUME NEW i \in 0 .. EXECPGSIZE PROVE p[i] \in Char
  <2>1. CASE i < Len(text) /\ i < EXECPGSIZE
    <3>1. i + 1 \in 1 .. Len(text)
      BY <1>1, <1>2, <2>1
    <3> QED
      BY <1>2, <1>3, <2>1, <3>1, Zenon
  <2>2. CASE i = Len(text) /\ i < EXECPGSIZE
    BY <1>1, <1>3, <2>2, Zenon
  <2> QED
    BY <1>3, <2>1, <2>2, Zenon
<1>5. ASSUME NEW i \in Nat, i < Len(text), i < EXECPGSIZE PROVE p[i] = text[i + 1]
  <2>1. i \in 0 .. EXECPGSIZE
    BY <1>1, <1>5
  <2> QED
    BY <1>3, <1>5, <2>1, Zenon
<1>6. ASSUME Len(text) < EXECPGSIZE PROVE p[Len(text)] = "nul"
  <2>1. Len(text) \in 0 .. EXECPGSIZE
    BY <1>1, <1>2, <1>6
  <2> QED
    BY <1>3, <1>6, <2>1, Zenon
<1> QED
  BY <1>4, <1>5, <1>6, Zenon DEF p


(* A part of the buffer.                                                   *)
LEMMA BetweenType ==
  ASSUME NEW p, \A i \in 0 .. EXECPGSIZE : p[i] \in Char,
         NEW a \in Nat, NEW b \in Nat, a <= b, b <= EXECPGSIZE
  PROVE  /\ Between(p, a, b) \in Seq(Char) /\ Len(Between(p, a, b)) = b - a
         /\ \A i \in 1 .. b - a : Between(p, a, b)[i] = p[a + i - 1]
<1>1. EXECPGSIZE \in Nat /\ b - a \in Nat
  BY ExecAssumption
<1>2. \A i \in 1 .. b - a : a + i - 1 \in 0 .. EXECPGSIZE
  BY <1>1
<1>3. Between(p, a, b) \in [1 .. b - a -> Char]
  BY <1>2, Zenon DEF Between
<1>4. \A i \in 1 .. b - a : Between(p, a, b)[i] = p[a + i - 1]
  BY Zenon DEF Between
<1> HIDE DEF Between
<1>5. \A n \in Nat : \A f \in [1 .. n -> Char] : f \in Seq(Char) /\ Len(f) = n
  OBVIOUS
<1> QED
  BY <1>1, <1>3, <1>4, <1>5, Zenon

(* Where the loops of exec_execev stop.                                    *)
LEMMA LoopTypes ==
  ASSUME NEW p
  PROVE  /\ interp_begin(p) \in 2 .. EXECPGSIZE
         /\ interp_end(p) \in interp_begin(p) .. EXECPGSIZE
         /\ arg_end(p) \in interp_end(p) .. EXECPGSIZE
<1> DEFINE a == interp_begin(p)
           b == interp_end(p)
<1>1. EXECPGSIZE \in Nat /\ 2 <= EXECPGSIZE /\ 2 \in Nat
  BY ExecAssumption
<1>2. a \in 2 .. EXECPGSIZE
  BY <1>1, StopFound, Zenon DEF interp_begin
<1>3. b = StopAt(p, a, blank \cup {"newline", "nul"})
  BY Zenon DEF interp_end
<1> HIDE DEF a, b
<1>4. a \in Nat /\ a <= EXECPGSIZE
  BY <1>1, <1>2
<1>5. b \in a .. EXECPGSIZE
  BY <1>3, <1>4, StopFound, Zenon
<1>6. b \in Nat /\ b <= EXECPGSIZE
  BY <1>1, <1>4, <1>5
<1>7. arg_end(p) \in b .. EXECPGSIZE
  BY <1>6, StopFound, Zenon DEF arg_end, b
<1> QED
  BY <1>2, <1>5, <1>7, Zenon DEF a, b

(* Concatenation and its pieces.                                           *)
LEMMA Concat3 ==
  ASSUME NEW S, NEW s \in Seq(S), NEW t \in Seq(S)
  PROVE  s \o t \in Seq(S)
  OBVIOUS

LEMMA Tuples ==
  ASSUME NEW S, NEW x \in S, NEW y \in S, NEW z \in S
  PROVE  <<x>> \in Seq(S) /\ <<x, y>> \in Seq(S) /\ <<x, y, z>> \in Seq(S) /\ <<>> \in Seq(S)
  OBVIOUS

(* execve starts the child on a command line of strings.                   *)
LEMMA CommandType ==
  ASSUME NEW text \in Seq(Char), NEW rest \in Char, NEW args \in Seq(Seq(Char))
  PROVE  new_argv(page(text, rest), Filename, args) \in Seq(Seq(Char))
<1> DEFINE p == page(text, rest)
           Str == Seq(Char)
           x == Between(p, interp_begin(p), interp_end(p))
<1>1. sandbox_path \in Str /\ ld_path \in Str /\ Filename \in Str /\ EXECPGSIZE \in Nat
  BY ExecAssumption, StartAssumption, Zenon
<1>2. \A i \in 0 .. EXECPGSIZE : p[i] \in Char
  BY PageType, Zenon
<1>3. /\ interp_begin(p) \in 2 .. EXECPGSIZE
      /\ interp_end(p) \in interp_begin(p) .. EXECPGSIZE
      /\ arg_end(p) \in interp_end(p) .. EXECPGSIZE
  BY LoopTypes, Zenon
<1> HIDE DEF p
<1>4. x \in Str
  <2>1. /\ interp_begin(p) \in Nat /\ interp_end(p) \in Nat
        /\ interp_begin(p) <= interp_end(p) /\ interp_end(p) <= EXECPGSIZE
    BY <1>1, <1>3
  <2> QED
    BY <1>2, <2>1, BetweenType, Zenon
<1>5. no_args(p) \/ argstring(p) \in Str
  <2>1. CASE arg_unset(p)
    <3>1. p[EXECPGSIZE] \in Char
      BY <1>1, <1>2
    <3>2. <<p[EXECPGSIZE]>> \in Seq(Char)
      BY <3>1, Tuples, Zenon
    <3> QED
      BY <2>1, <3>2, Zenon DEF argstring, Unknown
  <2>2. CASE ~arg_unset(p) /\ ~no_args(p)
    <3>1. arg_begin(p) \in Nat /\ arg_end(p) \in Nat /\ arg_begin(p) <= arg_end(p) /\ arg_end(p) <= EXECPGSIZE
      BY <1>1, <1>3, <2>2 DEF arg_unset, arg_begin
    <3>2. Between(p, arg_begin(p), arg_end(p)) \in Str
      BY <1>2, <3>1, BetweenType, Zenon
    <3> QED
      BY <2>2, <3>2, Zenon DEF argstring
  <2> QED
    BY <2>1, <2>2, Zenon
<1> HIDE DEF x, Str
<1>6. elf_argv(args) \in Seq(Str)
  <2>1. <<sandbox_path, ld_path>> \in Seq(Str) /\ args \in Seq(Str)
    BY <1>1, Tuples, Zenon DEF Str
  <2> QED
    BY <2>1, Concat3, Zenon DEF elf_argv
<1>7. script_argv(p, Filename, args) \in Seq(Str)
  <2> DEFINE y == IF no_args(p) THEN <<>> ELSE <<argstring(p)>>
  <2>1. <<sandbox_path, ld_path, x>> \in Seq(Str) /\ <<Filename>> \in Seq(Str) /\ args \in Seq(Str)
    BY <1>1, <1>4, Tuples, Zenon DEF Str
  <2>2. y \in Seq(Str)
    BY <1>1, <1>5, Tuples, Zenon
  <2> HIDE DEF y
  <2>3. ((<<sandbox_path, ld_path, x>> \o y) \o <<Filename>>) \o args \in Seq(Str)
    BY <2>1, <2>2, Concat3, Zenon
  <2> QED
    BY <2>3, Zenon DEF script_argv, x, y
<1> QED
  BY <1>6, <1>7, Zenon DEF new_argv, p, Str


(* The zero behind a file shorter than the buffer stops every loop.        *)
LEMMA NoOverrun ==
  ASSUME NEW text \in Seq(Char), NEW rest \in Char, ~too_short(text), Len(text) < EXECPGSIZE
  PROVE  ~overrun(page(text, rest))
<1> DEFINE p == page(text, rest)
           l == Len(text)
           a == interp_begin(p)
           b == interp_end(p)
<1>1. l \in Nat /\ 2 <= l /\ l < EXECPGSIZE /\ 2 \in Nat
  BY SeqType DEF too_short
<1>2. p[l] = "nul"
  BY PageType, Zenon
<1>3. "nul" \in Char \ blank
  <2>1. "nul" \notin blank
    BY DEF blank
  <2> QED
    BY <2>1, ExecAssumption, Zenon
<1>4. a = StopAt(p, 2, Char \ blank) /\ b = StopAt(p, a, blank \cup {"newline", "nul"})
  BY Zenon DEF interp_begin, interp_end
<1> HIDE DEF p, l, a, b
<1>5. a \in 2 .. l
  BY <1>1, <1>2, <1>3, <1>4, StopBefore, ZenonT(30)
<1>6. a \in Nat /\ a <= l
  BY <1>1, <1>5
<1>7. b \in a .. l
  <2>1. p[l] \in blank \cup {"newline", "nul"}
    BY <1>2, Zenon
  <2> QED
    BY <1>1, <1>4, <1>6, <2>1, StopBefore, Zenon
<1>8. b \in Nat /\ b <= l
  BY <1>1, <1>6, <1>7
<1>9. arg_end(p) \in b .. l
  <2>1. p[l] \in {"newline", "nul"}
    BY <1>2, Zenon
  <2> QED
    BY <1>1, <1>8, <2>1, StopBefore, Zenon DEF arg_end, b
<1>10. interp_end(p) # EXECPGSIZE /\ arg_end(p) # EXECPGSIZE
  BY <1>1, <1>8, <1>9 DEF b
<1> QED
  BY <1>10, Zenon DEF overrun, p

-----------------------------------------------------------------------------
(* The words of a line are where their definition looks for them.          *)
LEMMA WordsFound ==
  ASSUME NEW line \in Seq(Char)
  PROVE  LET n == Len(line) + 1 IN
         \E a \in 1 .. n : \E b \in a .. n :
           /\ a = n \/ line[a] \notin blank
           /\ \A j \in 1 .. a - 1 : line[j] \in blank
           /\ b = n \/ line[b] \in blank
           /\ \A j \in a .. b - 1 : line[j] \notin blank
           /\ Words(line) = <<SubSeq(line, a, b - 1)>> \o IF b = n THEN <<>> ELSE <<SubSeq(line, b + 1, n - 1)>>
<1> DEFINE n == Len(line) + 1
           A(i) == (i = n \/ line[i] \notin blank) /\ \A j \in 1 .. i - 1 : line[j] \in blank
           B(c, i) == (i = n \/ line[i] \in blank) /\ \A j \in c .. i - 1 : line[j] \notin blank
           a == CHOOSE i \in 1 .. n : A(i)
           b == CHOOSE i \in a .. n : B(a, i)
<1>1. n \in Nat /\ 1 <= n /\ 1 \in Nat
  BY SeqType
<1> HIDE DEF n
<1>2. \E i \in 1 .. n : A(i)
  <2> DEFINE S == {i \in 1 .. n : i = n \/ line[i] \notin blank}
  <2>1. n \in 1 .. n
    BY <1>1
  <2>2. S \subseteq 1 .. n /\ S # {}
    BY <2>1, Zenon
  <2> HIDE DEF S
  <2>3. PICK m \in S : \A j \in S : m <= j
    BY <1>1, <2>2, LeastElement, Zenon
  <2>4. m \in 1 .. n /\ (m = n \/ line[m] \notin blank)
    BY <2>3, Zenon DEF S
  <2>5. \A j \in 1 .. m - 1 : j \in 1 .. n /\ ~(m <= j)
    BY <1>1, <2>4
  <2>6. \A j \in 1 .. m - 1 : line[j] \in blank
    BY <2>3, <2>5, Zenon DEF S
  <2> QED
    BY <2>4, <2>6, Zenon
<1>3. a \in 1 .. n /\ A(a)
  <2> HIDE DEF A
  <2> QED
    BY <1>2, Zenon
<1> HIDE DEF a
<1>4. \E i \in a .. n : B(a, i)
  <2> DEFINE S == {i \in a .. n : i = n \/ line[i] \in blank}
  <2>1. n \in a .. n /\ a \in Nat
    BY <1>1, <1>3
  <2>2. S \subseteq a .. n /\ S # {}
    BY <2>1, Zenon
  <2> HIDE DEF S
  <2>3. PICK m \in S : \A j \in S : m <= j
    BY <1>1, <2>1, <2>2, LeastElement, Zenon
  <2>4. m \in a .. n /\ (m = n \/ line[m] \in blank)
    BY <2>3, Zenon DEF S
  <2>5. \A j \in a .. m - 1 : j \in a .. n /\ ~(m <= j)
    BY <1>1, <2>1, <2>4
  <2>6. \A j \in a .. m - 1 : line[j] \notin blank
    BY <2>3, <2>5, Zenon DEF S
  <2> QED
    BY <2>4, <2>6, Zenon
<1>5. b \in a .. n /\ B(a, b)
  <2> HIDE DEF B
  <2> QED
    BY <1>4, Zenon
<1>6. Words(line) = <<SubSeq(line, a, b - 1)>> \o IF b = n THEN <<>> ELSE <<SubSeq(line, b + 1, n - 1)>>
  BY Zenon DEF Words, n, a
<1> HIDE DEF b
<1> QED
  BY <1>3, <1>5, <1>6, Zenon DEF n


(* The first line of a script, and the same characters in the buffer.      *)
LEMMA LineInPage ==
  ASSUME NEW text \in Seq(Char), NEW rest \in Char, HasFirstLine(text)
  PROVE  LET p == page(text, rest)
             line == FirstLine(text)
             n == Len(line) + 1
         IN  /\ line \in Seq(Char) /\ n \in Nat /\ n + 1 < EXECPGSIZE
             /\ p[n + 1] = "newline"
             /\ \A i \in 1 .. n - 1 :
                  line[i] = p[i + 1] /\ p[i + 1] \notin {"newline", "nul"} /\ p[i + 1] \in Char
<1> DEFINE p == page(text, rest)
           Q(k) == text[k] = "newline" /\ \A j \in 3 .. k - 1 : text[j] # "newline"
           e == CHOOSE k \in 3 .. Len(text) : Q(k)
           line == SubSeq(text, 3, e - 1)
           n == Len(line) + 1
<1>1. PICK c \in 3 .. Len(text) :
        c <= EXECPGSIZE /\ text[c] = "newline" /\ \A j \in 3 .. c : text[j] # "nul"
  BY Zenon DEF HasFirstLine
<1>2. EXECPGSIZE \in Nat /\ Len(text) \in Nat
  BY ExecAssumption, SeqType, Zenon
<1>3. PICK m \in 3 .. c : Q(m)
  <2> DEFINE S == {k \in 3 .. c : text[k] = "newline"}
  <2>1. c \in 3 .. c /\ c \in Nat /\ 3 \in Nat
    BY <1>1, <1>2
  <2>2. S \subseteq 3 .. c /\ S # {}
    BY <1>1, <2>1, Zenon
  <2> HIDE DEF S
  <2>3. PICK m \in S : \A j \in S : m <= j
    BY <2>1, <2>2, LeastElement, Zenon
  <2>4. m \in 3 .. c /\ text[m] = "newline"
    BY <2>3, Zenon DEF S
  <2>5. \A j \in 3 .. m - 1 : j \in 3 .. c /\ ~(m <= j)
    BY <2>1, <2>4
  <2>6. \A j \in 3 .. m - 1 : text[j] # "newline"
    BY <2>3, <2>5, Zenon DEF S
  <2> QED
    BY <2>4, <2>6, Zenon
<1>4. e \in 3 .. Len(text) /\ Q(e)
  <2>1. m \in 3 .. Len(text)
    BY <1>1, <1>2, <1>3
  <2> HIDE DEF Q
  <2> QED
    BY <1>3, <2>1, Zenon
<1>5. FirstLine(text) = line
  BY Zenon DEF FirstLine
<1> HIDE DEF e
<1>6. e \in 3 .. c
  <2>1. CASE m < e
    <3>1. m \in 3 .. e - 1
      BY <1>1, <1>2, <1>3, <1>4, <2>1
    <3> QED
      BY <1>3, <1>4, <3>1, Zenon
  <2> QED
    BY <1>1, <1>2, <1>3, <1>4, <2>1
<1>7. /\ e - 1 \in Nat /\ 3 \in Nat /\ 0 < 3 /\ 3 <= (e - 1) + 1 /\ e - 1 <= Len(text)
      /\ (e - 1) + 1 - 3 = e - 3 /\ (e - 3) + 1 = e - 2
  BY <1>2, <1>4
<1>8. /\ line \in Seq(Char) /\ Len(line) = e - 3
      /\ \A i \in 1 .. e - 3 : line[i] = text[3 + i - 1]
  <2>1. /\ line \in Seq(Char) /\ Len(line) = (e - 1) + 1 - 3
        /\ \A i \in 1 .. (e - 1) + 1 - 3 : line[i] = text[3 + i - 1]
    <3>1. PICK f : f = e - 1
      OBVIOUS
    <3>2. f \in Nat /\ 0 < 3 /\ 3 <= f + 1 /\ f <= Len(text)
      BY <1>7, <3>1, Zenon
    <3>3. /\ SubSeq(text, 3, f) \in Seq(Char) /\ Len(SubSeq(text, 3, f)) = f + 1 - 3
          /\ \A i \in 1 .. f + 1 - 3 : SubSeq(text, 3, f)[i] = text[3 + i - 1]
      BY <1>7, <3>2, SubType
    <3> QED
      BY <3>1, <3>3, Zenon
  <2> QED
    BY <1>7, <2>1, Zenon
<1>9. \A i \in Nat : i < Len(text) /\ i < EXECPGSIZE => p[i] = text[i + 1]
  BY PageType, Zenon
<1>10. \A i \in 0 .. EXECPGSIZE : p[i] \in Char
  BY PageType, Zenon
<1> HIDE DEF line, p
<1>11. n = e - 2 /\ n \in Nat
  BY <1>2, <1>4, <1>7, <1>8
<1>12. n + 1 < EXECPGSIZE /\ n + 1 < Len(text) /\ n + 1 \in Nat /\ (n + 1) + 1 = e /\ n - 1 = e - 3
  BY <1>1, <1>2, <1>6, <1>11
<1>13. p[n + 1] = "newline"
  BY <1>4, <1>9, <1>12, Zenon
<1>14. ASSUME NEW i \in 1 .. n - 1
       PROVE  line[i] = p[i + 1] /\ p[i + 1] \notin {"newline", "nul"} /\ p[i + 1] \in Char
  <2>1. /\ i \in 1 .. e - 3 /\ i + 1 \in Nat /\ i + 1 < Len(text) /\ i + 1 < EXECPGSIZE
        /\ (i + 1) + 1 = 3 + i - 1 /\ 3 + i - 1 \in 3 .. e - 1 /\ 3 + i - 1 \in 3 .. c
        /\ i + 1 \in 0 .. EXECPGSIZE
    BY <1>1, <1>2, <1>6, <1>11, <1>12
  <2>2. p[i + 1] = text[3 + i - 1] /\ line[i] = text[3 + i - 1]
    BY <1>8, <1>9, <2>1, Zenon
  <2>3. text[3 + i - 1] # "newline" /\ text[3 + i - 1] # "nul"
    BY <1>1, <1>4, <2>1, Zenon
  <2> QED
    BY <1>10, <2>1, <2>2, <2>3, Zenon
<1> HIDE DEF n
<1> QED
  BY <1>5, <1>8, <1>11, <1>12, <1>13, <1>14, ZenonT(30) DEF n, p


(* A sequence that is the same part of a line and of the buffer.           *)
LEMMA SamePart ==
  ASSUME NEW line \in Seq(Char), NEW p, \A i \in 0 .. EXECPGSIZE : p[i] \in Char,
         Len(line) + 2 <= EXECPGSIZE,
         \A i \in 1 .. Len(line) : line[i] = p[i + 1],
         NEW a \in Nat, NEW b \in Nat, 1 <= a, a <= b, b <= Len(line) + 1
  PROVE  Between(p, a + 1, b + 1) = SubSeq(line, a, b - 1)
<1> DEFINE s == Between(p, a + 1, b + 1)
           t == SubSeq(line, a, b - 1)
<1>1. EXECPGSIZE \in Nat /\ Len(line) \in Nat
  BY ExecAssumption, SeqType, Zenon
<1>2. PICK c : c = b - 1
  OBVIOUS
<1>3. c \in Nat /\ 0 < a /\ a <= c + 1 /\ c <= Len(line) /\ c + 1 - a = b - a
  BY <1>1, <1>2
<1>4. t \in Seq(Char) /\ Len(t) = b - a /\ \A i \in 1 .. b - a : t[i] = line[a + i - 1]
  <2>1. /\ SubSeq(line, a, c) \in Seq(Char) /\ Len(SubSeq(line, a, c)) = c + 1 - a
        /\ \A i \in 1 .. c + 1 - a : SubSeq(line, a, c)[i] = line[a + i - 1]
    BY <1>3, SubType
  <2> QED
    BY <1>2, <1>3, <2>1, Zenon
<1>5. s \in Seq(Char) /\ Len(s) = b - a /\ \A i \in 1 .. b - a : s[i] = p[a + i]
  <2>1. PICK d, f : d = a + 1 /\ f = b + 1
    OBVIOUS
  <2>2. d \in Nat /\ f \in Nat /\ d <= f /\ f <= EXECPGSIZE /\ f - d = b - a
    BY <1>1, <2>1
  <2>3. /\ Between(p, d, f) \in Seq(Char) /\ Len(Between(p, d, f)) = f - d
        /\ \A i \in 1 .. f - d : Between(p, d, f)[i] = p[d + i - 1]
    BY <2>2, BetweenType, ZenonT(30)
  <2>4. \A i \in 1 .. b - a : d + i - 1 = a + i
    BY <2>1
  <2> QED
    BY <2>1, <2>2, <2>3, <2>4, Zenon
<1> HIDE DEF s, t
<1>6. ASSUME NEW i \in 1 .. b - a PROVE s[i] = t[i]
  <2>1. a + i - 1 \in 1 .. Len(line) /\ (a + i - 1) + 1 = a + i
    BY <1>1
  <2> QED
    BY <1>4, <1>5, <2>1, Zenon
<1>7. s = t
  BY <1>4, <1>5, <1>6
<1> QED
  BY <1>7, Zenon DEF s, t

(* What exec_execev makes of a script with a complete first line.          *)
LEMMA ScriptMade ==
  ASSUME NEW text \in Seq(Char), NEW rest \in Char, ~too_short(text),
         SubSeq(text, 1, 2) = <<"#", "!">>, HasFirstLine(text), NEW args \in Seq(Seq(Char))
  PROVE  new_argv(page(text, rest), Filename, args)
           = <<sandbox_path, ld_path>> \o Words(FirstLine(text)) \o <<Filename>> \o args
<1> DEFINE p == page(text, rest)
           line == FirstLine(text)
           n == Len(line) + 1
           Str == Seq(Char)
<1>1. /\ line \in Seq(Char) /\ n \in Nat /\ n + 1 < EXECPGSIZE
      /\ p[n + 1] = "newline"
      /\ \A i \in 1 .. n - 1 :
           line[i] = p[i + 1] /\ p[i + 1] \notin {"newline", "nul"} /\ p[i + 1] \in Char
  BY LineInPage, Zenon
<1>2. PICK a \in 1 .. n : \E b \in a .. n :
           /\ a = n \/ line[a] \notin blank
           /\ \A j \in 1 .. a - 1 : line[j] \in blank
           /\ b = n \/ line[b] \in blank
           /\ \A j \in a .. b - 1 : line[j] \notin blank
           /\ Words(line) = <<SubSeq(line, a, b - 1)>> \o IF b = n THEN <<>> ELSE <<SubSeq(line, b + 1, n - 1)>>
  BY Zenon, <1>1, WordsFound
<1>3. PICK b \in a .. n :
           /\ a = n \/ line[a] \notin blank
           /\ \A j \in 1 .. a - 1 : line[j] \in blank
           /\ b = n \/ line[b] \in blank
           /\ \A j \in a .. b - 1 : line[j] \notin blank
           /\ Words(line) = <<SubSeq(line, a, b - 1)>> \o IF b = n THEN <<>> ELSE <<SubSeq(line, b + 1, n - 1)>>
  BY <1>2, Zenon
<1>4. ~is_elf(p)
  <2>1. Len(text) \in Nat /\ 1 \in Nat /\ 2 \in Nat /\ 0 < 1 /\ 1 <= 2 + 1 /\ 2 <= Len(text) /\ 0 < EXECPGSIZE /\ 0 \in Nat
    BY SeqType, ExecAssumption DEF too_short
  <2>2. \A i \in 1 .. 2 + 1 - 1 : SubSeq(text, 1, 2)[i] = text[1 + i - 1]
    BY <2>1, SubType
  <2>3. text[1] = "#"
    <3> DEFINE t == SubSeq(text, 1, 2)
    <3>1. t[1] = text[1]
      BY <2>2
    <3>2. t = <<"#", "!">>
      OBVIOUS
    <3> HIDE DEF t
    <3> QED
      BY <3>1, <3>2
  <2>4. p[0] = text[0 + 1]
    <3>1. 0 < Len(text)
      BY <2>1
    <3> QED
      BY <2>1, <3>1, PageType, Zenon
  <2>5. p[0] # "7f"
    <3> HIDE DEF p
    <3> QED
      BY <2>3, <2>4
  <2> QED
    BY <2>5, Zenon DEF is_elf
<1>5. \A i \in 0 .. EXECPGSIZE : p[i] \in Char
  BY PageType, Zenon
<1>6. EXECPGSIZE \in Nat /\ Len(line) \in Nat
  BY <1>1, ExecAssumption, SeqType, Zenon
<1>7. "newline" \notin blank /\ "newline" \in Char
  <2>1. "newline" \notin blank
    BY DEF blank
  <2> QED
    BY <2>1, ExecAssumption, Zenon
<1> HIDE DEF p, line
<1>8. a \in Nat /\ b \in Nat /\ 1 <= a /\ a <= b /\ b <= n /\ n - 1 = Len(line)
  BY <1>1, <1>2, <1>3, <1>6
<1>9. interp_begin(p) = a + 1
  <2>1. a + 1 \in 2 .. EXECPGSIZE /\ 2 \in Nat /\ 2 <= EXECPGSIZE
    BY <1>1, <1>6, <1>8
  <2>2. p[a + 1] \in Char \ blank
    <3>1. CASE a = n
      BY <3>1, <1>1, <1>7, Zenon
    <3>2. CASE a # n
      <4>1. a \in 1 .. n - 1
        BY <1>1, <1>8, <3>2
      <4> QED
        BY <4>1, <3>2, <1>1, <1>3, ZenonT(30)
    <3> QED
      BY <3>1, <3>2
  <2>3. ASSUME NEW j \in 2 .. (a + 1) - 1 PROVE p[j] \notin Char \ blank
    <3>1. j - 1 \in 1 .. a - 1 /\ j - 1 \in 1 .. n - 1 /\ (j - 1) + 1 = j
      BY <1>1, <1>8
    <3> QED
      BY <3>1, <1>1, <1>3, ZenonT(30)
  <2> QED
    BY <2>1, <2>2, <2>3, StopIs, ZenonT(30) DEF interp_begin
<1>10. interp_end(p) = b + 1
  <2> DEFINE stop == blank \cup {"newline", "nul"}
  <2>1. a + 1 \in Nat /\ a + 1 <= EXECPGSIZE /\ b + 1 \in a + 1 .. EXECPGSIZE
    BY <1>1, <1>6, <1>8
  <2>2. p[b + 1] \in stop
    <3>1. CASE b = n
      BY <3>1, <1>1, Zenon
    <3>2. CASE b # n
      <4>1. b \in 1 .. n - 1
        BY <1>1, <1>8, <3>2
      <4> QED
        BY <4>1, <3>2, <1>1, <1>3, ZenonT(30)
    <3> QED
      BY <3>1, <3>2
  <2>3. ASSUME NEW j \in a + 1 .. (b + 1) - 1 PROVE p[j] \notin stop
    <3>1. j - 1 \in a .. b - 1 /\ j - 1 \in 1 .. n - 1 /\ (j - 1) + 1 = j
      BY <1>1, <1>8
    <3> QED
      BY <3>1, <1>1, <1>3, ZenonT(30)
  <2> HIDE DEF stop
  <2>4. StopAt(p, a + 1, stop) = b + 1
    BY <2>1, <2>2, <2>3, StopIs, Zenon
  <2> QED
    BY <2>4, <1>9, Zenon DEF interp_end, stop
<1>11. no_args(p) <=> b = n
  <2>1. CASE b = n
    BY <2>1, <1>1, <1>10, Zenon DEF no_args
  <2>2. CASE b # n
    <3>1. b \in 1 .. n - 1
      BY <1>1, <1>8, <2>2
    <3> QED
      BY <3>1, <2>2, <1>1, <1>10, ZenonT(30) DEF no_args
  <2> QED
    BY <2>1, <2>2
<1>12. /\ Len(line) + 2 <= EXECPGSIZE
       /\ \A i \in 1 .. Len(line) : line[i] = p[i + 1]
  <2>1. Len(line) + 2 <= EXECPGSIZE
    BY <1>1, <1>6
  <2> QED
    BY <1>1, <1>8, <2>1, Zenon
<1>13. Between(p, interp_begin(p), interp_end(p)) = SubSeq(line, a, b - 1)
  <2>1. Between(p, a + 1, b + 1) = SubSeq(line, a, b - 1)
    BY ZenonT(30), <1>1, <1>5, <1>8, <1>12, SamePart
  <2> QED
    BY <1>9, <1>10, <2>1, Zenon
<1>14. ASSUME b # n PROVE argstring(p) = SubSeq(line, b + 1, n - 1)
  <2>1. b < n
    BY <1>8, <1>14
  <2>2. arg_end(p) = n + 1
    <3>1. b + 1 \in Nat /\ b + 1 <= EXECPGSIZE /\ n + 1 \in b + 1 .. EXECPGSIZE
      BY <1>1, <1>6, <1>8
    <3>2. ASSUME NEW j \in b + 1 .. (n + 1) - 1 PROVE p[j] \notin {"newline", "nul"}
      <4>1. j - 1 \in 1 .. n - 1 /\ (j - 1) + 1 = j
        BY <1>1, <1>8
      <4> QED
        BY <4>1, <1>1, Zenon
    <3>3. p[n + 1] \in {"newline", "nul"}
      BY <1>1, Zenon
    <3>4. StopAt(p, b + 1, {"newline", "nul"}) = n + 1
      BY <3>1, <3>2, <3>3, StopIs, Zenon
    <3> QED
      BY <3>4, <1>10, Zenon DEF arg_end
  <2>3. arg_begin(p) = (b + 1) + 1
    BY <1>10, Zenon DEF arg_begin
  <2>4. ~((n + 1) < (b + 1) + 1)
    BY <1>1, <1>8, <2>1
  <2>5. ~arg_unset(p)
    BY <2>2, <2>3, <2>4, Zenon DEF arg_unset
  <2>6. b + 1 \in Nat /\ 1 <= b + 1 /\ b + 1 <= n /\ n <= Len(line) + 1
    BY <1>1, <1>8, <2>1
  <2>7. Between(p, (b + 1) + 1, n + 1) = SubSeq(line, b + 1, n - 1)
    <3> HIDE DEF n
    <3> QED
      BY <1>1, <1>5, <1>12, <2>6, SamePart, ZenonT(30)
  <2> QED
    BY <2>2, <2>3, <2>5, <2>7, Zenon DEF argstring
<1> DEFINE x == SubSeq(line, a, b - 1)
           y == IF b = n THEN <<>> ELSE <<SubSeq(line, b + 1, n - 1)>>
<1>15. Words(line) = <<x>> \o y
  BY <1>3, Zenon
<1>16. new_argv(p, Filename, args) = ((<<sandbox_path, ld_path, x>> \o y) \o <<Filename>>) \o args
  <2>1. (IF no_args(p) THEN <<>> ELSE <<argstring(p)>>) = y
    BY <1>11, <1>14, Zenon
  <2> HIDE DEF x, y
  <2>2. Between(p, interp_begin(p), interp_end(p)) = x
    BY <1>13, Zenon DEF x
  <2> QED
    BY <1>4, <2>1, <2>2, Zenon DEF new_argv, script_argv
<1>17. x \in Str /\ y \in Seq(Str) /\ sandbox_path \in Str /\ ld_path \in Str
  <2>1. x \in Seq(Char)
    <3>1. PICK c : c = b - 1
      OBVIOUS
    <3>2. c \in Nat /\ 0 < a /\ a <= c + 1 /\ c <= Len(line)
      BY <1>6, <1>8, <3>1
    <3>3. SubSeq(line, a, c) \in Seq(Char)
      BY <1>1, <1>8, <3>2, SubType, Zenon
    <3> QED
      BY <3>1, <3>3, Zenon
  <2>2. b # n => SubSeq(line, b + 1, n - 1) \in Seq(Char)
    <3> SUFFICES ASSUME b # n PROVE SubSeq(line, b + 1, n - 1) \in Seq(Char)
      OBVIOUS
    <3>1. PICK c, d : c = n - 1 /\ d = b + 1
      BY Zenon
    <3>2. c \in Nat /\ d \in Nat /\ 0 < d /\ d <= c + 1 /\ c <= Len(line)
      BY <1>6, <1>8, <3>1
    <3>3. SubSeq(line, d, c) \in Seq(Char)
      BY <1>1, <3>2, SubType, Zenon
    <3> QED
      BY <3>1, <3>3, Zenon
  <2>3. b # n => <<SubSeq(line, b + 1, n - 1)>> \in Seq(Str)
    BY <2>2, Tuples, Zenon
  <2>4. y \in Seq(Str)
    <3>1. <<>> \in Seq(Str)
      BY <2>1, Tuples, Zenon
    <3> QED
      BY <2>3, <3>1, Zenon
  <2> QED
    BY <2>1, <2>4, ExecAssumption, Zenon
<1> HIDE DEF x, y, Str
<1>18. <<sandbox_path, ld_path, x>> \o y = <<sandbox_path, ld_path>> \o (<<x>> \o y)
  <2> DEFINE u == <<sandbox_path, ld_path, x>>
             v == <<sandbox_path, ld_path>>
             w == <<x>>
  <2>1. u = v \o w
    OBVIOUS
  <2>2. v \in Seq(Str) /\ w \in Seq(Str)
    BY <1>17, Tuples, Zenon
  <2> HIDE DEF u, v, w
  <2>3. (v \o w) \o y = v \o (w \o y)
    BY <1>17, <2>2, ConcatAssociative, SMTT(30)
  <2>4. u \o y = v \o (w \o y)
    BY <2>1, <2>3, Zenon
  <2> QED
    BY <2>4, Zenon DEF u, v, w
<1> QED
  BY <1>15, <1>16, <1>18, Zenon DEF p, line


-----------------------------------------------------------------------------
LEMMA NoElfType ==
  NoElf \in ElfFile
  BY DEF NoElf, ElfFile

(* The first state.                                                        *)
LEMMA InitInv ==
  ASSUME StartInit
  PROVE  StartInv
<1>1. PICK i \in Inputs : FirewallInit(i.file) /\ argv = i.argv /\ envv = i.envv
  BY Zenon DEF StartInit
<1>2. i.file \in Seq(Line) /\ i.argv \in Seq(Seq(Char)) /\ i.envv \in Seq(Seq(Char))
  BY StartAssumption, Zenon
<1>3. file \in Seq(Line) /\ pos = 1 /\ rules = <<>>
  BY <1>1, <1>2, Zenon DEF FirewallInit
<1>4. scratch \in [port : Nat \cup {Star, Junk, Unset}, ip : Ip \cup {Junk, Unset},
                   mask : Ip \cup {Junk, Unset}, inp : Ip \cup {Unset}]
  <2>1. scratch = [port |-> Unset, ip |-> Unset, mask |-> Unset, inp |-> Unset]
    BY <1>1, Zenon DEF FirewallInit
  <2> HIDE DEF Ip
  <2> QED
    BY <2>1
<1>5. FirewallInv
  BY <1>3, <1>4, FirewallStart, Zenon
<1>6. /\ stage = "parse" /\ elf = NoElf /\ next = 1 /\ mem = {} /\ execs = 0
  BY Zenon DEF StartInit
<1>7. StartTypeOK
  <2>1. next \in Nat \ {0} /\ execs \in Nat
    BY <1>6
  <2> QED
    BY <1>1, <1>2, <1>6, <2>1, NoElfType, ZenonT(30) DEF StartTypeOK
<1>8. ReadSoFar
  <2>1. 1 .. pos - 1 = {} /\ ~(execs > 0)
    BY <1>3, <1>6
  <2> QED
    BY <1>6, <2>1, Zenon DEF ReadSoFar
<1>9. LoadedInside
  BY <1>6, Zenon DEF LoadedInside
<1>10. StackMade
  BY <1>6 DEF StackMade
<1>11. CommandMade
  <2>1. ~(execs > 0)
    BY <1>6
  <2> QED
    BY <2>1, Zenon DEF CommandMade
<1> QED
  BY <1>5, <1>7, <1>8, <1>9, <1>10, <1>11, ZenonT(30) DEF StartInv

(* A step that leaves rules and command line alone.                        *)
LEMMA StepInv ==
  ASSUME StartInv, UNCHANGED <<fvars, argv, envv, call, execs>>,
         stage' \in {"parse", "boxer", "open", "load", "run", "exit"},
         stage' \notin {"parse", "exit"} /\ ~readerr' => pos = Len(file) + 1,
         stage' \in {"open", "load", "run"} => Len(argv) >= 2,
         stage' = "run" => app' = app_argv(argv[2], SubSeq(argv, 3, Len(argv)), envv),
         elf' \in ElfFile, next' \in Nat \ {0}, mem' \subseteq 0 .. APP_MAX_ELF_VADDR - 1
  PROVE  StartInv'
<1>1. /\ UNCHANGED fvars /\ argv' = argv /\ envv' = envv /\ call' = call /\ execs' = execs
      /\ file' = file /\ pos' = pos /\ rules' = rules
  BY Zenon DEF fvars
<1>2. FirewallInv'
  BY <1>1, FirewallKept, Zenon DEF StartInv
<1>3. StartTypeOK'
  BY <1>1, Zenon DEF StartInv, StartTypeOK, ElfFile
<1>4. ReadSoFar'
  BY <1>1, Zenon DEF StartInv, ReadSoFar
<1>5. LoadedInside'
  BY ZenonT(30) DEF LoadedInside
<1>6. StackMade'
  <2>1. app_argv(argv'[2], SubSeq(argv', 3, Len(argv')), envv') = app_argv(argv[2], SubSeq(argv, 3, Len(argv)), envv)
    BY <1>1, Zenon
  <2> QED
    BY Zenon, <1>1, <2>1 DEF StackMade, app_argv, bytes, overlap, padding, setup_len, align, table_bytes, arg_words, ALIGN, WORDSIZE, NUM_AUX
<1>7. CommandMade'
  BY <1>1, Zenon DEF StartInv, CommandMade, too_short
<1> QED
  BY <1>2, <1>3, <1>4, <1>5, <1>6, <1>7, ZenonT(30) DEF StartInv


(* A line of ufw.rules.                                                    *)
LEMMA ParseStepInv ==
  ASSUME StartInv, Parse
  PROVE  StartInv'
<1>1. /\ ParseLine /\ stage = "parse" /\ stage' = stage /\ readerr' = readerr /\ argv' = argv
      /\ envv' = envv /\ elf' = elf /\ next' = next /\ mem' = mem /\ app' = app
      /\ call' = call /\ execs' = execs
  BY Zenon DEF Parse, bvars
<1>2. FirewallInv'
  BY <1>1, ParseInv, Zenon DEF StartInv
<1>3. PICK n : n = pos
  OBVIOUS
<1>4. pos <= Len(file) /\ pos' = pos + 1 /\ file' = file /\ file[n].kind # "other"
  BY <1>1, <1>3 DEF ParseLine, SkipLine, BindLine, ConnectLine, Reads
<1>5. 1 .. pos' - 1 = (1 .. pos - 1) \cup {n} /\ Len(file) \in Nat /\ 1 <= pos /\ pos \in Nat
  <2>1. FirewallTypeOK
    BY Zenon DEF StartInv, FirewallInv
  <2>2. 1 .. pos' - 1 = (1 .. pos - 1) \cup {n}
    BY <1>3, <1>4, <2>1, RuleOfNext, Zenon
  <2> QED
    BY <2>1, <2>2 DEF FirewallTypeOK
<1>6. ~(execs > 0)
  <2> SUFFICES ASSUME execs > 0 PROVE FALSE
    OBVIOUS
  <2>1. file = <<>>
    BY Zenon DEF StartInv, ReadSoFar
  <2>2. Len(file) = 0
    BY <2>1
  <2> QED
    BY <1>4, <1>5, <2>2
<1>7. ReadSoFar'
  <2>1. \A j \in 1 .. pos' - 1 : file'[j].kind # "other"
    BY <1>4, <1>5, Zenon DEF StartInv, ReadSoFar
  <2> QED
    BY <1>1, <1>6, <2>1, Zenon DEF ReadSoFar
<1>8. StartTypeOK'
  BY <1>1, Zenon DEF StartInv, StartTypeOK, ElfFile
<1>9. LoadedInside'
  BY <1>1, Zenon DEF StartInv, LoadedInside
<1>10. StackMade'
  <2>1. stage' = "parse"
    BY <1>1, Zenon
  <2> QED
    BY <2>1 DEF StackMade
<1>11. CommandMade'
  BY <1>1, <1>6, Zenon DEF CommandMade
<1> QED
  BY <1>2, <1>7, <1>8, <1>9, <1>10, <1>11, ZenonT(30) DEF StartInv

(* The child of execve starts without rules on the new command line.       *)
LEMMA ExecInv ==
  ASSUME StartInv, NEW text \in Texts, NEW rest \in Char, NEW args \in Argvs,
         exec_execev(text, rest, args)
  PROVE  StartInv'
<1> DEFINE p == page(text, rest)
<1>1. /\ ~too_short(text) /\ ~noexec(p) /\ argv' = new_argv(p, Filename, args)
      /\ call' = [text |-> text, argv |-> args] /\ execs' = execs + 1
      /\ file' = <<>> /\ pos' = 1 /\ rules' = <<>> /\ scratch' = scratch
      /\ elf' = NoElf /\ next' = 1 /\ mem' = {} /\ stage' = "boxer" /\ envv' = envv
  BY Zenon DEF exec_execev, Goto
<1>2. text \in Seq(Char) /\ args \in Seq(Seq(Char))
  BY StartAssumption, Zenon
<1>3. FirewallInv'
  <2>1. /\ file' \in Seq(Line)
        /\ scratch' \in [port : Nat \cup {Star, Junk, Unset}, ip : Ip \cup {Junk, Unset},
                         mask : Ip \cup {Junk, Unset}, inp : Ip \cup {Unset}]
    <3>1. <<>> \in Seq(Line)
      OBVIOUS
    <3> QED
      BY <1>1, <3>1, Zenon DEF StartInv, FirewallInv, FirewallTypeOK
  <2>2. 1 .. pos' - 1 = {} /\ pos' \in 1 .. Len(file') + 1
    BY <1>1
  <2>3. rules' \in Seq(RuleRec) /\ DOMAIN rules' = {}
    BY <1>1
  <2>4. RulesInOrder' /\ OwnWords'
    BY <2>2, <2>3, Zenon DEF RulesInOrder, OwnWords
  <2> QED
    BY <2>1, <2>2, <2>3, <2>4, ZenonT(30) DEF FirewallInv, FirewallTypeOK, Line, RuleRec, Port, Ip
<1>4. execs \in Nat /\ execs' \in Nat /\ next' \in Nat \ {0}
  BY <1>1 DEF StartInv, StartTypeOK
<1>5. StartTypeOK'
  <2>1. argv' \in Seq(Seq(Char))
    BY <1>1, <1>2, CommandType, Zenon
  <2> QED
    BY <1>1, <1>4, <2>1, NoElfType, ZenonT(30) DEF StartInv, StartTypeOK, ElfFile
<1>6. ReadSoFar'
  <2>1. 1 .. pos' - 1 = {} /\ pos' = Len(file') + 1
    BY <1>1
  <2> QED
    BY <1>1, <2>1, Zenon DEF ReadSoFar
<1>7. LoadedInside'
  BY <1>1, Zenon DEF LoadedInside
<1>8. StackMade'
  BY <1>1 DEF StackMade
<1>9. CommandMade'
  <2>1. call'.text = text /\ call'.argv = args
    BY <1>1
  <2>2. CommandMade' = (execs' > 0 =>
          /\ call'.text \in Texts /\ call'.argv \in Argvs /\ ~too_short(call'.text)
          /\ \E r \in Char : /\ ~noexec(page(call'.text, r))
                             /\ argv' = new_argv(page(call'.text, r), Filename, call'.argv))
    BY Zenon DEF CommandMade, too_short
  <2> QED
    BY <1>1, <2>1, <2>2, ZenonT(30)
<1> QED
  BY <1>3, <1>5, <1>6, <1>7, <1>8, <1>9, ZenonT(30) DEF StartInv


(* Every step keeps the invariant.                                         *)
LEMMA NextInv ==
  ASSUME StartInv, [StartNext]_svars
  PROVE  StartInv'
<1> USE DEF Goto
<1>t. /\ stage \in {"parse", "boxer", "open", "load", "run", "exit"}
      /\ elf \in ElfFile /\ next \in Nat \ {0}
      /\ mem \subseteq 0 .. APP_MAX_ELF_VADDR - 1
      /\ stage \notin {"parse", "exit"} /\ ~readerr => pos = Len(file) + 1
      /\ stage \in {"open", "load", "run"} => Len(argv) >= 2
      /\ stage = "run" => app = app_argv(argv[2], SubSeq(argv, 3, Len(argv)), envv)
  BY Zenon DEF StartInv, StartTypeOK, ReadSoFar, LoadedInside, StackMade
<1>n. 1 \in Nat \ {0} /\ next + 1 \in Nat \ {0}
  BY <1>t
<1>1. CASE Parse
  BY <1>1, ParseStepInv, Zenon
<1>2. CASE CannotParse
  <2>1. /\ UNCHANGED <<fvars, argv, envv, call, execs>> /\ stage' = "exit"
        /\ elf' = elf /\ next' = next /\ mem' = mem
    BY <1>2, Zenon DEF CannotParse, bvars
  <2> QED
    BY <2>1, <1>t, StepInv
<1>3. CASE Parsed
  <2>1. /\ UNCHANGED <<fvars, argv, envv, call, execs>> /\ stage' = "boxer"
        /\ elf' = elf /\ next' = next /\ mem' = mem
    BY <1>3, Zenon DEF Parsed, bvars
  <2>2. pos = Len(file) + 1
    <3>1. pos \in 1 .. Len(file) + 1 /\ Len(file) \in Nat
      BY SeqType DEF StartInv, FirewallInv, FirewallTypeOK
    <3> QED
      BY <1>3, <3>1 DEF Parsed, ParseEnds
  <2> QED
    BY <2>1, <2>2, <1>t, StepInv
<1>4. CASE OpenError
  <2>1. /\ UNCHANGED <<fvars, argv, envv, call, execs>> /\ stage' = "exit"
        /\ elf' = elf /\ next' = next /\ mem' = mem
    BY <1>4, Zenon DEF OpenError, bvars
  <2> QED
    BY <2>1, <1>t, StepInv
<1>5. CASE ReadError
  <2>1. /\ UNCHANGED <<fvars, argv, envv, call, execs>> /\ stage' = "boxer" /\ readerr' = TRUE
        /\ elf' = elf /\ next' = next /\ mem' = mem
    BY <1>5, Zenon DEF ReadError, bvars
  <2> QED
    BY <2>1, <1>t, StepInv
<1>6. CASE boxer_main
  <2>1. /\ UNCHANGED <<fvars, argv, envv, call, execs>> /\ readerr' = readerr /\ stage = "boxer"
        /\ (Len(argv) >= 2 /\ stage' = "open") \/ stage' = "exit"
        /\ elf' = elf /\ next' = next /\ mem' = mem
    BY <1>6, Zenon DEF boxer_main, bvars
  <2> QED
    BY <2>1, <1>t, StepInv
<1>7. CASE load_elf
  <2>1. UNCHANGED <<fvars, argv, envv, call, execs>> /\ readerr' = readerr /\ stage = "open"
    BY <1>7, Zenon DEF load_elf
  <2>2. CASE stage' = "load" /\ elf' \in Elfs /\ next' = 1 /\ mem' = {}
    <3>1. elf' \in ElfFile
      BY <2>2, StartAssumption, Zenon
    <3> QED
      BY <2>1, <2>2, <3>1, <1>t, <1>n, StepInv
  <2>3. CASE stage' = "exit" /\ elf' = elf /\ next' = next /\ mem' = mem
    BY <2>1, <2>3, <1>t, StepInv
  <2> QED
    BY <1>7, <2>2, <2>3, Zenon DEF load_elf
<1>8. CASE SkipHeader
  <2>1. /\ UNCHANGED <<fvars, argv, envv, call, execs>> /\ readerr' = readerr
        /\ stage = "load" /\ stage' = stage
        /\ elf' = elf /\ next' = next + 1 /\ mem' = mem
    BY <1>8, ZenonT(30) DEF SkipHeader
  <2> QED
    BY <2>1, <1>t, <1>n, StepInv
<1>9. CASE LoadSegment
  <2>1. /\ UNCHANGED <<fvars, argv, envv, call, execs>> /\ readerr' = readerr
        /\ stage = "load" /\ stage' = stage
        /\ elf' = elf /\ next' = next + 1 /\ mem' = mem \cup Segment(elf, elf.ph[next])
        /\ next <= Len(elf.ph) /\ ~insecure(elf, elf.ph[next]) /\ host_loads(elf, elf.ph[next])
    BY <1>9, Zenon DEF LoadSegment
  <2>2. mem' \subseteq 0 .. APP_MAX_ELF_VADDR - 1
    BY <2>1, <1>t, SegmentInside, ZenonT(30)
  <2> QED
    BY <2>1, <2>2, <1>t, <1>n, StepInv
<1>10. CASE LoadFails
  <2>1. /\ UNCHANGED <<fvars, argv, envv, call, execs>> /\ stage' = "exit"
        /\ elf' = elf /\ next' = next /\ next <= Len(elf.ph)
        /\ \/ mem' = mem
           \/ /\ ~insecure(elf, elf.ph[next]) /\ host_loads(elf, elf.ph[next])
              /\ mem' = mem \cup Segment(elf, elf.ph[next])
    BY <1>10, Zenon DEF LoadFails
  <2>2. mem' \subseteq 0 .. APP_MAX_ELF_VADDR - 1
    BY <2>1, <1>t, SegmentInside, Zenon
  <2> QED
    BY <2>1, <2>2, <1>t, StepInv
<1>11. CASE RunApp
  <2>1. /\ UNCHANGED <<fvars, argv, envv, call, execs>> /\ readerr' = readerr /\ stage = "load"
        /\ elf' = elf /\ next' = next /\ mem' = mem
        /\ \/ stage' = "run" /\ app' = app_argv(argv[2], SubSeq(argv, 3, Len(argv)), envv)
           \/ stage' = "exit"
    BY <1>11, Zenon DEF RunApp
  <2> QED
    BY <2>1, <1>t, StepInv
<1>12. CASE \E text \in Texts, rest \in Char, args \in Argvs : exec_execev(text, rest, args)
  BY <1>12, ExecInv, ZenonT(30)
<1>13. CASE AppEnds
  <2>1. /\ UNCHANGED <<fvars, argv, envv, call, execs>> /\ stage' = "exit"
        /\ elf' = elf /\ next' = next /\ mem' = mem
    BY <1>13, Zenon DEF AppEnds, bvars
  <2> QED
    BY <2>1, <1>t, StepInv
<1>14. CASE UNCHANGED svars
  <2>1. /\ UNCHANGED <<fvars, argv, envv, call, execs>> /\ readerr' = readerr /\ stage' = stage
        /\ elf' = elf /\ next' = next /\ mem' = mem /\ app' = app
    BY <1>14, Zenon DEF svars, bvars
  <2> QED
    BY <2>1, <1>t, StepInv
<1> QED
  BY <1>1, <1>2, <1>3, <1>4, <1>5, <1>6, <1>7, <1>8, <1>9, <1>10, <1>11, <1>12, <1>13, <1>14, ZenonT(30)
     DEF StartNext

(* StartInv holds in every state of a process that is started as its       *)
(* rules, its ELF file and its command line say, and through execve.       *)
THEOREM StartInvariant ==
  StartSpec => []StartInv
<1>1. StartInit => StartInv
  BY InitInv
<1>2. StartInv /\ [StartNext]_svars => StartInv'
  BY NextInv
<1> QED
  BY <1>1, <1>2, PTL DEF StartSpec

(* The words of every line end up in its own rule, whatever the buffers of *)
(* firewall_parse held before it (firewall.c:57-60, 91, 99, 119).          *)
THEOREM OwnWordsAlways ==
  StartSpec => []OwnWords
<1>1. StartInv => OwnWords
  BY Zenon DEF StartInv, FirewallInv
<1> QED
  BY <1>1, StartInvariant, PTL

(* The last line of ufw.rules that matches a connect decides, and without  *)
(* one it is denied (firewall.c:144, 174-194).                             *)
THEOREM LastLineDecidesAlways ==
  StartSpec => []LastLineDecides
<1>1. StartInv => LastLineDecides
  BY ConnectDecided, Zenon DEF StartInv
<1> QED
  BY <1>1, StartInvariant, PTL

(* A bind is allowed just when some line names its port                    *)
(* (firewall.c:93-96, 157-167).                                            *)
THEOREM BindsAsListedAlways ==
  StartSpec => []BindsAsListed
<1>1. StartInv => BindsAsListed
  BY BindDecided, Zenon DEF StartInv
<1> QED
  BY <1>1, StartInvariant, PTL

(* Without a read error the program runs only behind all of its rules      *)
(* (firewall.c:138-141, 266-269).                                          *)
THEOREM AllRulesReadAlways ==
  StartSpec => []AllRulesRead
<1>1. StartInv => AllRulesRead
  <2> SUFFICES ASSUME StartInv, stage \notin {"parse", "exit"} /\ ~readerr
               PROVE  pos = Len(file) + 1 /\ \A j \in 1 .. Len(file) : file[j].kind # "other"
    BY Zenon DEF AllRulesRead
  <2>1. pos = Len(file) + 1 /\ \A j \in 1 .. pos - 1 : file[j].kind # "other"
    BY Zenon DEF StartInv, ReadSoFar
  <2>2. Len(file) \in Nat
    BY SeqType, Zenon DEF StartInv, FirewallInv, FirewallTypeOK
  <2>3. pos - 1 = Len(file)
    BY <2>1, <2>2
  <2> QED
    BY <2>1, <2>3, Zenon
<1> QED
  BY <1>1, StartInvariant, PTL

(* Segments are loaded only below APP_MAX_ELF_VADDR, whatever the headers  *)
(* of the ELF file say (main.c:40-45).                                     *)
THEOREM LoadedInsideAlways ==
  StartSpec => []LoadedInside
<1>1. StartInv => LoadedInside
  BY Zenon DEF StartInv
<1> QED
  BY <1>1, StartInvariant, PTL

(* The program finds its command line on the stack, but for the strings    *)
(* that begin in the first eight bytes (main.c:198, 201-262).              *)
THEOREM ArgumentsArriveAlways ==
  StartSpec => []ArgumentsArrive
<1>1. StartInv => ArgumentsArrive
  <2> SUFFICES ASSUME StartInv, stage = "run" PROVE ArgumentsArrive
    BY Zenon DEF ArgumentsArrive
  <2>1. argv \in Seq(Seq(Char)) /\ envv \in Seq(Seq(Char))
    BY Zenon DEF StartInv, StartTypeOK
  <2>2. Len(argv) >= 2 /\ app = app_argv(argv[2], SubSeq(argv, 3, Len(argv)), envv)
    BY Zenon DEF StartInv, StackMade
  <2> QED
    BY <2>1, <2>2, StackArrives, Zenon
<1> QED
  BY <1>1, StartInvariant, PTL

(* A script with a complete first line is run by the interpreter named     *)
(* there, with the rest of the line as one argument (exec.c:105-150).      *)
THEOREM ScriptCommandAlways ==
  StartSpec => []ScriptCommand
<1>1. StartInv => ScriptCommand
  <2> SUFFICES ASSUME StartInv, execs > 0, SubSeq(call.text, 1, 2) = <<"#", "!">>, HasFirstLine(call.text)
               PROVE  argv = <<sandbox_path, ld_path>> \o Words(FirstLine(call.text)) \o <<Filename>> \o call.argv
    BY Zenon DEF ScriptCommand
  <2>1. call.text \in Texts /\ call.argv \in Argvs /\ ~too_short(call.text)
    BY Zenon DEF StartInv, CommandMade
  <2>2. PICK rest \in Char : argv = new_argv(page(call.text, rest), Filename, call.argv)
    BY Zenon DEF StartInv, CommandMade
  <2>3. call.text \in Seq(Char) /\ call.argv \in Seq(Seq(Char))
    BY <2>1, StartAssumption, Zenon
  <2> QED
    BY <2>1, <2>2, <2>3, ScriptMade, Zenon
<1> QED
  BY <1>1, StartInvariant, PTL

(* A file shorter than the buffer never makes exec_execev write behind the *)
(* buffer (exec.c:48-49, 105-134).                                         *)
THEOREM BufferKeptAlways ==
  StartSpec => []BufferKept
<1>1. StartInv => BufferKept
  <2> SUFFICES ASSUME StartInv, execs > 0, Len(call.text) < EXECPGSIZE, NEW rest \in Char
               PROVE  ~overrun(page(call.text, rest))
    BY Zenon DEF BufferKept
  <2>1. call.text \in Texts /\ ~too_short(call.text)
    BY Zenon DEF StartInv, CommandMade
  <2>2. call.text \in Seq(Char)
    BY <2>1, StartAssumption, Zenon
  <2> QED
    BY <2>1, <2>2, NoOverrun, Zenon
<1> QED
  BY <1>1, StartInvariant, PTL
=============================================================================
