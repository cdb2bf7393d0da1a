---------------------------- MODULE AtCmd_proofs ----------------------------
(***************************************************************************)
(* The two streams of atcmd.c for any capacities of its rings, any calls   *)
(* and any data frames of up to nine bytes: the bytes under way form whole *)
(* lines and frames, the receiver is where their first byte belongs, every *)
(* token has its line, and a call that succeeds has read its own answer.   *)
(***************************************************************************)
EXTENDS AtCmd, FiniteSetTheorems, WellFoundedInduction, TLAPS

-----------------------------------------------------------------------------
(***************************************************************************)
(* Strings in a ring.                                                      *)
(***************************************************************************)

\* Natural numbers are well ordered.
LEMMA Least ==
  ASSUME NEW S \in SUBSET Nat, S # {}
  PROVE  \E n \in S : \A m \in S : n <= m
<1> DEFINE R == {p \in Nat \X Nat : p[1] < p[2]}
<1>1. IsWellFoundedOn(R, Nat)
  BY NatLessThanWellFounded DEF OpToRel
<1>2. PICK n \in S : \A m \in S : ~(<<m, n>> \in R)
  <2> HIDE DEF R
  <2> QED BY <1>1, WFMin
<1>3. ASSUME NEW m \in S PROVE n <= m
  <2>1. m \in Nat /\ n \in Nat /\ <<m, n>> \notin R
    BY <1>2
  <2> QED BY <2>1
<1> QED BY <1>3

\* The terminators in a ring.
Ends(r) == {i \in DOMAIN r : r[i] = NUL}

\* A string ends at the first terminator.
LEMMA StringEndFacts ==
  ASSUME NEW r \in Seq(Byte)
  PROVE  /\ StringEnd(r) \in 1..(Len(r) + 1)
         /\ Ends(r) = {} => StringEnd(r) = Len(r) + 1
         /\ Ends(r) # {} => StringEnd(r) \in Ends(r) /\ \A j \in Ends(r) : StringEnd(r) <= j
<1>1. DOMAIN r = 1..Len(r) /\ Len(r) \in Nat
  OBVIOUS
<1>2. CASE Ends(r) = {}
  BY <1>1, <1>2 DEF StringEnd, Ends
<1>3. CASE Ends(r) # {}
  <2>1. Ends(r) \in SUBSET Nat
    BY <1>1 DEF Ends
  <2>2. \E i \in Ends(r) : \A j \in Ends(r) : i <= j
    BY <1>3, <2>1, Least
  <2>3. StringEnd(r) = CHOOSE i \in Ends(r) : \A j \in Ends(r) : i <= j
    BY <1>3 DEF StringEnd, Ends
  <2>4. StringEnd(r) \in Ends(r) /\ \A j \in Ends(r) : StringEnd(r) <= j
    BY <2>2, <2>3
  <2> QED BY <1>1, <1>3, <2>4 DEF Ends
<1> QED BY <1>2, <1>3

\* Terminators can be counted.
LEMMA EndsFinite ==
  ASSUME NEW r \in Seq(Byte)
  PROVE  IsFiniteSet(Ends(r)) /\ Count(r, NUL) = Cardinality(Ends(r)) /\ Count(r, NUL) \in Nat
<1>1. Len(r) \in Nat /\ Ends(r) \subseteq 1..Len(r)
  BY DEF Ends
<1>2. IsFiniteSet(1..Len(r))
  BY <1>1, FS_Interval
<1>3. IsFiniteSet(Ends(r))
  BY <1>1, <1>2, FS_Subset
<1> QED BY <1>3, FS_CardinalityType DEF Count, Ends

\* ringbuffer_put of a terminator counts, of another byte does not.
LEMMA PutCount ==
  ASSUME NEW r \in Seq(Byte), NEW b \in Byte
  PROVE  Count(Append(r, b), NUL) = Count(r, NUL) + (IF b = NUL THEN 1 ELSE 0)
<1>1. Len(r) \in Nat /\ Append(r, b) \in Seq(Byte) /\ Len(Append(r, b)) = Len(r) + 1
  OBVIOUS
<1>2. /\ \A i \in 1..Len(r) : Append(r, b)[i] = r[i]
      /\ Append(r, b)[Len(r) + 1] = b
  OBVIOUS
<1>3. Ends(Append(r, b)) = IF b = NUL THEN Ends(r) \cup {Len(r) + 1} ELSE Ends(r)
  <2>1. DOMAIN r = 1..Len(r) /\ DOMAIN Append(r, b) = 1..(Len(r) + 1)
    BY <1>1
  <2> QED BY <1>1, <1>2, <2>1 DEF Ends
<1>4. Len(r) + 1 \notin Ends(r)
  BY <1>1 DEF Ends
<1>5. IsFiniteSet(Ends(r)) /\ Count(r, NUL) = Cardinality(Ends(r)) /\ Count(r, NUL) \in Nat
      /\ Count(Append(r, b), NUL) = Cardinality(Ends(Append(r, b)))
  BY <1>1, EndsFinite
<1>6. CASE b = NUL
  <2>1. Cardinality(Ends(r) \cup {Len(r) + 1}) = Cardinality(Ends(r)) + 1
    BY <1>4, <1>5, FS_AddElement
  <2> QED BY <1>3, <1>5, <1>6, <2>1
<1>7. CASE b # NUL
  BY <1>3, <1>5, <1>7
<1> QED BY <1>6, <1>7

\* What is left in the ring when its first string has been read.
LEMMA AfterString ==
  ASSUME NEW r \in Seq(Byte)
  PROVE  LET n == StringEnd(r) IN
         /\ SubSeq(r, n + 1, Len(r)) \in Seq(Byte)
         /\ Len(SubSeq(r, n + 1, Len(r))) <= Len(r)
         /\ \A i \in DOMAIN SubSeq(r, n + 1, Len(r)) :
              i + n \in DOMAIN r /\ SubSeq(r, n + 1, Len(r))[i] = r[i + n]
         /\ Ends(r) # {} => Count(SubSeq(r, n + 1, Len(r)), NUL) = Count(r, NUL) - 1
<1> DEFINE n == StringEnd(r)
           q == SubSeq(r, n + 1, Len(r))
<1>1. Len(r) \in Nat /\ DOMAIN r = 1..Len(r) /\ n \in 1..(Len(r) + 1)
  BY StringEndFacts
<1>2. /\ q \in Seq(Byte)
      /\ Len(q) = IF n + 1 <= Len(r) THEN Len(r) - n ELSE 0
      /\ \A i \in 1..Len(q) : q[i] = r[i + n]
  BY <1>1
<1>3. DOMAIN q = 1..Len(q) /\ Len(q) \in Nat
  BY <1>2
<1>4. ASSUME Ends(r) # {} PROVE Count(q, NUL) = Count(r, NUL) - 1
  <2>1. n \in Ends(r) /\ \A j \in Ends(r) : n <= j
    BY <1>4, StringEndFacts
  <2>2. Cardinality(Ends(r) \ {n}) = Cardinality(Ends(r)) - 1
    BY <2>1, EndsFinite, FS_RemoveElement
  <2>3. Cardinality(Ends(q)) = Cardinality(Ends(r) \ {n})
    <3> DEFINE f == [i \in Ends(q) |-> i + n]
    <3>0. n \in Nat /\ n <= Len(r) /\ Len(q) = Len(r) - n
      BY <1>1, <1>2, <2>1 DEF Ends
    <3> HIDE DEF n, q
    <3>1. ASSUME NEW i \in Ends(q) PROVE i \in Nat /\ i + n \in Ends(r) \ {n}
      <4>1. i \in 1..Len(q) /\ q[i] = NUL
        BY <1>3 DEF Ends
      <4>2. i + n \in 1..Len(r) /\ i + n # n /\ i \in Nat
        BY <1>1, <3>0, <4>1
      <4>3. r[i + n] = NUL
        BY <1>2, <4>1
      <4> QED BY <1>1, <4>2, <4>3 DEF Ends
    <3>2. ASSUME NEW j \in Ends(r) \ {n} PROVE \E i \in Ends(q) : i + n = j
      <4>1. j \in 1..Len(r) /\ n < j /\ r[j] = NUL
        BY <1>1, <2>1, <3>0 DEF Ends
      <4>2. j - n \in 1..Len(q) /\ (j - n) + n = j
        BY <1>1, <3>0, <4>1
      <4>3. q[j - n] = NUL
        BY <1>2, <4>1, <4>2
      <4>4. j - n \in Ends(q)
        BY <1>3, <4>2, <4>3 DEF Ends
      <4> QED BY <4>2, <4>4
    <3>3. f \in Bijection(Ends(q), Ends(r) \ {n})
      <4>1. f \in [Ends(q) -> Ends(r) \ {n}]
        BY <3>1
      <4>2. \A i, j \in Ends(q) : f[i] = f[j] => i = j
        BY <3>0, <3>1
      <4>3. \A j \in Ends(r) \ {n} : \E i \in Ends(q) : f[i] = j
        BY <3>2
      <4> QED BY <4>1, <4>2, <4>3 DEF Bijection, Injection, Surjection, IsInjective
    <3>4. IsFiniteSet(Ends(q))
      BY <1>2, EndsFinite
    <3>5. ExistsBijection(Ends(q), Ends(r) \ {n})
      BY <3>3 DEF ExistsBijection
    <3> QED BY <3>4, <3>5, FS_Bijection
  <2> QED BY <1>2, <2>2, <2>3, EndsFinite
<1>5. ASSUME NEW i \in DOMAIN q PROVE i + n \in DOMAIN r /\ q[i] = r[i + n]
  <2> HIDE DEF n, q
  <2>1. i \in 1..Len(q)
    BY <1>3
  <2>2. n + 1 <= Len(r) /\ Len(q) = Len(r) - n
    <3>1. (n + 1 <= Len(r) /\ Len(q) = Len(r) - n) \/ Len(q) = 0
      BY <1>2, Zenon
    <3>2. Len(q) # 0
      BY <2>1
    <3> QED BY <3>1, <3>2
  <2>3. i + n \in 1..Len(r)
    BY <1>1, <2>1, <2>2
  <2> QED BY <1>1, <1>2, <2>1, <2>3
<1>6. Len(q) <= Len(r)
  BY <1>1, <1>2
<1> QED BY <1>2, <1>4, <1>5, <1>6

-----------------------------------------------------------------------------
(***************************************************************************)
(* The scripts, the modem's answers and the digits of a length.            *)
(***************************************************************************)

Calls == {"reply", "replys", "ccid", "imei", "csq", "sack", "ops", "lacci", "connect", "close", "send"}

\* The first element of a sequence and the others.
LEMMA HeadTail ==
  ASSUME NEW S, NEW q \in Seq(S), q # <<>>
  PROVE  /\ Head(q) \in S /\ Tail(q) \in Seq(S) /\ Head(q) = q[1]
         /\ Len(q) \in Nat \ {0} /\ Len(Tail(q)) = Len(q) - 1
         /\ DOMAIN q = 1..Len(q) /\ DOMAIN Tail(q) = 1..(Len(q) - 1)
         /\ \A i \in 1..(Len(q) - 1) : Tail(q)[i] = q[i + 1] /\ i + 1 \in DOMAIN q
OBVIOUS

\* A sequence after another.
LEMMA Joined ==
  ASSUME NEW S, NEW q \in Seq(S), NEW r \in Seq(S)
  PROVE  /\ q \o r \in Seq(S) /\ Len(q) \in Nat /\ Len(r) \in Nat /\ Len(q \o r) = Len(q) + Len(r)
         /\ DOMAIN q = 1..Len(q) /\ DOMAIN r = 1..Len(r) /\ DOMAIN (q \o r) = 1..(Len(q) + Len(r))
         /\ \A i \in 1..Len(q) : (q \o r)[i] = q[i]
         /\ \A i \in 1..Len(r) : (q \o r)[Len(q) + i] = r[i]
         /\ \A i \in (Len(q) + 1)..(Len(q) + Len(r)) : (q \o r)[i] = r[i - Len(q)] /\ i - Len(q) \in 1..Len(r)
OBVIOUS

LEMMA Associative ==
  ASSUME NEW S, NEW q \in Seq(S), NEW r \in Seq(S), NEW t \in Seq(S)
  PROVE  (q \o r) \o t = q \o (r \o t) /\ r \o t \in Seq(S)
OBVIOUS

\* One more element.
LEMMA AppendOne == ASSUME NEW x, NEW y PROVE Append(<<x>>, y) = <<x, y>>
<1> DEFINE f == Append(<<x>>, y)
<1>1. f \in Seq({x, y}) /\ Len(f) = 2 /\ f[1] = x /\ f[2] = y
  OBVIOUS
<1> HIDE DEF f
<1>2. f = <<x, y>>
  BY <1>1
<1> QED BY <1>2 DEF f

LEMMA AppendTwo == ASSUME NEW x, NEW y, NEW z PROVE Append(<<x, y>>, z) = <<x, y, z>>
<1> DEFINE f == Append(<<x, y>>, z)
<1>1. f \in Seq({x, y, z}) /\ Len(f) = 3 /\ f[1] = x /\ f[2] = y /\ f[3] = z
  OBVIOUS
<1> HIDE DEF f
<1>2. f = <<x, y, z>>
  BY <1>1
<1> QED BY <1>2 DEF f

\* The scripts, step by step.
LEMMA Scripts ==
  /\ DOMAIN Script = Calls
  /\ Script["reply"] = <<Exec("AT", "OK")>>
  /\ Script["replys"] = <<Exec("AT+CREG?", "none"), Exec("NULL", "any")>>
  /\ Script["ccid"] = <<Exec("AT+QCCID", "none"), Exec("NULL", "any")>>
  /\ Script["imei"] = <<Exec("AT+GSN", "none"), Exec("NULL", "any")>>
  /\ Script["csq"] = <<Exec("AT+CSQ", "+CSQ:")>>
  /\ Script["sack"] = <<Exec("AT+QISACK", "+QISACK:")>>
  /\ Script["ops"] = <<Exec("AT+COPS?", "+COPS:")>>
  /\ Script["lacci"] = <<Exec("AT+CREG?", "+CREG:")>>
  /\ Script["connect"] = <<Exec("AT+QIDNSIP", "OK"), Exec("AT+QIOPEN", "any"), Exec("NULL", "CONNECT")>>
  /\ Script["close"] = <<Exec("AT+QICLOSE", "CLOSE_OK")>>
  /\ Script["send"] = <<Exec("AT+QISEND", "none"), Exec("data", "any")>>
BY DEF Script, Calls

LEMMA ExecFields == ASSUME NEW c, NEW e PROVE Exec(c, e).cmd = c /\ Exec(c, e).exp = e
BY DEF Exec

\* A script starts with a command, waits in its last step, and only send has data.
StepFacts(o, s) ==
  /\ Script[o][s].cmd \in Commands \cup {"NULL"}
  /\ s = 1 => Script[o][s].cmd \notin {"NULL", "data"}
  /\ Script[o][s].cmd = "data" => o = "send" /\ s = 2
  /\ Script[o][s].exp = "none" => s = 1 /\ o \in {"replys", "ccid", "imei", "send"}
  /\ o \in {"replys", "ccid", "imei", "send"} /\ s # 1 => s = 2 /\ Script[o][s].exp = "any"

LEMMA OneStep ==
  ASSUME NEW o \in {"reply", "csq", "sack", "ops", "lacci", "close"}, NEW s \in DOMAIN Script[o]
  PROVE  s = 1 /\ StepFacts(o, s)
<1>1. \E c \in Commands \ {"NULL", "data"}, e \in {"OK", "+CSQ:", "+QISACK:", "+COPS:", "+CREG:", "CLOSE_OK"} : Script[o] = <<Exec(c, e)>>
  BY Scripts DEF Commands
<1>2. PICK c \in Commands \ {"NULL", "data"}, e \in {"OK", "+CSQ:", "+QISACK:", "+COPS:", "+CREG:", "CLOSE_OK"} : Script[o] = <<Exec(c, e)>>
  BY <1>1
<1>3. s = 1 /\ Script[o][s] = Exec(c, e)
  BY <1>2
<1>4. Script[o][s].cmd = c /\ Script[o][s].exp = e
  BY <1>3, ExecFields
<1> QED BY <1>3, <1>4 DEF StepFacts

LEMMA TwoSteps ==
  ASSUME NEW o \in {"replys", "ccid", "imei", "send"}, NEW s \in DOMAIN Script[o]
  PROVE  s \in 1..2 /\ StepFacts(o, s)
<1>1. \E c \in Commands \ {"NULL", "data"}, d \in {"NULL", "data"} :
        Script[o] = <<Exec(c, "none"), Exec(d, "any")>> /\ (d = "data" => o = "send")
  BY Scripts DEF Commands
<1>2. PICK c \in Commands \ {"NULL", "data"}, d \in {"NULL", "data"} :
        Script[o] = <<Exec(c, "none"), Exec(d, "any")>> /\ (d = "data" => o = "send")
  BY <1>1
<1>3. s \in 1..2 /\ (s = 1 => Script[o][s] = Exec(c, "none")) /\ (s = 2 => Script[o][s] = Exec(d, "any"))
  BY <1>2
<1>4. /\ s = 1 => Script[o][s].cmd = c /\ Script[o][s].exp = "none"
      /\ s = 2 => Script[o][s].cmd = d /\ Script[o][s].exp = "any"
  BY <1>3, ExecFields
<1>5. "data" \in Commands
  BY DEF Commands
<1> QED BY <1>2, <1>3, <1>4, <1>5 DEF StepFacts

LEMMA ThreeSteps ==
  ASSUME NEW s \in DOMAIN Script["connect"]
  PROVE  s \in 1..3 /\ StepFacts("connect", s)
<1>1. s \in 1..3 /\ Script["connect"][s] \in {Exec("AT+QIDNSIP", "OK"), Exec("AT+QIOPEN", "any"), Exec("NULL", "CONNECT")}
      /\ (s = 1 => Script["connect"][s] = Exec("AT+QIDNSIP", "OK"))
  BY Scripts
<1>2. /\ Script["connect"][s].cmd \in {"AT+QIDNSIP", "AT+QIOPEN", "NULL"}
      /\ Script["connect"][s].exp \in {"OK", "any", "CONNECT"}
      /\ s = 1 => Script["connect"][s].cmd = "AT+QIDNSIP"
  BY <1>1, ExecFields
<1> QED BY <1>1, <1>2 DEF StepFacts, Commands

LEMMA ScriptFacts ==
  ASSUME NEW o \in Calls
  PROVE  1 \in DOMAIN Script[o] /\ \A s \in DOMAIN Script[o] : s \in Nat /\ StepFacts(o, s)
<1>1. 1 \in DOMAIN Script[o]
  BY Scripts DEF Calls
<1>2. CASE o \in {"reply", "csq", "sack", "ops", "lacci", "close"}
  BY <1>1, <1>2, OneStep
<1>3. CASE o \in {"replys", "ccid", "imei", "send"}
  BY <1>1, <1>3, TwoSteps
<1>4. CASE o = "connect"
  BY <1>1, <1>4, ThreeSteps
<1> QED BY <1>2, <1>3, <1>4 DEF Calls

\* The steps that follow a command whose reply is not awaited.
LEMMA SecondSteps ==
  /\ \A o \in {"replys", "ccid", "imei"} : 2 \in DOMAIN Script[o] /\ Script[o][2] = Exec("NULL", "any")
  /\ 2 \in DOMAIN Script["send"] /\ Script["send"][2] = Exec("data", "any")
  /\ Script["send"][1] = Exec("AT+QISEND", "none")
BY DEF Script

\* atcmd_connect_tcp.
LEMMA ConnectSteps ==
  /\ DOMAIN Script["connect"] = 1..3
  /\ Script["connect"][1] = Exec("AT+QIDNSIP", "OK")
  /\ Script["connect"][2] = Exec("AT+QIOPEN", "any")
  /\ Script["connect"][3] = Exec("NULL", "CONNECT")
BY DEF Script

\* The texts of answers.
Replies == {"OK", "ERROR", "SEND_OK", "SEND_FAIL", "CONNECT_OK", "CONNECT_FAIL", "ALREADY_CONNECT", "CLOSE_OK",
            "89860012345678901234", "868120000000000", "+CREG:1", "+CREG:0", "+CREG:cell",
            "+CSQ:28", "+CSQ:40", "+QISACK:9-9-0", "+QISACK:9", "+COPS:CHINA"}

LEMMA AnswerTexts ==
  ASSUME NEW cmd \in Commands, NEW a \in Answers(cmd)
  PROVE  \/ a = <<>>
         \/ \E x \in Replies : a = <<x>> /\ (cmd = "AT+QISEND" => x = "ERROR")
         \/ cmd # "AT+QISEND" /\ \E x, y \in Replies : a = <<x, y>>
<1>1. CASE a \in {<<>>, <<"ERROR">>}
  BY <1>1 DEF Replies
<1>2. CASE a \notin {<<>>, <<"ERROR">>}
  <2>1. CASE cmd \in {"AT", "AT+CREG?", "AT+QCCID", "AT+GSN"}
    BY <1>2, <2>1 DEF Answers, Replies
  <2>2. CASE cmd \in {"AT+QISACK", "AT+COPS?", "AT+CSQ", "AT+QIDNSIP"}
    BY <1>2, <2>2 DEF Answers, Replies
  <2>3. CASE cmd \in {"AT+QIOPEN", "AT+QICLOSE", "AT+QISEND", "data"}
    BY <1>2, <2>3 DEF Answers, Replies
  <2> QED BY <2>1, <2>2, <2>3 DEF Commands
<1> QED BY <1>1, <1>2

\* The modem's answers are lines of text, and to AT+QISEND it says at most ERROR.
LEMMA AnswerFacts ==
  ASSUME NEW cmd \in Commands, NEW a \in Answers(cmd)
  PROVE  /\ a \in Seq(Replies)
         /\ cmd = "AT+QISEND" => \A i \in DOMAIN a : a[i] = "ERROR"
<1>1. CASE a = <<>>
  BY <1>1
<1>2. CASE \E x \in Replies : a = <<x>> /\ (cmd = "AT+QISEND" => x = "ERROR")
  <2>1. PICK x \in Replies : a = <<x>> /\ (cmd = "AT+QISEND" => x = "ERROR")
    BY <1>2
  <2> QED BY <2>1
<1>3. CASE cmd # "AT+QISEND" /\ \E x, y \in Replies : a = <<x, y>>
  <2>1. PICK x, y \in Replies : a = <<x, y>>
    BY <1>3
  <2> QED BY <1>3, <2>1
<1> QED BY <1>1, <1>2, <1>3, AnswerTexts

LEMMA RepliesText == Replies \subseteq Text /\ Replies \cap {"NL", "CR", "NUL"} = {}
BY DEF Replies, Text

\* A digit is read as the number it was written for.
LEMMA DigitFacts ==
  ASSUME NEW n \in 0..9
  PROVE  /\ IsDigit(B(Digits[n + 1])) /\ Value(B(Digits[n + 1])) = n
         /\ Digits[n + 1] \in Text \ {":"}
<1>1. \A i, j \in 1..10 : Digits[i] = Digits[j] => i = j
  BY DEF Digits, Text
<1>2. \A i \in 1..10 : Digits[i] \in Text \ {":"}
  BY DEF Digits, Text
<1>3. B(Digits[n + 1]).ch = Digits[n + 1] /\ n + 1 \in 1..10
  BY DEF B
<1>4. (CHOOSE i \in 1..10 : Digits[i] = B(Digits[n + 1]).ch) = n + 1
  BY <1>1, <1>3
<1>5. IsDigit(B(Digits[n + 1]))
  BY <1>3 DEF IsDigit
<1>6. Value(B(Digits[n + 1])) = n
  <2>1. Value(B(Digits[n + 1])) = (n + 1) - 1
    BY <1>4 DEF Value
  <2> QED BY <2>1
<1> QED BY <1>2, <1>3, <1>5, <1>6

-----------------------------------------------------------------------------
(***************************************************************************)
(* Types, part by part.                                                    *)
(***************************************************************************)

Points == {"idle", "preclear", "preclear_half", "clear", "clear_half", "send", "pend", "read"}

\* Where the task is, and the step of its script it can be there for.
At(o, s, p) ==
  /\ o \in Calls \cup {"none"} /\ (o # "none" => s \in DOMAIN Script[o])
  /\ p \in Points
  /\ (p = "idle" <=> o = "none")
  /\ p \in {"pend", "read"} => Script[o][s].exp # "none"
  /\ p \in {"preclear", "preclear_half"} => o = "send" /\ s = 1
  /\ p \in {"clear", "clear_half"} => Script[o][s].cmd \notin {"NULL", "data"}
  /\ p = "send" => Script[o][s].cmd # "NULL"

CallsOK ==
  /\ times \in Nat /\ plan \in Seq([call : Calls, times : Nat])
  /\ id \in Nat /\ quiet \in BOOLEAN /\ expired \in BOOLEAN

Types == ReceiverOK /\ At(op, step, pc) /\ CallsOK /\ OutsideOK

LEMMA TypesSuffice == ASSUME Types PROVE TypeOK
<1>1. DOMAIN Script = Calls
  BY Scripts
<1>2. /\ op \in DOMAIN Script \cup {"none"} /\ (op # "none" => step \in DOMAIN Script[op])
      /\ pc \in {"idle", "preclear", "preclear_half", "clear", "clear_half", "send", "pend", "read"}
      /\ (pc = "idle" <=> op = "none") /\ (pc \in {"pend", "read"} => Now.exp # "none")
  BY <1>1 DEF Types, At, Points, Now
<1>3. times \in Nat /\ plan \in Seq([call : DOMAIN Script, times : Nat])
  BY <1>1 DEF Types, CallsOK
<1>4. id \in Nat /\ quiet \in BOOLEAN /\ expired \in BOOLEAN
  BY DEF Types, CallsOK
<1>5. CallOK
  BY <1>2, <1>3, <1>4 DEF CallOK
<1> QED BY <1>5 DEF TypeOK, Types

\* ringbuffer_put keeps the capacity.
LEMMA PutFacts ==
  ASSUME NEW r \in Seq(Byte), NEW b \in Byte, NEW cap \in Nat, Len(r) <= cap
  PROVE  /\ Put(r, b, cap) \in Seq(Byte) /\ Len(Put(r, b, cap)) <= cap
         /\ Len(r) # cap => Put(r, b, cap) = Append(r, b)
         /\ \A i \in DOMAIN Put(r, b, cap) :
              (i \in DOMAIN r /\ Put(r, b, cap)[i] = r[i]) \/ Put(r, b, cap)[i] = b
<1>1. CASE Len(r) < cap
  <2>1. Put(r, b, cap) = Append(r, b)
    BY <1>1 DEF Put
  <2>2. /\ Append(r, b) \in Seq(Byte) /\ Len(Append(r, b)) <= cap
        /\ \A i \in DOMAIN Append(r, b) : (i \in DOMAIN r /\ Append(r, b)[i] = r[i]) \/ Append(r, b)[i] = b
    BY <1>1
  <2> QED BY <2>1, <2>2
<1>2. CASE ~(Len(r) < cap)
  BY <1>2 DEF Put
<1> QED BY <1>1, <1>2

LEMMA ByteFacts ==
  /\ NUL \in Byte /\ NL \in Byte /\ NUL.of = 0 /\ NL.of = 0 /\ NUL.ch = "NUL" /\ NL.ch = "NL"
  /\ \A c : B(c).ch = c /\ B(c).of = 0
  /\ \A c \in Text : B(c) \in Byte
<1>1. "NL" \in Text
  BY DEF Text
<1> QED BY <1>1 DEF Byte, NUL, NL, B

\* The digit of a length.
LEMMA ValueType == ASSUME NEW b, IsDigit(b) PROVE Value(b) \in 0..9
<1>1. PICK i \in 1..10 : Digits[i] = b.ch
  BY DEF IsDigit
<1>2. (CHOOSE j \in 1..10 : Digits[j] = b.ch) \in 1..10
  BY <1>1
<1> DEFINE v == CHOOSE j \in 1..10 : Digits[j] = b.ch
<1>3. Value(b) = v - 1 /\ v \in 1..10
  BY <1>2 DEF Value
<1> HIDE DEF v
<1> QED BY <1>3

-----------------------------------------------------------------------------
(***************************************************************************)
(* The task moves along its scripts.                                       *)
(***************************************************************************)

\* Where a command starts.
LEMMA AfterStartFacts ==
  ASSUME NEW o \in Calls, NEW s \in DOMAIN Script[o]
  PROVE  /\ At(o, s, AfterStart(Script[o][s]))
         /\ s = 1 => AfterStart(Script[o][s]) = "clear"
         /\ AfterStart(Script[o][s]) \in {"pend", "send", "clear"}
         /\ AfterStart(Script[o][s]) = "send" => Script[o][s].cmd = "data"
<1>1. StepFacts(o, s) /\ o # "none"
  BY ScriptFacts DEF Calls
<1> DEFINE c == Script[o][s].cmd
           e == Script[o][s].exp
           p == AfterStart(Script[o][s])
<1>2. /\ s = 1 => c \notin {"NULL", "data"}
      /\ e = "none" => s = 1
  BY <1>1 DEF StepFacts
<1>3. p = IF c = "NULL" THEN "pend" ELSE IF c = "data" THEN "send" ELSE "clear"
  BY DEF AfterStart
<1>4. /\ p \in {"pend", "send", "clear"}
      /\ p = "pend" => e # "none"
      /\ p = "clear" => c \notin {"NULL", "data"}
      /\ p = "send" => c = "data"
      /\ s = 1 => p = "clear"
  <2> HIDE DEF c, e, p
  <2> QED BY <1>2, <1>3
<1>5. p \in Points /\ p # "idle" /\ p \notin {"read", "preclear", "preclear_half", "clear_half"}
  <2> HIDE DEF c, e, p
  <2> QED BY <1>4 DEF Points
<1>6. /\ p \in {"pend", "read"} => e # "none"
      /\ p \in {"preclear", "preclear_half"} => o = "send" /\ s = 1
      /\ p \in {"clear", "clear_half"} => c \notin {"NULL", "data"}
      /\ p = "send" => c # "NULL"
  <2> HIDE DEF c, e, p
  <2> QED BY <1>4, <1>5
<1>7. At(o, s, p)
  <2> HIDE DEF p
  <2> QED BY <1>1, <1>5, <1>6 DEF At
<1> QED BY <1>4, <1>7

LEMMA IdleAt == At("none", 1, "idle")
BY DEF At, Points

\* A step that stays in its place.
TaskOK == At(op, step, pc) /\ CallsOK

LEMMA StartTask ==
  ASSUME TaskOK, NEW call \in Calls, Start(call)
  PROVE  TaskOK' /\ pc' \in {"preclear", "clear"} /\ quiet'
<1>1. Head(plan) \in [call : Calls, times : Nat] /\ Tail(plan) \in Seq([call : Calls, times : Nat])
  <2>1. plan \in Seq([call : Calls, times : Nat]) /\ plan # <<>>
    BY DEF TaskOK, CallsOK, Start
  <2> QED BY <2>1, HeadTail
<1>2. CallsOK'
  BY <1>1 DEF TaskOK, CallsOK, Start
<1>3. 1 \in DOMAIN Script[call]
  BY ScriptFacts
<1>4. CASE call = "send"
  <2>1. op' = "send" /\ step' = 1 /\ pc' = "preclear"
    BY <1>4 DEF Start
  <2>2. At("send", 1, "preclear")
    BY <1>3, <1>4 DEF At, Points, Calls
  <2> QED BY <1>2, <2>1, <2>2 DEF TaskOK, Start
<1>5. CASE call # "send"
  <2>1. op' = call /\ step' = 1 /\ pc' = AfterStart(Script[call][1])
    BY <1>5 DEF Start
  <2>2. At(call, 1, AfterStart(Script[call][1])) /\ AfterStart(Script[call][1]) = "clear"
    BY <1>3, AfterStartFacts
  <2> QED BY <1>2, <2>1, <2>2 DEF TaskOK, Start
<1> QED BY <1>4, <1>5

LEMMA ClearTask ==
  ASSUME TaskOK, ClearFirst \/ ClearSecond
  PROVE  /\ TaskOK'
         /\ pc' = "clear_half" => pc = "clear"
         /\ pc' = "send" => pc = "clear_half"
         /\ pc' \in {"preclear_half", "clear_half", "clear", "send"}
<1>1. op' = op /\ step' = step /\ times' = times /\ plan' = plan /\ id' = id /\ expired' = expired
  BY DEF ClearFirst, ClearSecond, Clear
<1>2. quiet' \in BOOLEAN
  BY DEF ClearFirst, ClearSecond, TaskOK, CallsOK
<1>3. CallsOK'
  BY <1>1, <1>2 DEF TaskOK, CallsOK
<1>4. \/ pc = "preclear" /\ pc' = "preclear_half"
      \/ pc = "clear" /\ pc' = "clear_half"
      \/ pc = "preclear_half" /\ pc' = "clear"
      \/ pc = "clear_half" /\ pc' = "send"
  BY DEF ClearFirst, ClearSecond
<1>5. CASE pc \in {"preclear", "preclear_half"}
  <2>1. op = "send" /\ step = 1 /\ pc' \in {"preclear_half", "clear"}
    BY <1>4, <1>5 DEF TaskOK, At
  <2>2. Script["send"][1].cmd \notin {"NULL", "data"} /\ 1 \in DOMAIN Script["send"] /\ "send" \in Calls
    BY ScriptFacts DEF StepFacts, Calls
  <2>3. At("send", 1, pc')
    BY <2>1, <2>2 DEF At, Points
  <2> QED BY <1>1, <1>3, <1>4, <2>1, <2>3 DEF TaskOK
<1>6. CASE pc \in {"clear", "clear_half"}
  <2>1. At(op, step, pc') /\ pc' \in {"clear_half", "send"}
    BY <1>4, <1>6 DEF TaskOK, At, Points
  <2> QED BY <1>1, <1>3, <1>4, <1>6, <2>1 DEF TaskOK
<1> QED BY <1>4, <1>5, <1>6

\* The steps a command is sent in: of a send first AT+QISEND and then the
\* data, of the other calls the only one.
LEMMA SendTask ==
  ASSUME TaskOK, Send
  PROVE  /\ TaskOK' /\ op' = op /\ op \in Calls /\ Now.cmd \in Commands /\ id' = id + 1 /\ quiet' = quiet
         /\ \/ op # "send" /\ pc' = "pend" /\ Now.cmd # "data"
            \/ op = "send" /\ pc' = "send" /\ Now.cmd = "AT+QISEND" /\ Now'.cmd = "data"
            \/ op = "send" /\ pc' = "pend" /\ Now.cmd = "data"
<1>1. /\ op' = op /\ times' = times /\ plan' = plan /\ id' = id + 1 /\ quiet' = quiet /\ expired' = expired
      /\ pc = "send"
  BY DEF Send
<1>2. CallsOK'
  BY <1>1 DEF TaskOK, CallsOK
<1>3. op \in Calls /\ step \in DOMAIN Script[op] /\ Now.cmd # "NULL"
  BY <1>1 DEF TaskOK, At, Now
<1>4. /\ Now.cmd \in Commands \cup {"NULL"}
      /\ Now.cmd = "data" => op = "send" /\ step = 2
      /\ Now.exp = "none" => step = 1 /\ op \in {"replys", "ccid", "imei", "send"}
      /\ op = "send" /\ step # 1 => step = 2 /\ Now.exp = "any"
  BY <1>3, ScriptFacts DEF StepFacts, Now
<1>5. Now.cmd \in Commands
  BY <1>3, <1>4
<1>6. CASE Now.exp = "none" /\ op # "send"
  <2>1. op \in {"replys", "ccid", "imei"} /\ step = 1 /\ step' = 2 /\ pc' = AfterStart(Script[op][2])
    BY <1>4, <1>6 DEF Send
  <2>2. 2 \in DOMAIN Script[op] /\ Script[op][2] = Exec("NULL", "any")
    BY <2>1, SecondSteps
  <2>3. AfterStart(Script[op][2]) = "pend"
    BY <2>2, ExecFields DEF AfterStart
  <2>4. At(op, 2, AfterStart(Script[op][2]))
    BY <1>3, <2>2, AfterStartFacts
  <2>5. Now.cmd # "data"
    BY <1>4, <1>6
  <2> QED BY <1>1, <1>2, <1>3, <1>5, <1>6, <2>1, <2>3, <2>4, <2>5 DEF TaskOK
<1>7. CASE Now.exp = "none" /\ op = "send"
  <2>1. step = 1 /\ step' = 2 /\ pc' = AfterStart(Script["send"][2])
    BY <1>4, <1>7 DEF Send
  <2>2. /\ 2 \in DOMAIN Script["send"] /\ Script["send"][2] = Exec("data", "any")
        /\ Script["send"][1] = Exec("AT+QISEND", "none")
    BY SecondSteps
  <2>3. Script["send"][2].cmd = "data" /\ Script["send"][1].cmd = "AT+QISEND"
    BY <2>2, ExecFields
  <2>4. AfterStart(Script["send"][2]) = "send"
    BY <2>3 DEF AfterStart
  <2>5. At("send", 2, AfterStart(Script["send"][2]))
    BY <1>3, <1>7, <2>2, AfterStartFacts
  <2>6. Now'.cmd = "data" /\ Now.cmd = "AT+QISEND"
    BY <1>1, <1>7, <2>1, <2>3 DEF Now
  <2> QED BY <1>1, <1>2, <1>3, <1>5, <1>7, <2>1, <2>4, <2>5, <2>6 DEF TaskOK
<1>8. CASE Now.exp # "none"
  <2>1. step' = step /\ pc' = "pend"
    BY <1>8 DEF Send
  <2>2. At(op, step, "pend")
    BY <1>1, <1>3, <1>8 DEF TaskOK, At, Points, Now
  <2>3. op = "send" => Now.cmd = "data"
    <3>1. Script["send"][1].exp = "none" /\ Script["send"][2].cmd = "data"
      BY SecondSteps, ExecFields
    <3>2. ASSUME op = "send" PROVE step = 2
      BY <1>4, <1>8, <3>1, <3>2 DEF Now
    <3> QED BY <3>1, <3>2 DEF Now
  <2>4. op # "send" => Now.cmd # "data"
    BY <1>4
  <2> QED BY <1>1, <1>2, <1>3, <1>5, <2>1, <2>2, <2>3, <2>4 DEF TaskOK
<1> QED BY <1>6, <1>7, <1>8

\* Where a wait may end.
LEMMA FinishTask ==
  ASSUME NEW r, Finish(r)
  PROVE  At(op, step, pc)' /\ pc' = "idle" /\ times' \in Nat
BY IdleAt DEF Finish

LEMMA RetryTask ==
  ASSUME TaskOK, pc \in {"pend", "read"}, RetryOrFail
  PROVE  At(op, step, pc)' /\ pc' \in {"clear", "idle"} /\ times' \in Nat
<1>1. op \in Calls
  BY DEF TaskOK, At
<1>2. CASE Finish(FALSE)
  BY <1>2, FinishTask
<1>3. CASE times > 1 /\ times' = times - 1 /\ step' = 1 /\ pc' = AfterStart(Script[op][1]) /\ op' = op
  <2>1. times' \in Nat
    BY <1>3 DEF TaskOK, CallsOK
  <2>2. 1 \in DOMAIN Script[op]
    BY <1>1, ScriptFacts
  <2>3. At(op, 1, AfterStart(Script[op][1])) /\ AfterStart(Script[op][1]) = "clear"
    BY <1>1, <2>2, AfterStartFacts
  <2> QED BY <1>3, <2>1, <2>3
<1> QED BY <1>2, <1>3 DEF RetryOrFail

LEMMA ConfirmedTask ==
  ASSUME TaskOK, pc \in {"pend", "read"}, Confirmed
  PROVE  At(op, step, pc)' /\ pc' \in {"preclear", "idle"} /\ times' \in Nat
<1>1. CASE Finish(TRUE)
  BY <1>1, FinishTask
<1>2. CASE op = "send" /\ times > 1 /\ times' = times - 1 /\ step' = 1 /\ pc' = "preclear" /\ op' = op
  <2>1. times' \in Nat
    BY <1>2 DEF TaskOK, CallsOK
  <2>2. 1 \in DOMAIN Script["send"] /\ "send" \in Calls
    BY ScriptFacts DEF Calls
  <2>3. At("send", 1, "preclear")
    BY <2>2 DEF At, Points
  <2> QED BY <1>2, <2>1, <2>3
<1> QED BY <1>1, <1>2 DEF Confirmed

LEMMA AgainTask ==
  ASSUME TaskOK, pc = "read", NEW timeout \in BOOLEAN, Again(timeout)
  PROVE  At(op, step, pc)' /\ times' \in Nat /\
         (pc' \in {"clear", "idle"} \/ (pc' = "pend" /\ op' = op /\ step' = step))
<1>1. CASE timeout
  BY <1>1, RetryTask DEF Again
<1>2. CASE ~timeout
  <2>1. pc' = "pend" /\ op' = op /\ step' = step /\ times' = times
    BY <1>2 DEF Again
  <2>2. At(op, step, "pend")
    BY DEF TaskOK, At, Points
  <2> QED BY <2>1, <2>2 DEF TaskOK, CallsOK
<1> QED BY <1>1, <1>2

LEMMA PendTask ==
  ASSUME TaskOK, Pend
  PROVE  TaskOK' /\ pc = "pend" /\ pc' = "read" /\ op' = op /\ step' = step /\ id' = id /\ quiet' = quiet
<1>1. /\ pc = "pend" /\ pc' = "read" /\ op' = op /\ step' = step /\ times' = times /\ plan' = plan
      /\ id' = id /\ quiet' = quiet /\ expired' = expired
  BY DEF Pend
<1>2. At(op, step, "read")
  BY <1>1 DEF TaskOK, At, Points
<1> QED BY <1>1, <1>2 DEF TaskOK, CallsOK

LEMMA PendTimeoutTask ==
  ASSUME TaskOK, PendTimeout
  PROVE  TaskOK' /\ pc' \in {"clear", "idle"}
<1>1. /\ pc = "pend" /\ plan' = plan /\ id' = id /\ quiet' = quiet /\ expired' = expired /\ RetryOrFail
  BY DEF PendTimeout
<1>2. At(op, step, pc)' /\ pc' \in {"clear", "idle"} /\ times' \in Nat
  BY <1>1, RetryTask
<1> QED BY <1>1, <1>2 DEF TaskOK, CallsOK

LEMMA DeadlineTask ==
  ASSUME TaskOK, DeadlinePassed
  PROVE  TaskOK' /\ pc = "pend" /\ pc' \in {"preclear", "clear", "idle"}
<1>1. /\ pc = "pend" /\ plan' = plan /\ id' = id /\ quiet' = quiet
      /\ expired' = (expired \/ op = "send") /\ (Confirmed \/ RetryOrFail)
  BY DEF DeadlinePassed
<1>2. At(op, step, pc)' /\ pc' \in {"preclear", "clear", "idle"} /\ times' \in Nat
  BY <1>1, RetryTask, ConfirmedTask
<1> QED BY <1>1, <1>2 DEF TaskOK, CallsOK

\* What a step of Read does, by the string it has read.
Str == SubSeq(rb, 1, StringEnd(rb) - 1)
StrText == IF Str = <<>> THEN "empty" ELSE IF Len(Str) = 1 \/ op = "replys" THEN Str[1].ch ELSE "garbled"
StrFirst == IF Str = <<>> THEN "empty" ELSE Str[1].ch

LEMMA ReadCases ==
  ASSUME Read
  PROVE  /\ pc = "read" /\ line' = Str /\ rb' = SubSeq(rb, StringEnd(rb) + 1, Len(rb))
         /\ sem' = sem /\ plan' = plan /\ id' = id /\ quiet' = quiet /\ late' = late
         /\ \E timeout \in BOOLEAN :
              \/ expired' = expired /\ Again(timeout)
              \/ /\ GoOn(StrText) /\ step' = step + 1 /\ pc' = AfterStart(Script[op][step + 1])
                 /\ op' = op /\ times' = times /\ res' = res /\ expired' = expired
              \/ /\ StartsWith(StrFirst, Now.exp) /\ ~GoOn(StrText) /\ Good(StrText)
                 /\ expired' = expired /\ Confirmed
              \/ expired' = expired /\ Finish(FALSE)
<1>1. /\ pc = "read" /\ line' = Str /\ rb' = SubSeq(rb, StringEnd(rb) + 1, Len(rb))
      /\ sem' = sem /\ plan' = plan /\ id' = id /\ quiet' = quiet /\ late' = late
  BY DEF Read, Str
<1>2. \E timeout \in BOOLEAN :
        \/ ~StartsWith(StrFirst, Now.exp) /\ expired' = expired /\ Again(timeout)
        \/ /\ StartsWith(StrFirst, Now.exp) /\ GoOn(StrText)
           /\ step' = step + 1 /\ pc' = AfterStart(Script[op][step + 1])
           /\ timeout /\ UNCHANGED <<op, times, res, expired>>
        \/ /\ StartsWith(StrFirst, Now.exp) /\ ~GoOn(StrText) /\ Good(StrText)
           /\ expired' = expired /\ timeout /\ Confirmed
        \/ /\ StartsWith(StrFirst, Now.exp) /\ ~GoOn(StrText) /\ ~Good(StrText) /\ Bad(StrText)
           /\ expired' = expired /\ timeout /\ Finish(FALSE)
        \/ /\ StartsWith(StrFirst, Now.exp) /\ ~GoOn(StrText) /\ ~Good(StrText) /\ ~Bad(StrText)
           /\ expired' = expired /\ Again(timeout /\ op \notin {"send", "replys"})
  BY Zenon DEF Read, Str, StrText, StrFirst
<1>3. \A timeout \in BOOLEAN : (timeout /\ op \notin {"send", "replys"}) \in BOOLEAN
  OBVIOUS
<1> QED BY <1>1, <1>2, <1>3

LEMMA ReadTask ==
  ASSUME TaskOK, Read
  PROVE  /\ TaskOK' /\ pc = "read" /\ id' = id /\ quiet' = quiet
         /\ pc' \in {"preclear", "clear", "idle"} \/ (pc' = "pend" /\ op' = op)
<1>1. pc = "read" /\ plan' = plan /\ id' = id /\ quiet' = quiet
  BY ReadCases
<1>2. PICK timeout \in BOOLEAN :
        \/ expired' = expired /\ Again(timeout)
        \/ /\ GoOn(StrText) /\ step' = step + 1 /\ pc' = AfterStart(Script[op][step + 1])
           /\ op' = op /\ times' = times /\ res' = res /\ expired' = expired
        \/ /\ StartsWith(StrFirst, Now.exp) /\ ~GoOn(StrText) /\ Good(StrText)
           /\ expired' = expired /\ Confirmed
        \/ expired' = expired /\ Finish(FALSE)
  BY ReadCases
<1>3. expired' \in BOOLEAN
  BY <1>2 DEF TaskOK, CallsOK
<1>4. /\ At(op, step, pc)' /\ times' \in Nat
      /\ pc' \in {"preclear", "clear", "idle"} \/ (pc' = "pend" /\ op' = op)
  <2>1. CASE Again(timeout)
    BY <1>1, <2>1, AgainTask
  <2>2. CASE Confirmed
    BY <1>1, <2>2, ConfirmedTask
  <2>3. CASE Finish(FALSE)
    BY <2>3, FinishTask
  <2>4. CASE /\ GoOn(StrText) /\ step' = step + 1 /\ pc' = AfterStart(Script[op][step + 1])
             /\ op' = op /\ times' = times
    <3>1. op = "connect" /\ step + 1 \in {2, 3}
      BY <2>4 DEF GoOn
    <3>2. step + 1 \in DOMAIN Script["connect"] /\ "connect" \in Calls
      BY <3>1, ConnectSteps DEF Calls
    <3> DEFINE s == step + 1
    <3>3. /\ At("connect", s, AfterStart(Script["connect"][s]))
          /\ AfterStart(Script["connect"][s]) \in {"pend", "send", "clear"}
          /\ AfterStart(Script["connect"][s]) = "send" => Script["connect"][s].cmd = "data"
      BY <3>2, AfterStartFacts
    <3>4. Script["connect"][s].cmd # "data"
      BY <3>2, ThreeSteps DEF StepFacts
    <3> QED BY <2>4, <3>1, <3>3, <3>4 DEF TaskOK, CallsOK
  <2> QED BY <1>2, <2>1, <2>2, <2>3, <2>4
<1> QED BY <1>1, <1>3, <1>4 DEF TaskOK, CallsOK

-----------------------------------------------------------------------------
(***************************************************************************)
(* Types of the receiver, the reader and the modem.                        *)
(***************************************************************************)

LEMMA ContentOK ==
  ASSUME ReceiverOK, NEW b \in Byte, serial_recv_ipd_content(b), late' \in Nat
  PROVE  ReceiverOK'
<1>1. /\ ipd_rb' = Put(ipd_rb, b, IpdCap) /\ overflow' = (overflow \/ Len(ipd_rb) = IpdCap)
      /\ ipd_recv_index' = ipd_recv_index + 1
      /\ serial_recv' \in {"default", "content"}
      /\ rb' = rb /\ sem' = sem /\ auto_prefix' = auto_prefix /\ ipd_length' = ipd_length /\ stale' = stale
  BY DEF serial_recv_ipd_content
<1>2. ipd_rb' \in Seq(Byte) /\ Len(ipd_rb') <= IpdCap
  BY <1>1, PutFacts, BoundsAssumption DEF ReceiverOK
<1> QED BY <1>1, <1>2 DEF ReceiverOK

LEMMA LengthOK ==
  ASSUME ReceiverOK, NEW b \in Byte, serial_recv_ipd_length(b), late' \in Nat
  PROVE  ReceiverOK'
<1>1. /\ rb' = rb /\ sem' = sem /\ ipd_rb' = ipd_rb /\ auto_prefix' = auto_prefix
      /\ stale' = stale /\ overflow' = overflow
  BY DEF serial_recv_ipd_length
<1>2. serial_recv' \in {"length", "content"} /\ ipd_recv_index' \in Nat
  BY DEF serial_recv_ipd_length, ReceiverOK
<1>3. ipd_length' \in Nat /\ ipd_length' < 65536
  <2>1. CASE IsDigit(b) /\ b.ch # ":"
    <3>1. Value(b) \in 0..9
      BY <2>1, ValueType
    <3>2. ipd_length' = (ipd_length * 10 + Value(b)) % 65536
      BY <2>1 DEF serial_recv_ipd_length
    <3>3. ipd_length \in Nat
      BY DEF ReceiverOK
    <3> QED BY <3>1, <3>2, <3>3
  <2>2. CASE ~(IsDigit(b) /\ b.ch # ":")
    <3>1. ipd_length' = ipd_length
      BY <2>2 DEF serial_recv_ipd_length
    <3> QED BY <3>1 DEF ReceiverOK
  <2> QED BY <2>1, <2>2
<1> QED BY <1>1, <1>2, <1>3 DEF ReceiverOK

\* The three things that happen to a byte in the default state.
LineEnd ==
  /\ auto_prefix' = <<>> /\ rb' = Put(rb, NUL, RbCap) /\ overflow' = (overflow \/ Len(rb) = RbCap)
  /\ sem' = sem + 1 /\ serial_recv' = "default"
  /\ UNCHANGED <<ipd_rb, ipd_length, ipd_recv_index, stale>>

FrameStart ==
  /\ rb' = <<>> /\ stale' = (stale \/ sem > 0 \/ pc = "read")
  /\ serial_recv' = "length" /\ ipd_length' = 0 /\ auto_prefix' = <<>>
  /\ UNCHANGED <<overflow, sem, ipd_rb, ipd_recv_index>>

Stored(b) ==
  /\ auto_prefix' = IF Len(auto_prefix) < 5 THEN Append(auto_prefix, b.ch) ELSE auto_prefix
  /\ rb' = Put(rb, b, RbCap) /\ overflow' = (overflow \/ Len(rb) = RbCap)
  /\ serial_recv' = "default"
  /\ UNCHANGED <<ipd_length, stale, sem, ipd_rb, ipd_recv_index>>

Skipped ==
  /\ serial_recv' = "default"
  /\ UNCHANGED <<rb, sem, ipd_rb, auto_prefix, ipd_length, ipd_recv_index, stale, overflow>>

LEMMA DefaultCases ==
  ASSUME NEW b, serial_recv_serial_default(b)
  PROVE  \/ b.ch = "NL" /\ LineEnd
         \/ b.ch = "CR" /\ Skipped
         \/ /\ b.ch \notin {"NL", "CR"} /\ FrameStart
            /\ (IF Len(auto_prefix) < 5 THEN Append(auto_prefix, b.ch) ELSE auto_prefix) = <<"I", "P", "D">>
         \/ /\ b.ch \notin {"NL", "CR"} /\ Stored(b)
            /\ (IF Len(auto_prefix) < 5 THEN Append(auto_prefix, b.ch) ELSE auto_prefix) # <<"I", "P", "D">>
<1>1. CASE b.ch = "NL"
  BY <1>1 DEF serial_recv_serial_default, LineEnd
<1>2. CASE b.ch = "CR"
  BY <1>2 DEF serial_recv_serial_default, Skipped
<1> DEFINE prefix == IF Len(auto_prefix) < 5 THEN Append(auto_prefix, b.ch) ELSE auto_prefix
<1>3. CASE b.ch \notin {"NL", "CR"} /\ prefix = <<"I", "P", "D">>
  BY <1>3 DEF serial_recv_serial_default, FrameStart
<1>4. CASE b.ch \notin {"NL", "CR"} /\ prefix # <<"I", "P", "D">>
  BY <1>4 DEF serial_recv_serial_default, Stored
<1> QED BY <1>1, <1>2, <1>3, <1>4

LEMMA DefaultOK ==
  ASSUME ReceiverOK, NEW b \in Byte, serial_recv_serial_default(b), late' \in Nat
  PROVE  ReceiverOK'
<1>1. CASE LineEnd
  <2>1. Put(rb, NUL, RbCap) \in Seq(Byte) /\ Len(Put(rb, NUL, RbCap)) <= RbCap
    BY PutFacts, BoundsAssumption, ByteFacts DEF ReceiverOK
  <2> QED BY <1>1, <2>1 DEF LineEnd, ReceiverOK
<1>2. CASE Skipped
  BY <1>2 DEF Skipped, ReceiverOK
<1>3. CASE FrameStart
  BY <1>3, BoundsAssumption DEF FrameStart, ReceiverOK
<1>4. CASE Stored(b)
  <2>1. Put(rb, b, RbCap) \in Seq(Byte) /\ Len(Put(rb, b, RbCap)) <= RbCap
    BY PutFacts, BoundsAssumption DEF ReceiverOK
  <2>2. b.ch \in Text \cup {"NUL"}
    BY DEF Byte
  <2>3. auto_prefix' \in Seq(Text \cup {"NUL"}) /\ Len(auto_prefix') <= 5
    BY <1>4, <2>2 DEF Stored, ReceiverOK
  <2> QED BY <1>4, <2>1, <2>3 DEF Stored, ReceiverOK
<1> QED BY <1>1, <1>2, <1>3, <1>4, DefaultCases

\* A byte is received in time, or late and then by the default state.
LEMMA RecvCases ==
  ASSUME ReceiverOK, OutsideOK, atcmd_recv_serial_byte
  PROVE  /\ wire # <<>> /\ Head(wire) \in Byte /\ wire' = Tail(wire) /\ Tail(wire) \in Seq(Byte)
         /\ late' \in Nat /\ (late' = 0 => late = 0)
         /\ \/ serial_recv = "content" /\ serial_recv_ipd_content(Head(wire))
            \/ serial_recv = "length" /\ serial_recv_ipd_length(Head(wire))
            \/ (late' > 0 \/ serial_recv = "default") /\ serial_recv_serial_default(Head(wire))
<1>1. wire # <<>> /\ wire' = Tail(wire)
  BY DEF atcmd_recv_serial_byte
<1>2. Head(wire) \in Byte /\ Tail(wire) \in Seq(Byte)
  BY <1>1, HeadTail DEF OutsideOK
<1>3. PICK in_time \in BOOLEAN :
       /\ in_time \/ (serial_recv # "default" /\ late < MaxLate)
       /\ late' = IF in_time THEN late ELSE late + 1
       /\ \/ in_time /\ serial_recv = "content" /\ serial_recv_ipd_content(Head(wire))
          \/ in_time /\ serial_recv = "length" /\ serial_recv_ipd_length(Head(wire))
          \/ (~in_time \/ serial_recv = "default") /\ serial_recv_serial_default(Head(wire))
  BY DEF atcmd_recv_serial_byte
<1>4. late' \in Nat /\ (late' = 0 => late = 0) /\ (~in_time => late' > 0)
  BY <1>3 DEF ReceiverOK
<1> QED BY <1>1, <1>2, <1>3, <1>4

LEMMA RecvTypes ==
  ASSUME Types, atcmd_recv_serial_byte
  PROVE  Types'
<1>1. ReceiverOK /\ OutsideOK
  BY DEF Types
<1>2. ReceiverOK'
  BY <1>1, RecvCases, ContentOK, LengthOK, DefaultOK
<1>3. wire' \in Seq(Byte)
  BY <1>1, RecvCases
<1>4. OutsideOK'
  BY <1>1, <1>3 DEF atcmd_recv_serial_byte, reader, OutsideOK
<1>5. At(op, step, pc)' /\ CallsOK'
  BY DEF Types, At, CallsOK, atcmd_recv_serial_byte, task
<1> QED BY <1>2, <1>4, <1>5 DEF Types

\* The bytes of lines.
LEMMA LinesFacts ==
  ASSUME NEW a \in Seq(Replies \cup {"RING"}), NEW n \in Nat
  PROVE  /\ Lines(a, n) \in Seq(Byte) /\ Len(Lines(a, n)) = 2 * Len(a) /\ Len(a) \in Nat
         /\ \A i \in 1..(2 * Len(a)) :
              \/ i % 2 = 1 /\ (i + 1) \div 2 \in DOMAIN a /\ Lines(a, n)[i] = [ch |-> a[(i + 1) \div 2], of |-> n]
              \/ i % 2 = 0 /\ Lines(a, n)[i] = NL
<1> DEFINE w == Lines(a, n)
<1>1. Len(a) \in Nat /\ DOMAIN a = 1..Len(a) /\ \A j \in 1..Len(a) : a[j] \in Replies \cup {"RING"}
  OBVIOUS
<1>2. Replies \cup {"RING"} \subseteq Text
  BY RepliesText DEF Text
<1>3. ASSUME NEW i \in 1..(2 * Len(a))
      PROVE  /\ w[i] \in Byte
             /\ \/ i % 2 = 1 /\ (i + 1) \div 2 \in DOMAIN a /\ w[i] = [ch |-> a[(i + 1) \div 2], of |-> n]
                \/ i % 2 = 0 /\ w[i] = NL
  <2>1. w[i] = IF i % 2 = 1 THEN [ch |-> a[(i + 1) \div 2], of |-> n] ELSE NL
    BY DEF Lines
  <2>2. i \in Nat /\ i % 2 \in {0, 1}
    BY <1>1
  <2>3. CASE i % 2 = 1
    <3>1. (i + 1) \div 2 \in 1..Len(a)
      BY <1>1, <2>2, <2>3
    <3>2. a[(i + 1) \div 2] \in Text
      BY <1>1, <1>2, <3>1
    <3>3. w[i] = [ch |-> a[(i + 1) \div 2], of |-> n]
      BY <2>1, <2>3
    <3>4. w[i] \in Byte
      BY <3>2, <3>3 DEF Byte
    <3> QED BY <1>1, <2>3, <3>1, <3>3, <3>4
  <2>4. CASE i % 2 = 0
    BY <2>1, <2>4, ByteFacts
  <2> QED BY <2>2, <2>3, <2>4
<1>4. w = [i \in 1..(2 * Len(a)) |-> w[i]]
  BY DEF Lines
<1>5. w \in [1..(2 * Len(a)) -> Byte] /\ 2 * Len(a) \in Nat
  <2> HIDE DEF w
  <2> QED BY <1>1, <1>3, <1>4
<1>6. w \in Seq(Byte) /\ Len(w) = 2 * Len(a)
  <2> HIDE DEF w
  <2> QED BY <1>5
<1> QED BY <1>1, <1>3, <1>6

\* The bytes of a frame.
LEMMA FrameFacts ==
  ASSUME NEW p \in Frames, sent \in Nat
  PROVE  /\ Frame(p) \in Seq(Byte) /\ Len(Frame(p)) = 5 + Len(p) /\ Len(p) \in 1..9
         /\ Frame(p)[1] = B("I") /\ Frame(p)[2] = B("P") /\ Frame(p)[3] = B("D")
         /\ Frame(p)[4] = B(Digits[Len(p) + 1]) /\ Frame(p)[5] = B(":")
         /\ \A i \in 6..(5 + Len(p)) : Frame(p)[i].of = -(sent + i - 5)
<1> DEFINE n == Len(p)
           w == Frame(p)
           h == <<B("I"), B("P"), B("D"), B(Digits[Len(p) + 1]), B(":")>>
<1>1. n \in 1..9 /\ p \in Seq(Payload) /\ \A i \in 1..n : p[i] \in Payload
  BY FramesAssumption
<1>2. w = [i \in 1..(5 + n) |-> IF i <= 5 THEN h[i] ELSE [ch |-> p[i - 5], of |-> -(sent + i - 5)]]
  BY DEF Frame
<1>3. /\ B("I") \in Byte /\ B("P") \in Byte /\ B("D") \in Byte /\ B(":") \in Byte
      /\ B(Digits[n + 1]) \in Byte
  <2>1. {"I", "P", "D", ":"} \subseteq Text
    BY DEF Text
  <2>2. Digits[n + 1] \in Text
    <3> HIDE DEF n
    <3>1. n \in 0..9
      BY <1>1
    <3> QED BY <3>1, DigitFacts
  <2> QED BY <2>1, <2>2, ByteFacts
<1>4. h[1] = B("I") /\ h[2] = B("P") /\ h[3] = B("D") /\ h[4] = B(Digits[n + 1]) /\ h[5] = B(":")
  OBVIOUS
<1>5. \A i \in 1..5 : h[i] \in Byte
  <2> HIDE DEF h, n
  <2> QED BY <1>3, <1>4
<1>6. ASSUME NEW i \in 6..(5 + n)
      PROVE  w[i] = [ch |-> p[i - 5], of |-> -(sent + i - 5)] /\ w[i] \in Byte /\ w[i].of = -(sent + i - 5)
  <2> HIDE DEF n, h, w
  <2>1. i \in 1..(5 + n) /\ ~(i <= 5) /\ i - 5 \in 1..n /\ -(sent + i - 5) \in Int
    BY <1>1
  <2>2. w[i] = [ch |-> p[i - 5], of |-> -(sent + i - 5)]
    BY <1>2, <2>1
  <2>3. p[i - 5] \in Text
    BY <1>1, <2>1 DEF Text
  <2> QED BY <2>1, <2>2, <2>3 DEF Byte
<1>7. \A i \in 1..5 : w[i] = h[i]
  <2> HIDE DEF n, h, w
  <2> QED BY <1>1, <1>2
<1>8. w \in [1..(5 + n) -> Byte] /\ 5 + n \in Nat
  <2> HIDE DEF n, h, w
  <2>1. \A i \in 1..(5 + n) : w[i] \in Byte
    <3> TAKE i \in 1..(5 + n)
    <3>1. i \in 1..5 \/ i \in 6..(5 + n)
      BY <1>1
    <3> QED BY <1>5, <1>6, <1>7, <3>1
  <2> QED BY <1>1, <1>2, <2>1
<1>9. w \in Seq(Byte) /\ Len(w) = 5 + n
  <2> HIDE DEF n, h, w
  <2> QED BY <1>8
<1>10. w[1] = B("I") /\ w[2] = B("P") /\ w[3] = B("D") /\ w[4] = B(Digits[n + 1]) /\ w[5] = B(":")
  <2> HIDE DEF n, h, w
  <2> QED BY <1>4, <1>7
<1> QED BY <1>1, <1>6, <1>9, <1>10

\* Steps that leave the receiver, the task or the rest alone.
LEMMA ReceiverKept ==
  ASSUME ReceiverOK, UNCHANGED <<receiver, late, stale, overflow>>
  PROVE  ReceiverOK'
BY DEF ReceiverOK, receiver

LEMMA TaskKept == ASSUME TaskOK, UNCHANGED task PROVE TaskOK'
BY DEF TaskOK, At, CallsOK, task

LEMMA OutsideKept == ASSUME OutsideOK, UNCHANGED <<reader, modem>> PROVE OutsideOK'
BY DEF OutsideOK, reader, modem

Starts == \E call \in Calls : Start(call)

LEMMA StartTypes == ASSUME Types, Starts PROVE Types'
<1>1. PICK call \in Calls : Start(call)
  BY DEF Starts
<1>2. TaskOK'
  BY <1>1, StartTask DEF Types, TaskOK
<1>3. ReceiverOK'
  BY <1>1, ReceiverKept DEF Types, Start
<1>4. OutsideOK'
  BY <1>1, OutsideKept DEF Types, Start
<1> QED BY <1>2, <1>3, <1>4 DEF Types, TaskOK

LEMMA ClearTypes == ASSUME Types, ClearFirst \/ ClearSecond PROVE Types'
<1>1. PICK part : Clear(part)
  BY DEF ClearFirst, ClearSecond
<1>2. TaskOK'
  BY ClearTask DEF Types, TaskOK
<1>3. ReceiverOK'
  <2>1. rb' \in Seq(Byte) /\ Len(rb') <= RbCap /\ sem' \in Nat /\ stale' \in BOOLEAN
    BY <1>1, BoundsAssumption DEF Clear, Types, ReceiverOK
  <2>2. /\ ipd_rb' = ipd_rb /\ serial_recv' = serial_recv /\ auto_prefix' = auto_prefix
        /\ ipd_length' = ipd_length /\ ipd_recv_index' = ipd_recv_index /\ late' = late /\ overflow' = overflow
    BY <1>1 DEF Clear
  <2> QED BY <2>1, <2>2 DEF Types, ReceiverOK
<1>4. OutsideOK'
  BY <1>1, OutsideKept DEF Types, Clear
<1> QED BY <1>2, <1>3, <1>4 DEF Types, TaskOK

LEMMA SendTypes == ASSUME Types, Send PROVE Types'
<1>1. TaskOK' /\ Now.cmd \in Commands /\ id' = id + 1
  BY SendTask DEF Types, TaskOK
<1>2. ReceiverOK'
  BY ReceiverKept DEF Types, Send
<1>3. pending' \in Seq([cmd : Commands, id : Nat \ {0}])
  <2>1. [cmd |-> Now.cmd, id |-> id + 1] \in [cmd : Commands, id : Nat \ {0}]
    BY <1>1 DEF Types, CallsOK
  <2>2. pending' = Append(pending, [cmd |-> Now.cmd, id |-> id + 1])
    BY DEF Send
  <2>3. pending \in Seq([cmd : Commands, id : Nat \ {0}])
    BY DEF Types, OutsideOK
  <2> DEFINE S == [cmd : Commands, id : Nat \ {0}]
             c == [cmd |-> Now.cmd, id |-> id + 1]
  <2> HIDE DEF S, c
  <2>4. ASSUME NEW q \in Seq(S), c \in S PROVE Append(q, c) \in Seq(S)
    BY <2>4
  <2> QED BY <2>1, <2>2, <2>3, <2>4 DEF S, c
<1>4. OutsideOK'
  BY <1>3 DEF Types, Send, OutsideOK, reader
<1> QED BY <1>1, <1>2, <1>4 DEF Types, TaskOK

LEMMA PendTypes == ASSUME Types, Pend PROVE Types'
<1>1. TaskOK'
  BY PendTask DEF Types, TaskOK
<1>2. sem' \in Nat
  BY DEF Types, ReceiverOK, Pend
<1>3. ReceiverOK'
  BY <1>2 DEF Types, ReceiverOK, Pend
<1>4. OutsideOK'
  BY OutsideKept DEF Types, Pend
<1> QED BY <1>1, <1>3, <1>4 DEF Types, TaskOK

LEMMA PendTimeoutTypes == ASSUME Types, PendTimeout PROVE Types'
<1>1. TaskOK'
  BY PendTimeoutTask DEF Types, TaskOK
<1>2. ReceiverOK'
  BY ReceiverKept DEF Types, PendTimeout
<1>3. OutsideOK'
  BY OutsideKept DEF Types, PendTimeout
<1> QED BY <1>1, <1>2, <1>3 DEF Types, TaskOK

LEMMA DeadlineTypes == ASSUME Types, DeadlinePassed PROVE Types'
<1>1. TaskOK'
  BY DeadlineTask DEF Types, TaskOK
<1>2. ReceiverOK'
  BY ReceiverKept DEF Types, DeadlinePassed
<1>3. OutsideOK'
  BY OutsideKept DEF Types, DeadlinePassed
<1> QED BY <1>1, <1>2, <1>3 DEF Types, TaskOK

LEMMA ReadTypes == ASSUME Types, Read PROVE Types'
<1>1. TaskOK'
  BY ReadTask DEF Types, TaskOK
<1>2. rb' \in Seq(Byte) /\ Len(rb') <= Len(rb)
  <2>1. rb \in Seq(Byte)
    BY DEF Types, ReceiverOK
  <2>2. rb' = SubSeq(rb, StringEnd(rb) + 1, Len(rb))
    BY ReadCases
  <2> QED BY <2>1, <2>2, AfterString
<1>3. /\ sem' = sem /\ ipd_rb' = ipd_rb /\ serial_recv' = serial_recv /\ auto_prefix' = auto_prefix
      /\ ipd_length' = ipd_length /\ ipd_recv_index' = ipd_recv_index
      /\ late' = late /\ stale' = stale /\ overflow' = overflow
  BY DEF Read
<1>4. Len(rb') <= RbCap
  <2>1. Len(rb) \in Nat /\ Len(rb) <= RbCap /\ RbCap \in Nat
    BY BoundsAssumption DEF Types, ReceiverOK
  <2>2. Len(rb') \in Nat
    BY <1>2
  <2> QED BY <1>2, <2>1, <2>2
<1>5. ReceiverOK'
  BY <1>2, <1>3, <1>4 DEF Types, ReceiverOK
<1>6. UNCHANGED <<reader, modem>>
  BY DEF Read
<1>7. OutsideOK'
  BY <1>6, OutsideKept DEF Types
<1> QED BY <1>1, <1>5, <1>7 DEF Types, TaskOK

\* One turn of atcmd_recv_tcp moves the first bytes of the ring.
LEMMA RecvTcpFacts ==
  ASSUME ReceiverOK, OutsideOK, atcmd_recv_tcp
  PROVE  \E n \in 0..Len(ipd_rb) :
           /\ delivered' = delivered \o SubSeq(ipd_rb, 1, n)
           /\ ipd_rb' = SubSeq(ipd_rb, n + 1, Len(ipd_rb))
           /\ rwant' \in 0..ReadLen
<1> DEFINE want == IF rwant = 0 THEN ReadLen ELSE rwant
           n == IF Len(ipd_rb) < want THEN Len(ipd_rb) ELSE want
<1>1. want \in 0..ReadLen /\ Len(ipd_rb) \in Nat
  BY BoundsAssumption DEF ReceiverOK, OutsideOK
<1>2. PICK timeout \in BOOLEAN : rwant' = IF timeout THEN 0 ELSE want - n
  BY DEF atcmd_recv_tcp
<1>3. delivered' = delivered \o SubSeq(ipd_rb, 1, n) /\ ipd_rb' = SubSeq(ipd_rb, n + 1, Len(ipd_rb))
  BY DEF atcmd_recv_tcp, Rest
<1>4. n \in 0..Len(ipd_rb) /\ want - n \in 0..ReadLen /\ 0 \in 0..ReadLen
  <2> HIDE DEF want
  <2> QED BY <1>1, BoundsAssumption
<1>5. rwant' \in 0..ReadLen
  <2> HIDE DEF want, n
  <2> QED BY <1>2, <1>4
<1> HIDE DEF n
<1> QED BY <1>3, <1>4, <1>5

\* Both halves of a ring.
LEMMA Halves ==
  ASSUME NEW q \in Seq(Byte), NEW n \in 0..Len(q)
  PROVE  /\ SubSeq(q, 1, n) \in Seq(Byte) /\ Len(SubSeq(q, 1, n)) = n
         /\ SubSeq(q, n + 1, Len(q)) \in Seq(Byte) /\ Len(SubSeq(q, n + 1, Len(q))) = Len(q) - n
         /\ \A i \in 1..n : SubSeq(q, 1, n)[i] = q[i]
         /\ \A i \in 1..(Len(q) - n) : SubSeq(q, n + 1, Len(q))[i] = q[i + n]
<1>1. Len(q) \in Nat
  OBVIOUS
<1>2. SubSeq(q, 1, n) \in Seq(Byte) /\ Len(SubSeq(q, 1, n)) = n /\ \A i \in 1..n : SubSeq(q, 1, n)[i] = q[i]
  BY <1>1
<1>3. /\ SubSeq(q, n + 1, Len(q)) \in Seq(Byte) /\ Len(SubSeq(q, n + 1, Len(q))) = Len(q) - n
      /\ \A i \in 1..(Len(q) - n) : SubSeq(q, n + 1, Len(q))[i] = q[i + n]
  BY <1>1
<1> QED BY <1>2, <1>3

LEMMA RecvTcpTypes == ASSUME Types, atcmd_recv_tcp PROVE Types'
<1>1. ReceiverOK /\ OutsideOK
  BY DEF Types
<1>2. PICK n \in 0..Len(ipd_rb) :
           /\ delivered' = delivered \o SubSeq(ipd_rb, 1, n)
           /\ ipd_rb' = SubSeq(ipd_rb, n + 1, Len(ipd_rb))
           /\ rwant' \in 0..ReadLen
  BY <1>1, RecvTcpFacts
<1>3. ipd_rb \in Seq(Byte) /\ Len(ipd_rb) \in Nat /\ Len(ipd_rb) <= IpdCap /\ delivered \in Seq(Byte)
  BY <1>1 DEF ReceiverOK, OutsideOK
<1>4. /\ SubSeq(ipd_rb, 1, n) \in Seq(Byte) /\ ipd_rb' \in Seq(Byte) /\ Len(ipd_rb') = Len(ipd_rb) - n
  BY <1>2, <1>3, Halves
<1>5. delivered' \in Seq(Byte)
  BY <1>2, <1>3, <1>4, Joined
<1>6. Len(ipd_rb') <= IpdCap
  BY <1>3, <1>4, BoundsAssumption
<1>7. /\ rb' = rb /\ sem' = sem /\ serial_recv' = serial_recv /\ auto_prefix' = auto_prefix
      /\ ipd_length' = ipd_length /\ ipd_recv_index' = ipd_recv_index
      /\ late' = late /\ stale' = stale /\ overflow' = overflow /\ UNCHANGED <<task, modem>>
  BY DEF atcmd_recv_tcp
<1>8. ReceiverOK'
  BY <1>1, <1>4, <1>6, <1>7 DEF ReceiverOK
<1>9. OutsideOK'
  BY <1>1, <1>2, <1>5, <1>7 DEF OutsideOK, modem
<1>10. TaskOK'
  BY <1>7, TaskKept DEF Types, TaskOK
<1> QED BY <1>8, <1>9, <1>10 DEF Types, TaskOK

\* What an answer adds to the line.
LEMMA AnswerCases ==
  ASSUME OutsideOK, Answer
  PROVE  /\ pending # <<>> /\ pending' = Tail(pending)
         /\ Head(pending).cmd \in Commands /\ Head(pending).id \in Nat \ {0}
         /\ \E a \in Answers(Head(pending).cmd) :
              /\ a \in Seq(Replies)
              /\ \/ wire' = wire \o Lines(a, Head(pending).id)
                 \/ wire' = (wire \o <<NL>>) \o Lines(a, Head(pending).id)
<1>1. pending # <<>> /\ pending' = Tail(pending)
  BY DEF Answer
<1>2. Head(pending) \in [cmd : Commands, id : Nat \ {0}]
  BY <1>1, HeadTail DEF OutsideOK
<1>3. Head(pending).cmd \in Commands /\ Head(pending).id \in Nat \ {0}
  BY <1>2
<1>4. PICK a \in Answers(Head(pending).cmd) :
       wire' = wire \o (IF blank /\ a # <<>> THEN <<NL>> ELSE <<>>) \o Lines(a, Head(pending).id)
  BY DEF Answer
<1>5. a \in Seq(Replies)
  BY <1>3, AnswerFacts
<1>6. wire \in Seq(Byte) /\ wire \o <<>> = wire
  BY DEF OutsideOK
<1> QED BY <1>1, <1>3, <1>4, <1>5, <1>6

LEMMA ReplyLines ==
  ASSUME NEW a \in Seq(Replies) PROVE a \in Seq(Replies \cup {"RING"})
OBVIOUS

LEMMA AnswerTypes == ASSUME Types, Answer PROVE Types'
<1>1. OutsideOK /\ wire \in Seq(Byte)
  BY DEF Types, OutsideOK
<1>2. pending' \in Seq([cmd : Commands, id : Nat \ {0}])
  <2>1. pending # <<>> /\ pending' = Tail(pending)
    BY <1>1, AnswerCases
  <2>2. pending \in Seq([cmd : Commands, id : Nat \ {0}])
    BY <1>1 DEF OutsideOK
  <2> QED BY <2>1, <2>2, HeadTail
<1>3. PICK a \in Answers(Head(pending).cmd) :
              /\ a \in Seq(Replies)
              /\ \/ wire' = wire \o Lines(a, Head(pending).id)
                 \/ wire' = (wire \o <<NL>>) \o Lines(a, Head(pending).id)
  BY <1>1, AnswerCases
<1>4. Lines(a, Head(pending).id) \in Seq(Byte)
  BY <1>1, <1>3, ReplyLines, LinesFacts, AnswerCases
<1>5. wire \o <<NL>> \in Seq(Byte)
  BY <1>1, ByteFacts
<1>6. wire' \in Seq(Byte)
  <2>1. CASE wire' = wire \o Lines(a, Head(pending).id)
    BY <1>1, <1>4, <2>1, Joined
  <2>2. CASE wire' = (wire \o <<NL>>) \o Lines(a, Head(pending).id)
    BY <1>4, <1>5, <2>2, Joined
  <2> QED BY <1>3, <2>1, <2>2
<1>7. OutsideOK'
  BY <1>1, <1>2, <1>6 DEF OutsideOK, Answer, reader
<1>8. ReceiverOK'
  BY ReceiverKept DEF Types, Answer
<1>9. TaskOK'
  BY TaskKept DEF Types, TaskOK, Answer
<1> QED BY <1>7, <1>8, <1>9 DEF Types, TaskOK

LEMMA RingText == <<"RING">> \in Seq(Replies \cup {"RING"})
OBVIOUS

LEMMA UnsolicitedCases ==
  ASSUME OutsideOK, Unsolicited
  PROVE  \/ \E p \in Frames : wire' = wire \o Frame(p) /\ sent' = sent + Len(p)
         \/ wire' = wire \o Lines(<<"RING">>, 0) /\ sent' = sent
BY DEF Unsolicited

LEMMA UnsolicitedTypes == ASSUME Types, Unsolicited PROVE Types'
<1>1. OutsideOK /\ wire \in Seq(Byte) /\ sent \in Nat
  BY DEF Types, OutsideOK
<1>2. wire' \in Seq(Byte) /\ sent' \in Nat
  <2>1. CASE \E p \in Frames : wire' = wire \o Frame(p) /\ sent' = sent + Len(p)
    <3>1. PICK p \in Frames : wire' = wire \o Frame(p) /\ sent' = sent + Len(p)
      BY <2>1
    <3>2. Frame(p) \in Seq(Byte) /\ Len(p) \in Nat
      BY <1>1, FrameFacts
    <3> QED BY <1>1, <3>1, <3>2, Joined
  <2>2. CASE wire' = wire \o Lines(<<"RING">>, 0) /\ sent' = sent
    <3>1. Lines(<<"RING">>, 0) \in Seq(Byte)
      BY RingText, LinesFacts
    <3> QED BY <1>1, <2>2, <3>1, Joined
  <2> QED BY <1>1, <2>1, <2>2, UnsolicitedCases
<1>3. OutsideOK'
  BY <1>1, <1>2 DEF OutsideOK, Unsolicited, reader
<1>4. ReceiverOK'
  BY ReceiverKept DEF Types, Unsolicited
<1>5. TaskOK'
  BY TaskKept DEF Types, TaskOK, Unsolicited
<1> QED BY <1>3, <1>4, <1>5 DEF Types, TaskOK

\* The steps by kind.
LEMMA NextCases ==
  Next => \/ atcmd_recv_serial_byte \/ Starts \/ (ClearFirst \/ ClearSecond)
          \/ Send \/ Pend \/ PendTimeout \/ DeadlinePassed \/ Read
          \/ atcmd_recv_tcp \/ Answer \/ Unsolicited
<1>1. \A c \in Calls : Start(c) => Starts
  BY DEF Starts
<1>2. (\/ atcmd_retry_until_reply \/ atcmd_retry_until_replys
       \/ atcmd_get_ccid \/ atcmd_get_imei \/ atcmd_get_signal_quality
       \/ atcmd_get_data_sent_info \/ atcmd_get_ops \/ atcmd_get_lacci
       \/ atcmd_connect_tcp \/ atcmd_disconnect_tcp \/ atcmd_send_tcp \/ atcmd_send_tcp_cb) =>
      \E c \in Calls : Start(c)
  BY DEF Calls, atcmd_retry_until_reply, atcmd_retry_until_replys, atcmd_get_ccid, atcmd_get_imei,
     atcmd_get_signal_quality, atcmd_get_data_sent_info, atcmd_get_ops, atcmd_get_lacci,
     atcmd_connect_tcp, atcmd_disconnect_tcp, atcmd_send_tcp, atcmd_send_tcp_cb
<1> QED BY <1>1, <1>2 DEF Next, Command

LEMMA InitTypes == Init => Types
<1> SUFFICES ASSUME Init PROVE Types
  OBVIOUS
<1>1. ReceiverOK
  <2>1. rb = <<>> /\ ipd_rb = <<>> /\ auto_prefix = <<>>
    BY DEF Init
  <2>2. rb \in Seq(Byte) /\ Len(rb) <= RbCap /\ ipd_rb \in Seq(Byte) /\ Len(ipd_rb) <= IpdCap
    BY <2>1, BoundsAssumption
  <2>3. auto_prefix \in Seq(Text \cup {"NUL"}) /\ Len(auto_prefix) <= 5
    BY <2>1
  <2>4. /\ sem = 0 /\ serial_recv = "default" /\ ipd_length = 0 /\ ipd_recv_index = 0
        /\ late = 0
    BY DEF Init
  <2>5. stale \in BOOLEAN /\ overflow \in BOOLEAN
    BY DEF Init
  <2>6. sem \in Nat /\ ipd_length \in Nat /\ ipd_length < 65536 /\ ipd_recv_index \in Nat /\ late \in Nat
    BY <2>4
  <2>7. serial_recv \in {"default", "length", "content"}
    BY <2>4
  <2> QED BY <2>2, <2>3, <2>5, <2>6, <2>7 DEF ReceiverOK
<1>2. At(op, step, pc)
  <2>1. op = "none" /\ step = 1 /\ pc = "idle"
    BY DEF Init
  <2> QED BY <2>1, IdleAt
<1>3. CallsOK
  <2>1. plan \in Seq([call : DOMAIN Script, times : Nat]) /\ DOMAIN Script = Calls
    BY PlansAssumption, Scripts DEF Init
  <2> QED BY <2>1 DEF Init, CallsOK
<1>4. OutsideOK
  BY BoundsAssumption DEF Init, OutsideOK
<1> QED BY <1>1, <1>2, <1>3, <1>4 DEF Types

LEMMA TypesStep == ASSUME Types, [Next]_vars PROVE Types'
<1>1. CASE UNCHANGED vars
  <2>1. UNCHANGED <<receiver, task, reader, modem, late, stale, overflow>>
    BY <1>1 DEF vars
  <2>2. ReceiverOK'
    BY <2>1, ReceiverKept DEF Types
  <2>3. TaskOK'
    BY <2>1, TaskKept DEF Types, TaskOK
  <2>4. OutsideOK'
    BY <2>1, OutsideKept DEF Types
  <2> QED BY <2>2, <2>3, <2>4 DEF Types, TaskOK
<1>2. CASE Next
  BY <1>2, NextCases, RecvTypes, StartTypes, ClearTypes, SendTypes, PendTypes, PendTimeoutTypes, DeadlineTypes,
     ReadTypes, RecvTcpTypes, AnswerTypes, UnsolicitedTypes
<1> QED BY <1>1, <1>2

-----------------------------------------------------------------------------
(***************************************************************************)
(* Tokens and lines.                                                       *)
(***************************************************************************)

\* The token expect has taken.
Taken(p) == IF p = "read" THEN 1 ELSE 0

Backed(s, p, r) == s + Taken(p) <= Count(r, NUL)

LEMMA TakenFacts == ASSUME NEW p PROVE Taken(p) \in {0, 1} /\ (p # "read" => Taken(p) = 0)
BY DEF Taken

LEMMA CountNat == ASSUME NEW r \in Seq(Byte) PROVE Count(r, NUL) \in Nat
BY EndsFinite

\* The step of the receiver.
LEMMA RecvTokens ==
  ASSUME Types, TokensBacked, atcmd_recv_serial_byte
  PROVE  TokensBacked'
<1>1. ReceiverOK /\ OutsideOK /\ rb \in Seq(Byte) /\ Len(rb) <= RbCap /\ sem \in Nat
      /\ stale \in BOOLEAN /\ overflow \in BOOLEAN /\ RbCap \in Nat
  BY BoundsAssumption DEF Types, ReceiverOK
<1>2. pc' = pc
  BY DEF atcmd_recv_serial_byte, task
<1> DEFINE b == Head(wire)
<1>3. b \in Byte /\ Taken(pc) \in {0, 1} /\ Count(rb, NUL) \in Nat
  BY <1>1, RecvCases, TakenFacts, CountNat
<1> SUFFICES ASSUME ~stale', ~overflow', pc \notin {"preclear_half", "clear_half"}
             PROVE  Backed(sem', pc, rb')
  BY <1>2 DEF TokensBacked, Backed, Taken
<1>4. ~stale /\ ~overflow => Backed(sem, pc, rb)
  BY DEF TokensBacked, Backed, Taken
<1>5. CASE serial_recv_ipd_content(b) \/ serial_recv_ipd_length(b) \/ Skipped
  <2>1. rb' = rb /\ sem' = sem /\ ~stale /\ ~overflow
    BY <1>1, <1>5 DEF serial_recv_ipd_content, serial_recv_ipd_length, Skipped
  <2> QED BY <1>4, <2>1
<1>6. CASE LineEnd
  <2>1. rb' = Put(rb, NUL, RbCap) /\ sem' = sem + 1 /\ ~stale /\ ~overflow /\ Len(rb) # RbCap
    BY <1>1, <1>6 DEF LineEnd
  <2>2. rb' = Append(rb, NUL)
    BY <1>1, <2>1, PutFacts, ByteFacts
  <2>3. Count(rb', NUL) = Count(rb, NUL) + 1
    BY <1>1, <2>2, PutCount, ByteFacts
  <2> QED BY <1>1, <1>3, <1>4, <2>1, <2>3 DEF Backed
<1>7. CASE FrameStart
  <2>0. ~(stale \/ sem > 0 \/ pc = "read")
    BY <1>7, Zenon DEF FrameStart
  <2>1. rb' = <<>> /\ sem' = sem /\ sem = 0 /\ pc # "read" /\ rb' \in Seq(Byte)
    BY <1>1, <1>7, <2>0 DEF FrameStart
  <2>2. Count(rb', NUL) \in Nat /\ Taken(pc) = 0
    BY <2>1, CountNat, TakenFacts
  <2> QED BY <2>1, <2>2 DEF Backed
<1>8. CASE Stored(b)
  <2>1. rb' = Put(rb, b, RbCap) /\ sem' = sem /\ ~stale /\ ~overflow /\ Len(rb) # RbCap
    BY <1>1, <1>8 DEF Stored
  <2> HIDE DEF b
  <2>2. rb' = Append(rb, b)
    BY <1>1, <1>3, <2>1, PutFacts
  <2>3. Count(rb', NUL) = Count(rb, NUL) + (IF b = NUL THEN 1 ELSE 0)
    BY <1>1, <1>3, <2>2, PutCount
  <2> QED BY <1>1, <1>3, <1>4, <2>1, <2>3 DEF Backed
<1> QED BY <1>1, <1>5, <1>6, <1>7, <1>8, RecvCases, DefaultCases

\* The steps of the task.
LEMMA TaskTokens ==
  ASSUME Types, TokensBacked, Starts \/ (ClearFirst \/ ClearSecond) \/ Send \/ Pend \/ PendTimeout \/ DeadlinePassed \/ Read
  PROVE  TokensBacked'
<1>1. TaskOK /\ rb \in Seq(Byte) /\ sem \in Nat /\ Count(rb, NUL) \in Nat
  BY CountNat DEF Types, TaskOK, ReceiverOK
<1>2. pc \notin {"preclear_half", "clear_half"} /\ ~stale /\ ~overflow => Backed(sem, pc, rb)
  BY DEF TokensBacked, Backed, Taken
<1>3. ASSUME stale' = stale, overflow' = overflow, pc \notin {"preclear_half", "clear_half"},
             Backed(sem, pc, rb) => Backed(sem', pc', rb')
      PROVE  TokensBacked'
  BY <1>2, <1>3 DEF TokensBacked, Backed, Taken
<1>4. CASE Starts
  <2>1. PICK call \in Calls : Start(call)
    BY <1>4 DEF Starts
  <2>2. pc = "idle" /\ pc' \in {"preclear", "clear"} /\ rb' = rb /\ sem' = sem
    /\ stale' = stale /\ overflow' = overflow
    BY <1>1, <2>1, StartTask DEF Start, receiver
  <2>3. Backed(sem, pc, rb) => Backed(sem', pc', rb')
    BY <2>2, TakenFacts DEF Backed
  <2> QED BY <1>3, <2>2, <2>3
<1>5. CASE ClearFirst
  BY <1>5 DEF ClearFirst, TokensBacked
<1>6. CASE ClearSecond
  <2>1. pc' # "read" /\ sem' = 0 /\ rb' = rb
    BY <1>6 DEF ClearSecond, Clear, ClearOrder
  <2>2. Backed(sem', pc', rb')
    BY <1>1, <2>1, TakenFacts DEF Backed
  <2> QED BY <2>2 DEF TokensBacked, Backed, Taken
<1>7. CASE Send
  <2>1. pc = "send" /\ pc' \in {"pend", "send"} /\ rb' = rb /\ sem' = sem /\ stale' = stale /\ overflow' = overflow
    BY <1>1, <1>7, SendTask DEF Send, receiver
  <2>2. Backed(sem, pc, rb) => Backed(sem', pc', rb')
    BY <2>1, TakenFacts DEF Backed
  <2> QED BY <1>3, <2>1, <2>2
<1>8. CASE Pend
  <2>1. pc = "pend" /\ pc' = "read" /\ rb' = rb /\ sem' = sem - 1 /\ stale' = stale /\ overflow' = overflow
    BY <1>8 DEF Pend
  <2>2. Backed(sem, pc, rb) => Backed(sem', pc', rb')
    BY <1>1, <2>1 DEF Backed, Taken
  <2> QED BY <1>3, <2>1, <2>2
<1>9. CASE PendTimeout
  <2>1. pc = "pend" /\ pc' \in {"clear", "idle"} /\ rb' = rb /\ sem' = sem /\ stale' = stale /\ overflow' = overflow
    BY <1>1, <1>9, PendTimeoutTask DEF PendTimeout, receiver
  <2>2. Backed(sem, pc, rb) => Backed(sem', pc', rb')
    BY <2>1, TakenFacts DEF Backed
  <2> QED BY <1>3, <2>1, <2>2
<1>10. CASE DeadlinePassed
  <2>1. /\ pc = "pend" /\ pc' \in {"preclear", "clear", "idle"}
        /\ rb' = rb /\ sem' = sem /\ stale' = stale /\ overflow' = overflow
    BY <1>1, <1>10, DeadlineTask DEF DeadlinePassed, receiver
  <2>2. Backed(sem, pc, rb) => Backed(sem', pc', rb')
    BY <2>1, TakenFacts DEF Backed
  <2> QED BY <1>3, <2>1, <2>2
<1>11. CASE Read
  <2>1. /\ pc = "read" /\ pc' \in {"preclear", "clear", "idle", "pend"}
        /\ rb' = SubSeq(rb, StringEnd(rb) + 1, Len(rb)) /\ sem' = sem
    BY <1>1, <1>11, ReadTask, ReadCases
  <2>2. stale' = stale /\ overflow' = overflow
    BY <1>11 DEF Read
  <2>3. ASSUME Backed(sem, pc, rb) PROVE Backed(sem', pc', rb')
    <3>1. sem + 1 <= Count(rb, NUL)
      BY <2>1, <2>3 DEF Backed, Taken
    <3>2. Ends(rb) # {}
      <4>1. Cardinality(Ends(rb)) # 0
        BY <1>1, <3>1, EndsFinite
      <4> QED BY <4>1, FS_EmptySet
    <3>3. Count(rb', NUL) = Count(rb, NUL) - 1
      BY <1>1, <2>1, <3>2, AfterString
    <3>4. Taken(pc') = 0
      BY <2>1, TakenFacts
    <3> QED BY <1>1, <2>1, <3>1, <3>3, <3>4 DEF Backed
  <2> QED BY <1>3, <2>1, <2>2, <2>3
<1> QED BY <1>4, <1>5, <1>6, <1>7, <1>8, <1>9, <1>10, <1>11

LEMMA TokensStep ==
  ASSUME Types, TokensBacked, [Next]_vars
  PROVE  TokensBacked'
<1>1. ASSUME UNCHANGED <<rb, sem, stale, overflow, pc>> PROVE TokensBacked'
  BY <1>1 DEF TokensBacked
<1>2. CASE UNCHANGED vars
  BY <1>1, <1>2 DEF vars, receiver, task
<1>3. CASE Next
  <2>1. CASE atcmd_recv_tcp \/ Answer \/ Unsolicited
    BY <1>1, <2>1 DEF atcmd_recv_tcp, Answer, Unsolicited, receiver, task
  <2> QED BY <1>3, <2>1, NextCases, RecvTokens, TaskTokens
<1> QED BY <1>2, <1>3

-----------------------------------------------------------------------------
(***************************************************************************)
(* Whose answers are under way.                                            *)
(***************************************************************************)

\* The bytes and the commands that a call may still meet.
Bytes == {rb[i] : i \in DOMAIN rb} \cup {wire[i] : i \in DOMAIN wire}
Asked == {pending[i] : i \in DOMAIN pending}

\* What is no answer and no data is none of the modem's replies.
Plain == {"NL", "NUL", "I", "P", "D", ":", "RING",
          "0", "1", "2", "3", "4", "5", "6", "7", "8", "9"}
Plainness == \A b \in Bytes : b.of = 0 => b.ch \in Plain

\* The answers are to the call's own command; AT+QISEND, which is sent without
\* waiting, is at most refused.
Own(b) ==
  b.of > 0 =>
    IF op = "send" THEN b.ch = "ERROR" \/ (b.of = id /\ pc \in {"pend", "read"}) ELSE b.of = id
OwnCommand(c) ==
  IF op = "send" THEN c.cmd = "AT+QISEND" \/ (c.id = id /\ pc \in {"pend", "read"}) ELSE c.id = id
NoneYet == pc = "clear_half" \/ (pc = "send" /\ Now.cmd # "data")

Fresh ==
  quiet /\ pc \in {"clear_half", "send", "pend", "read"} =>
    /\ \A b \in Bytes : Own(b)
    /\ \A c \in Asked : OwnCommand(c)
    /\ NoneYet => pending = <<>> /\ \A b \in Bytes : b.of <= 0

\* What the receiver does to the reply ring.
LEMMA RecvRing ==
  ASSUME Types, atcmd_recv_serial_byte
  PROVE  \A i \in DOMAIN rb' : (\E j \in DOMAIN rb : rb'[i] = rb[j]) \/ rb'[i] = Head(wire) \/ rb'[i] = NUL
<1>1. ReceiverOK /\ OutsideOK /\ rb \in Seq(Byte) /\ Len(rb) <= RbCap /\ RbCap \in Nat
  BY BoundsAssumption DEF Types, ReceiverOK
<1> DEFINE b == Head(wire)
<1>2. b \in Byte
  BY <1>1, RecvCases
<1>3. serial_recv_ipd_content(b) \/ serial_recv_ipd_length(b) \/ serial_recv_serial_default(b)
  BY <1>1, RecvCases
<1> HIDE DEF b
<1>4. rb' = rb \/ rb' = <<>> \/ rb' = Put(rb, b, RbCap) \/ rb' = Put(rb, NUL, RbCap)
  <2>1. serial_recv_ipd_content(b) \/ serial_recv_ipd_length(b) => rb' = rb
    BY DEF serial_recv_ipd_content, serial_recv_ipd_length
  <2>2. LineEnd \/ Skipped \/ FrameStart \/ Stored(b) =>
          rb' = rb \/ rb' = <<>> \/ rb' = Put(rb, b, RbCap) \/ rb' = Put(rb, NUL, RbCap)
    BY DEF LineEnd, Skipped, FrameStart, Stored
  <2> QED BY <1>3, <2>1, <2>2, DefaultCases
<1>5. CASE rb' = rb
  BY <1>5
<1>6. CASE rb' = <<>>
  BY <1>6
<1>7. ASSUME NEW c \in {b, NUL}, rb' = Put(rb, c, RbCap)
      PROVE  \A i \in DOMAIN rb' : (\E j \in DOMAIN rb : rb'[i] = rb[j]) \/ rb'[i] = b \/ rb'[i] = NUL
  <2>1. c \in Byte
    BY <1>2, ByteFacts
  <2>2. \A i \in DOMAIN rb' : (i \in DOMAIN rb /\ rb'[i] = rb[i]) \/ rb'[i] = c
    BY <1>1, <1>7, <2>1, PutFacts
  <2> QED BY <2>2
<1>8. \A i \in DOMAIN rb' : (\E j \in DOMAIN rb : rb'[i] = rb[j]) \/ rb'[i] = b \/ rb'[i] = NUL
  BY <1>4, <1>5, <1>6, <1>7
<1> QED BY <1>8 DEF b

\* The receiver moves bytes and makes terminators.
LEMMA RecvBytes ==
  ASSUME Types, atcmd_recv_serial_byte
  PROVE  Bytes' \subseteq Bytes \cup {NUL} /\ pending' = pending
<1>1. ReceiverOK /\ OutsideOK /\ wire \in Seq(Byte)
  BY DEF Types, OutsideOK
<1>2. wire # <<>> /\ wire' = Tail(wire)
  BY <1>1, RecvCases
<1>3. Head(wire) = wire[1] /\ 1 \in DOMAIN wire
  BY <1>1, <1>2, HeadTail
<1>4. \A i \in DOMAIN wire' : \E j \in DOMAIN wire : wire'[i] = wire[j]
  <2> TAKE i \in DOMAIN wire'
  <2>1. i + 1 \in DOMAIN wire /\ wire'[i] = wire[i + 1]
    BY <1>1, <1>2, HeadTail
  <2> QED BY <2>1
<1>5. ASSUME NEW c \in Bytes' PROVE c \in Bytes \cup {NUL}
  <2>1. CASE \E i \in DOMAIN rb' : rb'[i] = c
    BY <1>3, <2>1, RecvRing DEF Bytes
  <2>2. CASE \E i \in DOMAIN wire' : wire'[i] = c
    BY <1>4, <2>2 DEF Bytes
  <2> QED BY <2>1, <2>2 DEF Bytes
<1>6. pending' = pending
  BY DEF atcmd_recv_serial_byte
<1> QED BY <1>5, <1>6

\* The bytes an answer adds.
AnswerByte(b) ==
  \/ b = NL
  \/ /\ b.of = Head(pending).id /\ b.ch \in Replies
     /\ Head(pending).cmd = "AT+QISEND" => b.ch = "ERROR"

LEMMA AnswerAdds ==
  ASSUME Types, Answer
  PROVE  /\ \A b \in Bytes' : b \in Bytes \/ AnswerByte(b)
         /\ pending # <<>> /\ Head(pending) \in Asked /\ Asked' \subseteq Asked /\ Head(pending).id \in Nat \ {0}
<1>1. OutsideOK /\ wire \in Seq(Byte) /\ pending \in Seq([cmd : Commands, id : Nat \ {0}]) /\ rb' = rb
  BY DEF Types, OutsideOK, Answer, receiver
<1>2. /\ pending # <<>> /\ pending' = Tail(pending)
      /\ Head(pending).cmd \in Commands /\ Head(pending).id \in Nat \ {0}
  BY <1>1, AnswerCases
<1>3. Head(pending) \in Asked /\ Asked' \subseteq Asked
  <2>1. 1 \in DOMAIN pending /\ Head(pending) = pending[1]
    BY <1>1, <1>2, HeadTail
  <2>2. \A i \in DOMAIN pending' : i + 1 \in DOMAIN pending /\ pending'[i] = pending[i + 1]
    BY <1>1, <1>2, HeadTail
  <2> QED BY <2>1, <2>2 DEF Asked
<1> DEFINE n == Head(pending).id
           cmd == Head(pending).cmd
<1>4. PICK a \in Answers(cmd) :
              /\ a \in Seq(Replies)
              /\ \/ wire' = wire \o Lines(a, n)
                 \/ wire' = (wire \o <<NL>>) \o Lines(a, n)
  BY <1>1, AnswerCases
<1>5. cmd = "AT+QISEND" => \A i \in DOMAIN a : a[i] = "ERROR"
  BY <1>2, AnswerFacts
<1> HIDE DEF n, cmd
<1>6. /\ Lines(a, n) \in Seq(Byte) /\ Len(Lines(a, n)) = 2 * Len(a) /\ Len(a) \in Nat
      /\ \A i \in 1..(2 * Len(a)) :
              \/ i % 2 = 1 /\ (i + 1) \div 2 \in DOMAIN a /\ Lines(a, n)[i] = [ch |-> a[(i + 1) \div 2], of |-> n]
              \/ i % 2 = 0 /\ Lines(a, n)[i] = NL
  <2>1. n \in Nat
    BY <1>2 DEF n
  <2> QED BY <1>4, <2>1, ReplyLines, LinesFacts
<1>7. ASSUME NEW i \in DOMAIN Lines(a, n) PROVE AnswerByte(Lines(a, n)[i])
  <2>1. i \in 1..(2 * Len(a))
    BY <1>6
  <2>2. CASE Lines(a, n)[i] = NL
    BY <2>2 DEF AnswerByte
  <2>3. CASE (i + 1) \div 2 \in DOMAIN a /\ Lines(a, n)[i] = [ch |-> a[(i + 1) \div 2], of |-> n]
    <3>1. PICK j \in DOMAIN a : Lines(a, n)[i] = [ch |-> a[j], of |-> n]
      BY <2>3
    <3>2. a[j] \in Replies /\ (cmd = "AT+QISEND" => a[j] = "ERROR")
      BY <1>4, <1>5, <3>1
    <3> QED BY <3>1, <3>2 DEF AnswerByte, n, cmd
  <2> QED BY <1>6, <2>1, <2>2, <2>3
<1>8. ASSUME NEW i \in DOMAIN wire' PROVE (\E j \in DOMAIN wire : wire'[i] = wire[j]) \/ AnswerByte(wire'[i])
  <2>1. CASE wire' = wire \o Lines(a, n)
    <3>1. \/ i \in DOMAIN wire /\ wire'[i] = wire[i]
          \/ \E j \in DOMAIN Lines(a, n) : wire'[i] = Lines(a, n)[j]
      <4>1. i \in 1..Len(wire) \/ i \in (Len(wire) + 1)..(Len(wire) + Len(Lines(a, n)))
        BY <1>1, <1>6, <2>1, Joined
      <4> QED BY <1>1, <1>6, <2>1, <4>1, Joined
    <3> QED BY <1>7, <3>1
  <2>2. CASE wire' = (wire \o <<NL>>) \o Lines(a, n)
    <3> DEFINE u == wire \o <<NL>>
    <3>1. u \in Seq(Byte) /\ DOMAIN u = 1..(Len(wire) + 1) /\ Len(u) = Len(wire) + 1
          /\ (\A j \in DOMAIN wire : u[j] = wire[j]) /\ u[Len(wire) + 1] = NL /\ DOMAIN wire = 1..Len(wire)
          /\ Len(wire) \in Nat
      BY <1>1, ByteFacts
    <3> HIDE DEF u
    <3>2. \/ i \in DOMAIN u /\ wire'[i] = u[i]
          \/ \E j \in DOMAIN Lines(a, n) : wire'[i] = Lines(a, n)[j]
      <4>1. wire' = u \o Lines(a, n)
        BY <2>2 DEF u
      <4>2. i \in 1..Len(u) \/ i \in (Len(u) + 1)..(Len(u) + Len(Lines(a, n)))
        BY <1>6, <3>1, <4>1, Joined
      <4> QED BY <1>6, <3>1, <4>1, <4>2, Joined
    <3>3. i \in DOMAIN u => i \in DOMAIN wire \/ i = Len(wire) + 1
      BY <3>1
    <3>4. i \in DOMAIN u => u[i] = NL \/ \E j \in DOMAIN wire : u[i] = wire[j]
      BY <3>1, <3>3
    <3> QED BY <1>7, <3>2, <3>4 DEF AnswerByte
  <2> QED BY <1>4, <2>1, <2>2
<1>9. ASSUME NEW b \in Bytes' PROVE b \in Bytes \/ AnswerByte(b)
  BY <1>1, <1>8 DEF Bytes
<1> QED BY <1>2, <1>3, <1>9

\* The bytes nobody asked for.
LEMMA UnsolicitedAdds ==
  ASSUME Types, Unsolicited
  PROVE  /\ \A b \in Bytes' : b \in Bytes \/ (b.of \in Int /\ b.of <= 0 /\ (b.of = 0 => b.ch \in Plain))
         /\ pending' = pending
<1>1. OutsideOK /\ wire \in Seq(Byte) /\ rb' = rb /\ sent \in Nat
  BY DEF Types, OutsideOK, Unsolicited, receiver
<1>2. pending' = pending
  BY DEF Unsolicited
<1>3. PICK u \in Seq(Byte) :
        /\ wire' = wire \o u
        /\ \A i \in DOMAIN u : u[i].of <= 0 /\ (u[i].of = 0 => u[i].ch \in Plain)
  <2>1. CASE \E p \in Frames : wire' = wire \o Frame(p) /\ sent' = sent + Len(p)
    <3>1. PICK p \in Frames : wire' = wire \o Frame(p)
      BY <2>1
    <3> DEFINE u == Frame(p)
               n == Len(p)
    <3>2. /\ u \in Seq(Byte) /\ Len(u) = 5 + n /\ n \in 1..9
          /\ u[1] = B("I") /\ u[2] = B("P") /\ u[3] = B("D")
          /\ u[4] = B(Digits[n + 1]) /\ u[5] = B(":")
          /\ \A i \in 6..(5 + n) : u[i].of = -(sent + i - 5)
      BY <1>1, FrameFacts
    <3> HIDE DEF u, n
    <3>3. Digits[n + 1] \in Plain
      <4>1. n + 1 \in 1..10
        BY <3>2
      <4>2. \A i \in 1..10 : Digits[i] \in Plain
        BY DEF Digits, Plain
      <4> QED BY <4>1, <4>2
    <3>4. {"I", "P", "D", ":"} \subseteq Plain
      BY DEF Plain
    <3>5. \A i \in 1..5 : u[i].of = 0 /\ u[i].ch \in Plain
      BY <3>2, <3>3, <3>4, ByteFacts
    <3>6. \A i \in 6..(5 + n) : u[i].of \in Int /\ u[i].of < 0
      BY <1>1, <3>2
    <3>7. \A i \in DOMAIN u : i \in 1..5 \/ i \in 6..(5 + n)
      BY <3>2
    <3>8. ASSUME NEW i \in DOMAIN u PROVE u[i].of <= 0 /\ (u[i].of = 0 => u[i].ch \in Plain)
      <4>1. CASE i \in 1..5
        BY <3>5, <4>1
      <4>2. CASE i \in 6..(5 + n)
        BY <3>6, <4>2
      <4> QED BY <3>7, <4>1, <4>2
    <3> QED BY <3>1, <3>2, <3>8 DEF u
  <2>2. CASE wire' = wire \o Lines(<<"RING">>, 0)
    <3> DEFINE a == <<"RING">>
               u == Lines(a, 0)
    <3>0. a \in Seq(Replies \cup {"RING"})
      BY RingText
    <3>1. Len(a) = 1 /\ DOMAIN a = 1..1 /\ a[1] = "RING"
      OBVIOUS
    <3> HIDE DEF a
    <3>2. u \in Seq(Byte) /\ Len(u) = 2 * Len(a)
          /\ \A i \in 1..(2 * Len(a)) :
              \/ i % 2 = 1 /\ (i + 1) \div 2 \in DOMAIN a /\ u[i] = [ch |-> a[(i + 1) \div 2], of |-> 0]
              \/ i % 2 = 0 /\ u[i] = NL
      BY <3>0, LinesFacts
    <3> HIDE DEF u
    <3>3. \A i \in DOMAIN u : u[i] = NL \/ u[i] = [ch |-> "RING", of |-> 0]
      BY <3>1, <3>2
    <3>4. "RING" \in Plain /\ "NL" \in Plain
      BY DEF Plain
    <3>5. \A i \in DOMAIN u : u[i].of <= 0 /\ (u[i].of = 0 => u[i].ch \in Plain)
      BY <3>3, <3>4, ByteFacts
    <3> QED BY <2>2, <3>2, <3>5 DEF u, a
  <2> QED BY <1>1, <2>1, <2>2, UnsolicitedCases
<1>4. ASSUME NEW i \in DOMAIN wire'
      PROVE  \/ \E j \in DOMAIN wire : wire'[i] = wire[j]
             \/ \E j \in DOMAIN u : wire'[i] = u[j]
  <2>1. i \in 1..Len(wire) \/ i \in (Len(wire) + 1)..(Len(wire) + Len(u))
    BY <1>1, <1>3, Joined
  <2> QED BY <1>1, <1>3, <2>1, Joined, SMTT(30)
<1>5. ASSUME NEW b \in Bytes' PROVE b \in Bytes \/ (b.of \in Int /\ b.of <= 0 /\ (b.of = 0 => b.ch \in Plain))
  <2>1. \A i \in DOMAIN u : u[i].of \in Int
    <3>1. \A i \in DOMAIN u : u[i] \in Byte
      BY <1>3
    <3> QED BY <3>1 DEF Byte
  <2> QED BY <1>1, <1>3, <1>4, <2>1 DEF Bytes
<1> QED BY <1>2, <1>5

\* The task adds nothing to the ring and the line.
LEMMA TaskBytes ==
  ASSUME Types, Starts \/ (ClearFirst \/ ClearSecond) \/ Send \/ Pend \/ PendTimeout \/ DeadlinePassed \/ Read
  PROVE  Bytes' \subseteq Bytes
<1>1. wire' = wire
  BY DEF Starts, Start, ClearFirst, ClearSecond, Clear, Send, Pend, PendTimeout, DeadlinePassed, Read, modem
<1>2. CASE Starts \/ Send \/ Pend \/ PendTimeout \/ DeadlinePassed
  <2>1. rb' = rb
    BY <1>2 DEF Starts, Start, Send, Pend, PendTimeout, DeadlinePassed, receiver
  <2> QED BY <1>1, <2>1 DEF Bytes
<1>3. CASE ClearFirst \/ ClearSecond
  <2>1. rb' = rb \/ rb' = <<>>
    BY <1>3 DEF ClearFirst, ClearSecond, Clear
  <2>2. CASE rb' = rb
    BY <1>1, <2>2 DEF Bytes
  <2>3. CASE rb' = <<>>
    <3>1. {rb'[i] : i \in DOMAIN rb'} = {}
      BY <2>3
    <3> QED BY <1>1, <3>1 DEF Bytes
  <2> QED BY <2>1, <2>2, <2>3
<1>4. CASE Read
  <2>1. rb \in Seq(Byte) /\ rb' = SubSeq(rb, StringEnd(rb) + 1, Len(rb))
    BY <1>4, ReadCases DEF Types, ReceiverOK
  <2>2. \A i \in DOMAIN rb' : i + StringEnd(rb) \in DOMAIN rb /\ rb'[i] = rb[i + StringEnd(rb)]
    BY <2>1, AfterString
  <2> QED BY <1>1, <2>2 DEF Bytes
<1> QED BY <1>2, <1>3, <1>4

LEMMA PlainStep ==
  ASSUME Types, Plainness, [Next]_vars
  PROVE  Plainness'
<1>2. ASSUME Bytes' \subseteq Bytes PROVE Plainness'
  BY <1>2 DEF Plainness
<1>3. ASSUME UNCHANGED <<rb, wire>> PROVE Plainness'
  BY <1>2, <1>3 DEF Bytes
<1>4. CASE UNCHANGED vars
  BY <1>3, <1>4 DEF vars, receiver, modem
<1>5. CASE Next
  <2>1. CASE atcmd_recv_serial_byte
    <3>1. NUL.ch \in Plain
      BY ByteFacts DEF Plain
    <3> QED BY <2>1, <3>1, RecvBytes DEF Plainness
  <2>2. CASE Starts \/ (ClearFirst \/ ClearSecond) \/ Send \/ Pend \/ PendTimeout \/ DeadlinePassed \/ Read
    BY <1>2, <2>2, TaskBytes
  <2>3. CASE atcmd_recv_tcp
    BY <1>3, <2>3 DEF atcmd_recv_tcp, modem
  <2>4. CASE Answer
    <3>1. \A b : AnswerByte(b) /\ b.of = 0 => b.ch \in Plain
      <4>1. Head(pending).id \in Nat \ {0}
        BY <2>4, AnswerAdds
      <4>2. NL.ch \in Plain
        BY ByteFacts DEF Plain
      <4> QED BY <4>1, <4>2 DEF AnswerByte
    <3> QED BY <2>4, <3>1, AnswerAdds DEF Plainness
  <2>5. CASE Unsolicited
    BY <2>5, UnsolicitedAdds DEF Plainness
  <2> QED BY <1>5, <2>1, <2>2, <2>3, <2>4, <2>5, NextCases
<1> QED BY <1>4, <1>5

\* Bytes that are no answers, and commands taken off the list, change nothing.
LEMMA FreshKept ==
  ASSUME Fresh, UNCHANGED <<op, step, pc, id, quiet>>,
         \A b \in Bytes' : b \in Bytes \/ (b.of \in Int /\ b.of <= 0),
         pending' = pending
  PROVE  Fresh'
<1>1. Asked' = Asked
  BY DEF Asked
<1>2. \A b : b.of \in Int /\ b.of <= 0 => Own(b)'
  BY DEF Own
<1>3. \A b : Own(b) => Own(b)'
  BY DEF Own
<1>4. \A c : OwnCommand(c) => OwnCommand(c)'
  BY DEF OwnCommand
<1>5. NoneYet' <=> NoneYet
  BY DEF NoneYet, Now
<1> QED BY <1>1, <1>2, <1>3, <1>4, <1>5 DEF Fresh

\* Between two lines of the same answer.
LEMMA FreshWaiting ==
  ASSUME Fresh, pc \in {"pend", "read"}, pc' \in {"pend", "read"}, UNCHANGED <<op, id, quiet>>,
         Bytes' \subseteq Bytes, pending' = pending
  PROVE  Fresh'
<1>1. Asked' = Asked
  BY DEF Asked
<1>2. \A b : Own(b) => Own(b)'
  BY DEF Own
<1>3. \A c : OwnCommand(c) => OwnCommand(c)'
  BY DEF OwnCommand
<1>4. ~NoneYet'
  BY DEF NoneYet
<1> QED BY <1>1, <1>2, <1>3, <1>4 DEF Fresh

\* A call clears the ring, and what it sends then is its own.
LEMMA FreshClear == ASSUME Types, Fresh, ClearFirst \/ ClearSecond PROVE Fresh'
<1>1. TaskOK /\ wire' = wire /\ pending' = pending /\ op' = op /\ step' = step /\ id' = id
  BY DEF Types, TaskOK, ClearFirst, ClearSecond, Clear, modem
<1>2. /\ pc' = "clear_half" => pc = "clear"
      /\ pc' = "send" => pc = "clear_half"
      /\ pc' \in {"preclear_half", "clear_half", "clear", "send"}
  BY <1>1, ClearTask
<1>3. CASE pc' \in {"preclear_half", "clear"}
  BY <1>3 DEF Fresh
<1>4. CASE pc' = "clear_half" /\ quiet'
  <2>1. ClearFirst
    BY <1>2, <1>4 DEF ClearSecond
  <2>2. wire = <<>> /\ pending = <<>> /\ rb' = <<>>
    BY <1>4, <2>1 DEF ClearFirst, Clear, ClearOrder
  <2>3. Bytes' = {} /\ Asked' = {}
    BY <1>1, <2>2 DEF Bytes, Asked
  <2> QED BY <1>1, <2>2, <2>3 DEF Fresh
<1>5. CASE pc' = "send" /\ quiet'
  <2>1. ClearSecond /\ pc = "clear_half" /\ quiet /\ rb' = rb
    BY <1>2, <1>5 DEF ClearFirst, ClearSecond, Clear, ClearOrder
  <2>2. pending = <<>> /\ \A b \in Bytes : b.of <= 0 /\ Own(b)
    BY <2>1 DEF Fresh, NoneYet
  <2>3. Bytes' = Bytes /\ Asked' = {}
    BY <1>1, <2>1, <2>2 DEF Bytes, Asked
  <2>4. \A b \in Bytes : Own(b)'
    <3>1. \A b \in Bytes : Own(b) => Own(b)'
      BY <1>1, <2>1 DEF Own
    <3> QED BY <2>2, <3>1
  <2> QED BY <1>1, <2>2, <2>3, <2>4 DEF Fresh
<1> QED BY <1>2, <1>3, <1>4, <1>5 DEF Fresh

LEMMA ByteTypes == ASSUME Types, NEW b \in Bytes PROVE b \in Byte /\ b.of \in Int /\ b.ch \in Text \cup {"NUL"}
<1>1. rb \in Seq(Byte) /\ wire \in Seq(Byte)
  BY DEF Types, ReceiverOK, OutsideOK
<1>2. (\A i \in DOMAIN rb : rb[i] \in Byte) /\ (\A i \in DOMAIN wire : wire[i] \in Byte)
  BY <1>1
<1>3. b \in Byte
  BY <1>2 DEF Bytes
<1> QED BY <1>3 DEF Byte

LEMMA FreshSend == ASSUME Types, Fresh, Send PROVE Fresh'
<1> DEFINE c == [cmd |-> Now.cmd, id |-> id + 1]
           S == [cmd : Commands, id : Nat \ {0}]
<1>1. TaskOK /\ id \in Nat /\ pending \in Seq(S)
  BY DEF Types, TaskOK, CallsOK, OutsideOK
<1>2. /\ pc = "send" /\ op' = op /\ op \in Calls /\ id' = id + 1 /\ quiet' = quiet /\ Now.cmd \in Commands
      /\ \/ op # "send" /\ pc' = "pend" /\ Now.cmd # "data"
         \/ op = "send" /\ pc' = "send" /\ Now.cmd = "AT+QISEND" /\ Now'.cmd = "data"
         \/ op = "send" /\ pc' = "pend" /\ Now.cmd = "data"
  BY <1>1, SendTask DEF Send
<1>3. c.cmd = Now.cmd /\ c.id = id' /\ c \in S
  BY <1>1, <1>2
<1>4. Bytes' = Bytes
  BY DEF Send, Bytes, receiver
<1>5. \A b \in Bytes : b.of \in Int
  BY ByteTypes
<1>6. Asked' = Asked \cup {c}
  <2>1. pending' = Append(pending, c)
    BY DEF Send
  <2> HIDE DEF c, S
  <2>2. /\ DOMAIN pending' = 1..(Len(pending) + 1) /\ DOMAIN pending = 1..Len(pending) /\ Len(pending) \in Nat
        /\ \A i \in 1..Len(pending) : pending'[i] = pending[i]
        /\ pending'[Len(pending) + 1] = c
    BY <1>1, <1>3, <2>1
  <2>3. Asked' \subseteq Asked \cup {c}
    <3>1. \A i \in DOMAIN pending' : i \in DOMAIN pending \/ i = Len(pending) + 1
      BY <2>2
    <3> QED BY <2>2, <3>1 DEF Asked
  <2>4. Asked \cup {c} \subseteq Asked'
    <3>1. \A i \in DOMAIN pending : i \in DOMAIN pending' /\ pending'[i] = pending[i]
      BY <2>2
    <3>2. Len(pending) + 1 \in DOMAIN pending'
      BY <2>2
    <3> QED BY <2>2, <3>1, <3>2 DEF Asked
  <2> QED BY <2>3, <2>4
<1> HIDE DEF c
<1> SUFFICES ASSUME quiet
             PROVE  /\ \A b \in Bytes' : Own(b)'
                    /\ \A d \in Asked' : OwnCommand(d)'
                    /\ ~NoneYet'
  BY <1>2 DEF Fresh
<1>7. /\ \A b \in Bytes : Own(b)
      /\ \A d \in Asked : OwnCommand(d)
      /\ Now.cmd # "data" => pending = <<>> /\ \A b \in Bytes : b.of <= 0
  BY <1>2 DEF Fresh, NoneYet
<1>8. ~NoneYet'
  BY <1>2 DEF NoneYet
<1>9. CASE Now.cmd # "data"
  <2>1. Asked' = {c} /\ \A b \in Bytes : b.of <= 0
    <3>1. Asked = {}
      BY <1>7, <1>9 DEF Asked
    <3> QED BY <1>6, <1>7, <1>9, <3>1
  <2>2. \A b \in Bytes : Own(b)'
    BY <1>5, <2>1 DEF Own
  <2>3. ASSUME NEW d, d = c PROVE OwnCommand(d)'
    BY <1>2, <1>3, <1>9, <2>3 DEF OwnCommand
  <2> QED BY <1>4, <1>8, <2>1, <2>2, <2>3
<1>10. CASE Now.cmd = "data"
  <2>1. op = "send" /\ op' = "send" /\ pc' = "pend"
    BY <1>2, <1>10
  <2>2. \A b \in Bytes : Own(b)'
    BY <1>2, <1>7, <2>1 DEF Own
  <2>3. \A d \in Asked : OwnCommand(d)'
    BY <1>2, <1>7, <2>1 DEF OwnCommand
  <2>4. ASSUME NEW d, d = c PROVE OwnCommand(d)'
    BY <1>3, <2>1, <2>4 DEF OwnCommand
  <2> QED BY <1>4, <1>6, <1>8, <2>2, <2>3, <2>4
<1> QED BY <1>9, <1>10

LEMMA FreshAnswer == ASSUME Types, Fresh, Answer PROVE Fresh'
<1>1. /\ \A b \in Bytes' : b \in Bytes \/ AnswerByte(b)
      /\ pending # <<>> /\ Head(pending) \in Asked /\ Asked' \subseteq Asked /\ Head(pending).id \in Nat \ {0}
  BY AnswerAdds
<1>2. op' = op /\ step' = step /\ pc' = pc /\ id' = id /\ quiet' = quiet
  BY DEF Answer, task
<1>3. (\A b : Own(b) => Own(b)') /\ (\A c : OwnCommand(c) => OwnCommand(c)') /\ (NoneYet' <=> NoneYet)
  BY <1>2 DEF Own, OwnCommand, NoneYet, Now
<1> SUFFICES ASSUME quiet, pc \in {"clear_half", "send", "pend", "read"}
             PROVE  /\ \A b \in Bytes' : Own(b)'
                    /\ \A c \in Asked' : OwnCommand(c)'
                    /\ ~NoneYet'
  BY <1>2 DEF Fresh
<1>4. /\ \A b \in Bytes : Own(b)
      /\ \A c \in Asked : OwnCommand(c)
      /\ NoneYet => pending = <<>>
  BY DEF Fresh
<1>5. ASSUME NEW b, AnswerByte(b) PROVE Own(b)
  <2>1. CASE b = NL
    BY <2>1, ByteFacts DEF Own
  <2>2. CASE b # NL
    <3>1. OwnCommand(Head(pending)) /\ b.of = Head(pending).id /\ (Head(pending).cmd = "AT+QISEND" => b.ch = "ERROR")
      BY <1>1, <1>4, <1>5, <2>2 DEF AnswerByte
    <3> QED BY <3>1 DEF Own, OwnCommand
  <2> QED BY <2>1, <2>2
<1> QED BY <1>1, <1>3, <1>4, <1>5

LEMMA FreshStep ==
  ASSUME Types, Fresh, [Next]_vars
  PROVE  Fresh'
<1>1. TaskOK
  BY DEF Types, TaskOK
<1>2. CASE UNCHANGED vars
  <2>1. UNCHANGED <<op, step, pc, id, quiet, pending, rb, wire>>
    BY <1>2 DEF vars, task, modem, receiver
  <2>2. Bytes' = Bytes
    BY <2>1 DEF Bytes
  <2> QED BY <2>1, <2>2, FreshKept
<1>3. CASE Next
  <2>1. CASE atcmd_recv_serial_byte
    <3>1. UNCHANGED <<op, step, pc, id, quiet>>
      BY <2>1 DEF atcmd_recv_serial_byte, task
    <3>2. NUL.of \in Int /\ NUL.of <= 0
      BY ByteFacts
    <3> QED BY <2>1, <3>1, <3>2, RecvBytes, FreshKept
  <2>2. CASE Starts
    <3>1. pc' \in {"preclear", "clear"}
      BY <1>1, <2>2, StartTask DEF Starts
    <3> QED BY <3>1 DEF Fresh
  <2>3. CASE ClearFirst \/ ClearSecond
    BY <2>3, FreshClear
  <2>4. CASE Send
    BY <2>4, FreshSend
  <2>5. CASE Pend
    <3>1. pc = "pend" /\ pc' = "read" /\ UNCHANGED <<op, id, quiet, pending>>
      BY <2>5 DEF Pend, modem
    <3> QED BY <2>5, <3>1, TaskBytes, FreshWaiting
  <2>6. CASE PendTimeout
    <3>1. pc' \in {"clear", "idle"}
      BY <1>1, <2>6, PendTimeoutTask
    <3> QED BY <3>1 DEF Fresh
  <2>11. CASE DeadlinePassed
    <3>1. pc' \in {"preclear", "clear", "idle"}
      BY <1>1, <2>11, DeadlineTask
    <3> QED BY <3>1 DEF Fresh
  <2>7. CASE Read
    <3>1. /\ pc = "read" /\ id' = id /\ quiet' = quiet
          /\ pc' \in {"preclear", "clear", "idle"} \/ (pc' = "pend" /\ op' = op)
      BY <1>1, <2>7, ReadTask
    <3>2. pending' = pending
      BY <2>7 DEF Read, modem
    <3>3. CASE pc' \in {"preclear", "clear", "idle"}
      BY <3>3 DEF Fresh
    <3>4. CASE pc' = "pend" /\ op' = op
      BY <2>7, <3>1, <3>2, <3>4, TaskBytes, FreshWaiting
    <3> QED BY <3>1, <3>3, <3>4
  <2>8. CASE atcmd_recv_tcp
    <3>1. UNCHANGED <<op, step, pc, id, quiet, pending, rb, wire>>
      BY <2>8 DEF atcmd_recv_tcp, task, modem
    <3>2. Bytes' = Bytes
      BY <3>1 DEF Bytes
    <3> QED BY <3>1, <3>2, FreshKept
  <2>9. CASE Answer
    BY <2>9, FreshAnswer
  <2>10. CASE Unsolicited
    <3>1. UNCHANGED <<op, step, pc, id, quiet>>
      BY <2>10 DEF Unsolicited, task
    <3> QED BY <2>10, <3>1, UnsolicitedAdds, FreshKept
  <2> QED BY <1>3, <2>1, <2>2, <2>3, <2>4, <2>5, <2>6, <2>7, <2>8, <2>9, <2>10, <2>11, NextCases
<1> QED BY <1>2, <1>3

-----------------------------------------------------------------------------
(***************************************************************************)
(* A success is backed by the call's own answer.                           *)
(***************************************************************************)

\* Without a gap only replies reach the reply ring.
RepliesOnly == late = 0 => \A i \in DOMAIN rb : rb[i].of >= 0

LEMMA StrFacts ==
  ASSUME Types, Str # <<>>
  PROVE  1 \in DOMAIN rb /\ Str[1] = rb[1] /\ Str[1] \in Bytes
<1> DEFINE n == StringEnd(rb)
<1>1. rb \in Seq(Byte) /\ n \in 1..(Len(rb) + 1) /\ Len(rb) \in Nat
  BY StringEndFacts DEF Types, ReceiverOK
<1>2. Str = SubSeq(rb, 1, n - 1)
  BY DEF Str
<1> HIDE DEF n
<1>3. n - 1 >= 1
  BY <1>1, <1>2
<1>4. 1 \in DOMAIN rb /\ Str[1] = rb[1]
  BY <1>1, <1>2, <1>3
<1> QED BY <1>4 DEF Bytes

\* What counts as a success is one of the modem's replies.
LEMMA GoodReply ==
  ASSUME Types, pc = "read", StartsWith(StrFirst, Now.exp), Good(StrText)
  PROVE  Str # <<>> /\ Str[1].ch \in Replies \ {"ERROR"}
<1>1. op \in Calls /\ step \in DOMAIN Script[op]
  BY DEF Types, At
<1>2. CASE op \in {"reply", "close"}
  <2>1. step = 1
    BY <1>1, <1>2, OneStep
  <2>2. Now.exp \in {"OK", "CLOSE_OK"}
    <3>1. Script["reply"][1] = Exec("AT", "OK") /\ Script["close"][1] = Exec("AT+QICLOSE", "CLOSE_OK")
      BY Scripts
    <3> QED BY <1>2, <2>1, <3>1, ExecFields DEF Now
  <2>3. StrFirst \in {"OK", "CLOSE_OK"}
    BY <2>2 DEF StartsWith
  <2> QED BY <2>3 DEF StrFirst, Replies
<1>3. CASE op \notin {"reply", "close"}
  <2>1. StrText \in Replies \ {"ERROR"}
    BY <1>3 DEF Good, Replies
  <2>2. StrText \notin {"empty", "garbled"}
    BY <2>1 DEF Replies
  <2> QED BY <2>1, <2>2 DEF StrText
<1> QED BY <1>2, <1>3

LEMMA FinishOwn ==
  ASSUME NEW r \in BOOLEAN, Finish(r),
         r /\ quiet /\ ~expired' /\ ~DataForReply(line') => line' # <<>> /\ line'[1].of = id
  PROVE  OwnAnswer'
<1>1. res'.own = (r /\ quiet /\ ~expired' /\ ~DataForReply(line') => line' # <<>> /\ line'[1].of = id)
  BY DEF Finish
<1> QED BY <1>1 DEF OwnAnswer

LEMMA FailOwn == ASSUME Finish(FALSE) PROVE OwnAnswer'
BY FinishOwn

LEMMA RetryOwn == ASSUME OwnAnswer, RetryOrFail PROVE OwnAnswer'
<1>1. CASE Finish(FALSE)
  BY <1>1, FailOwn
<1>2. CASE res' = res
  BY <1>2 DEF OwnAnswer
<1> QED BY <1>1, <1>2 DEF RetryOrFail

LEMMA AgainOwn == ASSUME OwnAnswer, NEW timeout \in BOOLEAN, Again(timeout) PROVE OwnAnswer'
<1>1. CASE timeout
  BY <1>1, RetryOwn DEF Again
<1>2. CASE ~timeout
  BY <1>2 DEF Again, OwnAnswer
<1> QED BY <1>1, <1>2

LEMMA ConfirmedOwn ==
  ASSUME OwnAnswer, Confirmed,
         quiet /\ ~expired' /\ ~DataForReply(line') => line' # <<>> /\ line'[1].of = id
  PROVE  OwnAnswer'
<1>1. CASE Finish(TRUE)
  BY <1>1, FinishOwn
<1>2. CASE res' = res
  BY <1>2 DEF OwnAnswer
<1> QED BY <1>1, <1>2 DEF Confirmed

LEMMA ReadOwn ==
  ASSUME Types, Plainness, Fresh, RepliesOnly, OwnAnswer, Read
  PROVE  OwnAnswer'
<1>1. pc = "read" /\ line' = Str
  BY ReadCases
<1>2. PICK timeout \in BOOLEAN :
        \/ expired' = expired /\ Again(timeout)
        \/ /\ GoOn(StrText) /\ step' = step + 1 /\ pc' = AfterStart(Script[op][step + 1])
           /\ op' = op /\ times' = times /\ res' = res /\ expired' = expired
        \/ /\ StartsWith(StrFirst, Now.exp) /\ ~GoOn(StrText) /\ Good(StrText)
           /\ expired' = expired /\ Confirmed
        \/ expired' = expired /\ Finish(FALSE)
  BY ReadCases
<1>3. CASE Again(timeout)
  BY <1>3, AgainOwn
<1>4. CASE res' = res
  BY <1>4 DEF OwnAnswer
<1>5. CASE Finish(FALSE)
  BY <1>5, FailOwn
<1>6. CASE StartsWith(StrFirst, Now.exp) /\ ~GoOn(StrText) /\ Good(StrText) /\ Confirmed
  <2>1. Str # <<>> /\ Str[1].ch \in Replies \ {"ERROR"}
    BY <1>1, <1>6, GoodReply
  <2>2. 1 \in DOMAIN rb /\ Str[1] = rb[1] /\ Str[1] \in Bytes
    BY <2>1, StrFacts
  <2>3. Str[1].of \in Int /\ late \in Nat
    BY <2>2, ByteTypes DEF Types, ReceiverOK
  <2>4. Str[1].of # 0
    <3>1. Replies \cap Plain = {}
      BY DEF Replies, Plain
    <3> QED BY <2>1, <2>2, <3>1 DEF Plainness
  <2>5. ASSUME quiet, ~DataForReply(line') PROVE line'[1].of = id
    <3>1. late = 0 \/ ~(Str[1].of < 0)
      BY <1>1, <2>1, <2>3, <2>5 DEF DataForReply
    <3>2. Str[1].of >= 0
      BY <2>2, <2>3, <3>1 DEF RepliesOnly
    <3>3. Str[1].of > 0
      BY <2>3, <2>4, <3>2
    <3>4. Own(Str[1])
      BY <1>1, <2>2, <2>5 DEF Fresh
    <3>5. Str[1].of = id
      BY <2>1, <3>3, <3>4 DEF Own
    <3> QED BY <1>1, <3>5
  <2> QED BY <1>1, <1>6, <2>1, <2>5, ConfirmedOwn
<1> QED BY <1>2, <1>3, <1>4, <1>5, <1>6

LEMMA OwnStep ==
  ASSUME Types, Plainness, Fresh, RepliesOnly, OwnAnswer, [Next]_vars
  PROVE  OwnAnswer'
<1>1. ASSUME res' = res PROVE OwnAnswer'
  BY <1>1 DEF OwnAnswer
<1>2. CASE UNCHANGED vars
  BY <1>1, <1>2 DEF vars, task
<1>3. CASE Next
  <2>1. CASE atcmd_recv_serial_byte \/ Starts \/ (ClearFirst \/ ClearSecond) \/ Send \/ Pend
    BY <1>1, <2>1 DEF atcmd_recv_serial_byte, task, Starts, Start, ClearFirst, ClearSecond, Clear, Send, Pend
  <2>2. CASE atcmd_recv_tcp \/ Answer \/ Unsolicited
    BY <1>1, <2>2 DEF atcmd_recv_tcp, Answer, Unsolicited, task
  <2>3. CASE PendTimeout
    BY <2>3, RetryOwn DEF PendTimeout
  <2>4. CASE DeadlinePassed
    <3>1. CASE op = "send"
      <4>1. expired' /\ Confirmed
        BY <2>4, <3>1 DEF DeadlinePassed
      <4> QED BY <4>1, ConfirmedOwn
    <3>2. CASE op # "send"
      BY <2>4, <3>2, RetryOwn DEF DeadlinePassed
    <3> QED BY <3>1, <3>2
  <2>5. CASE Read
    BY <2>5, ReadOwn
  <2> QED BY <1>3, <2>1, <2>2, <2>3, <2>4, <2>5, NextCases
<1> QED BY <1>2, <1>3

-----------------------------------------------------------------------------
(***************************************************************************)
(* The bytes under way form lines and frames, and the receiver is where    *)
(* their first byte belongs.                                               *)
(***************************************************************************)

\* What may come next: a line or a frame, the end of a line, or the rest of a
\* frame, with the bytes of data it has left.
Expect == [at : {"line", "text", "P", "D", "length", "colon", "data"}, n : 0..9]
Line == [at |-> "line", n |-> 0]
Mark(m) == [at |-> m, n |-> 0]
Left(m, k) == [at |-> m, n |-> k]

\* With byte b, f comes after e.
Accept(e, b, f) ==
  \/ e = Line /\ b = NL /\ f = Line
  \/ e = Line /\ b.of >= 0 /\ b.ch \in Replies \cup {"RING"} /\ f = Mark("text")
  \/ e = Mark("text") /\ b = NL /\ f = Line
  \/ e = Line /\ b = B("I") /\ f = Mark("P")
  \/ e = Mark("P") /\ b = B("P") /\ f = Mark("D")
  \/ e = Mark("D") /\ b = B("D") /\ f = Mark("length")
  \/ e = Mark("length") /\ f.at = "colon" /\ f.n \in 1..9 /\ b = B(Digits[f.n + 1])
  \/ e.at = "colon" /\ e.n \in 1..9 /\ b = B(":") /\ f.at = "data" /\ f.n = e.n
  \/ e.at = "data" /\ e.n = 1 /\ b.of < 0 /\ f = Line
  \/ e.at = "data" /\ e.n \in 2..9 /\ b.of < 0 /\ f.at = "data" /\ f.n = e.n - 1

Path(w, st) ==
  /\ st \in [1..(Len(w) + 1) -> Expect]
  /\ st[Len(w) + 1] = Line
  /\ \A i \in 1..Len(w) : Accept(st[i], w[i], st[i + 1])

\* The receiver's state for what comes next.
Receiving(e) ==
  \/ e = Line /\ serial_recv = "default" /\ auto_prefix = <<>>
  \/ e = Mark("text") /\ serial_recv = "default"
  \/ e = Mark("P") /\ serial_recv = "default" /\ auto_prefix = <<"I">>
  \/ e = Mark("D") /\ serial_recv = "default" /\ auto_prefix = <<"I", "P">>
  \/ e = Mark("length") /\ serial_recv = "length" /\ auto_prefix = <<>> /\ ipd_length = 0
  \/ e.at = "colon" /\ serial_recv = "length" /\ auto_prefix = <<>> /\ ipd_length = e.n
  \/ e.at = "data" /\ serial_recv = "content" /\ auto_prefix = <<>> /\ ipd_length = ipd_recv_index + e.n

Framing == late = 0 => \E st : Path(wire, st) /\ Receiving(st[1])

LEMMA MarkFields ==
  /\ Line.at = "line" /\ Line.n = 0 /\ Line \in Expect
  /\ \A m : Mark(m).at = m /\ Mark(m).n = 0
  /\ \A m \in {"text", "P", "D", "length"} : Mark(m) \in Expect
BY DEF Line, Mark, Expect

\* A byte in the default state.
LEMMA RecvDefault ==
  ASSUME Types, atcmd_recv_serial_byte, late' = 0, serial_recv = "default"
  PROVE  serial_recv_serial_default(Head(wire))
<1>1. ReceiverOK /\ OutsideOK
  BY DEF Types
<1> QED BY <1>1, RecvCases

\* The receiver follows.
LEMMA FollowLine ==
  ASSUME Types, atcmd_recv_serial_byte, late' = 0, serial_recv = "default", Head(wire) = NL
  PROVE  Receiving(Line)' /\ ipd_rb' = ipd_rb
<1>1. serial_recv_serial_default(Head(wire)) /\ Head(wire).ch = "NL"
  BY RecvDefault, ByteFacts
<1>2. LineEnd
  BY <1>1, DefaultCases
<1>3. serial_recv' = "default" /\ auto_prefix' = <<>> /\ ipd_rb' = ipd_rb
  BY <1>2 DEF LineEnd
<1> QED BY <1>3 DEF Receiving

LEMMA FollowText ==
  ASSUME Types, atcmd_recv_serial_byte, late' = 0, serial_recv = "default", auto_prefix = <<>>,
         Head(wire).ch \notin {"NL", "CR"}
  PROVE  serial_recv' = "default" /\ auto_prefix' = <<Head(wire).ch>> /\ ipd_rb' = ipd_rb
<1> DEFINE c == Head(wire).ch
<1>1. serial_recv_serial_default(Head(wire))
  BY RecvDefault
<1>2. (IF Len(auto_prefix) < 5 THEN Append(auto_prefix, c) ELSE auto_prefix) = <<c>> /\ <<c>> # <<"I", "P", "D">>
  <2> HIDE DEF c
  <2> QED OBVIOUS
<1>3. Stored(Head(wire))
  BY <1>1, <1>2, DefaultCases
<1> QED BY <1>2, <1>3 DEF Stored

LEMMA FollowP ==
  ASSUME Types, atcmd_recv_serial_byte, late' = 0, serial_recv = "default", auto_prefix = <<"I">>, Head(wire) = B("P")
  PROVE  serial_recv' = "default" /\ auto_prefix' = <<"I", "P">> /\ ipd_rb' = ipd_rb
<1>1. serial_recv_serial_default(Head(wire)) /\ Head(wire).ch = "P"
  BY RecvDefault, ByteFacts
<1>2. (IF Len(auto_prefix) < 5 THEN Append(auto_prefix, "P") ELSE auto_prefix) = <<"I", "P">>
      /\ <<"I", "P">> # <<"I", "P", "D">>
  <2>1. Len(<<"I">>) = 1 /\ Append(<<"I">>, "P") = <<"I", "P">> /\ Len(<<"I", "P">>) = 2 /\ Len(<<"I", "P", "D">>) = 3
    BY AppendOne
  <2> QED BY <2>1
<1>3. Stored(Head(wire))
  BY <1>1, <1>2, DefaultCases
<1> QED BY <1>1, <1>2, <1>3 DEF Stored

LEMMA FollowD ==
  ASSUME Types, atcmd_recv_serial_byte, late' = 0, serial_recv = "default", auto_prefix = <<"I", "P">>,
         Head(wire) = B("D")
  PROVE  Receiving(Mark("length"))' /\ ipd_rb' = ipd_rb
<1>1. serial_recv_serial_default(Head(wire)) /\ Head(wire).ch = "D"
  BY RecvDefault, ByteFacts
<1>2. (IF Len(auto_prefix) < 5 THEN Append(auto_prefix, "D") ELSE auto_prefix) = <<"I", "P", "D">>
  <2>1. Len(<<"I", "P">>) = 2 /\ Append(<<"I", "P">>, "D") = <<"I", "P", "D">>
    BY AppendTwo
  <2> QED BY <2>1
<1>3. FrameStart
  BY <1>1, <1>2, DefaultCases
<1>4. serial_recv' = "length" /\ auto_prefix' = <<>> /\ ipd_length' = 0 /\ ipd_rb' = ipd_rb
  BY <1>3 DEF FrameStart
<1> QED BY <1>4 DEF Receiving

LEMMA FollowLength ==
  ASSUME Types, atcmd_recv_serial_byte, late' = 0, serial_recv = "length", auto_prefix = <<>>
  PROVE  /\ auto_prefix' = <<>> /\ ipd_rb' = ipd_rb
         /\ \A n \in 1..9 : ipd_length = 0 /\ Head(wire) = B(Digits[n + 1]) => serial_recv' = "length" /\ ipd_length' = n
         /\ Head(wire) = B(":") =>
              serial_recv' = "content" /\ ipd_recv_index' = 0 /\ ipd_length' = ipd_length
<1> DEFINE b == Head(wire)
<1>1. serial_recv_ipd_length(b)
  <2>1. ReceiverOK /\ OutsideOK
    BY DEF Types
  <2> QED BY <2>1, RecvCases
<1>2. auto_prefix' = <<>> /\ ipd_rb' = ipd_rb
  BY <1>1 DEF serial_recv_ipd_length
<1>3. b = B(":") => serial_recv' = "content" /\ ipd_recv_index' = 0 /\ ipd_length' = ipd_length
  BY <1>1, ByteFacts DEF serial_recv_ipd_length
<1>4. ASSUME NEW n \in 1..9, ipd_length = 0, b = B(Digits[n + 1])
      PROVE  serial_recv' = "length" /\ ipd_length' = n
  <2>1. IsDigit(b) /\ Value(b) = n /\ b.ch # ":"
    <3>1. n \in 0..9
      OBVIOUS
    <3> QED BY <1>4, <3>1, DigitFacts, ByteFacts
  <2>2. serial_recv' = "length" /\ ipd_length' = (ipd_length * 10 + n) % 65536
    BY <1>1, <2>1 DEF serial_recv_ipd_length
  <2>3. (0 * 10 + n) % 65536 = n
    OBVIOUS
  <2> QED BY <1>4, <2>2, <2>3
<1> QED BY <1>2, <1>3, <1>4

LEMMA FollowData ==
  ASSUME Types, atcmd_recv_serial_byte, late' = 0, serial_recv = "content", auto_prefix = <<>>,
         NEW n \in 1..9, ipd_length = ipd_recv_index + n
  PROVE  /\ serial_recv_ipd_content(Head(wire)) /\ auto_prefix' = <<>> /\ ipd_length' = ipd_length
         /\ ipd_recv_index' = ipd_recv_index + 1
         /\ serial_recv' = IF n = 1 THEN "default" ELSE "content"
<1>1. serial_recv_ipd_content(Head(wire))
  <2>1. ReceiverOK /\ OutsideOK
    BY DEF Types
  <2> QED BY <2>1, RecvCases
<1>2. ContentDone <=> n = 1
  BY DEF ContentDone, Types, ReceiverOK
<1> QED BY <1>1, <1>2 DEF serial_recv_ipd_content

\* A byte of data goes to the data ring, any other to where it belongs.
LEMMA Follow ==
  ASSUME Types, atcmd_recv_serial_byte, late' = 0, NEW e \in Expect, NEW f \in Expect,
         Receiving(e), Accept(e, Head(wire), f)
  PROVE  /\ Receiving(f)'
         /\ \/ Head(wire).of < 0 /\ serial_recv_ipd_content(Head(wire))
            \/ Head(wire).of >= 0 /\ ipd_rb' = ipd_rb
<1> DEFINE b == Head(wire)
<1>1. Head(wire) \in Byte /\ b.of \in Int
  BY RecvCases DEF Types, Byte
<1>2. /\ e = Line => serial_recv = "default" /\ auto_prefix = <<>>
      /\ e = Mark("text") => serial_recv = "default"
      /\ e = Mark("P") => serial_recv = "default" /\ auto_prefix = <<"I">>
      /\ e = Mark("D") => serial_recv = "default" /\ auto_prefix = <<"I", "P">>
      /\ e = Mark("length") => serial_recv = "length" /\ auto_prefix = <<>> /\ ipd_length = 0
      /\ e.at = "colon" => serial_recv = "length" /\ auto_prefix = <<>> /\ ipd_length = e.n
      /\ e.at = "data" => serial_recv = "content" /\ auto_prefix = <<>> /\ ipd_length = ipd_recv_index + e.n
  BY MarkFields DEF Receiving
<1>3. CASE (e = Line \/ e = Mark("text")) /\ b = NL /\ f = Line
  BY <1>2, <1>3, FollowLine, ByteFacts
<1>4. CASE e = Line /\ b.of >= 0 /\ b.ch \in Replies \cup {"RING"} /\ f = Mark("text")
  <2>1. b.ch \notin {"NL", "CR"}
    BY <1>4, RepliesText
  <2>2. serial_recv' = "default" /\ ipd_rb' = ipd_rb
    BY <1>2, <1>4, <2>1, FollowText
  <2> QED BY <1>4, <2>2 DEF Receiving
<1>5. CASE e = Line /\ b = B("I") /\ f = Mark("P")
  <2>1. b.ch = "I" /\ b.of = 0
    BY <1>5, ByteFacts
  <2>2. serial_recv' = "default" /\ auto_prefix' = <<"I">> /\ ipd_rb' = ipd_rb
    BY <1>2, <1>5, <2>1, FollowText
  <2> QED BY <1>5, <2>1, <2>2 DEF Receiving
<1>6. CASE e = Mark("P") /\ b = B("P") /\ f = Mark("D")
  <2>1. serial_recv' = "default" /\ auto_prefix' = <<"I", "P">> /\ ipd_rb' = ipd_rb
    BY <1>2, <1>6, FollowP
  <2> QED BY <1>6, <2>1, ByteFacts DEF Receiving
<1>7. CASE e = Mark("D") /\ b = B("D") /\ f = Mark("length")
  BY <1>2, <1>7, FollowD, ByteFacts
<1>8. CASE e = Mark("length") /\ f.at = "colon" /\ f.n \in 1..9 /\ b = B(Digits[f.n + 1])
  <2>1. serial_recv' = "length" /\ auto_prefix' = <<>> /\ ipd_rb' = ipd_rb /\ ipd_length' = f.n
    BY <1>2, <1>8, FollowLength
  <2> QED BY <1>8, <2>1, ByteFacts DEF Receiving
<1>9. CASE e.at = "colon" /\ e.n \in 1..9 /\ b = B(":") /\ f.at = "data" /\ f.n = e.n
  <2>1. /\ serial_recv' = "content" /\ auto_prefix' = <<>> /\ ipd_rb' = ipd_rb
        /\ ipd_length' = e.n /\ ipd_recv_index' = 0
    BY <1>2, <1>9, FollowLength
  <2>2. ipd_length' = ipd_recv_index' + f.n
    BY <1>9, <2>1
  <2> QED BY <1>9, <2>1, <2>2, ByteFacts DEF Receiving
<1>10. CASE e.at = "data" /\ e.n = 1 /\ b.of < 0 /\ f = Line
  <2>1. /\ serial_recv_ipd_content(b) /\ auto_prefix' = <<>> /\ serial_recv' = "default"
    BY <1>2, <1>10, FollowData
  <2> QED BY <1>10, <2>1 DEF Receiving
<1>11. CASE e.at = "data" /\ e.n \in 2..9 /\ b.of < 0 /\ f.at = "data" /\ f.n = e.n - 1
  <2>0. e.n \in 1..9 /\ e.n # 1
    BY <1>11
  <2>1. /\ serial_recv_ipd_content(b) /\ auto_prefix' = <<>> /\ serial_recv' = "content"
        /\ ipd_length' = ipd_length /\ ipd_recv_index' = ipd_recv_index + 1
    BY <1>2, <1>11, <2>0, FollowData
  <2>2. ipd_length' = ipd_recv_index' + f.n
    BY <1>2, <1>11, <2>1, SMTT(30) DEF Types, ReceiverOK
  <2> QED BY <1>11, <2>1, <2>2 DEF Receiving
<1> QED BY <1>3, <1>4, <1>5, <1>6, <1>7, <1>8, <1>9, <1>10, <1>11 DEF Accept

\* The path of the bytes that are left.
LEMMA PathTail ==
  ASSUME NEW w \in Seq(Byte), w # <<>>, NEW st, Path(w, st)
  PROVE  /\ Path(Tail(w), [i \in 1..Len(w) |-> st[i + 1]])
         /\ Accept(st[1], Head(w), st[2]) /\ st[1] \in Expect /\ st[2] \in Expect
<1> DEFINE su == [i \in 1..Len(w) |-> st[i + 1]]
           v == Tail(w)
<1>1. /\ Head(w) = w[1] /\ Len(w) \in Nat \ {0} /\ Len(v) = Len(w) - 1
      /\ \A i \in 1..(Len(w) - 1) : v[i] = w[i + 1]
  BY HeadTail
<1>2. /\ st \in [1..(Len(w) + 1) -> Expect] /\ st[Len(w) + 1] = Line
      /\ \A i \in 1..Len(w) : Accept(st[i], w[i], st[i + 1])
  BY DEF Path
<1>3. Accept(st[1], Head(w), st[2]) /\ st[1] \in Expect /\ st[2] \in Expect
  <2>1. 1 \in 1..Len(w) /\ 1 + 1 = 2 /\ 1 \in 1..(Len(w) + 1) /\ 2 \in 1..(Len(w) + 1)
    BY <1>1
  <2> QED BY <1>1, <1>2, <2>1
<1> HIDE DEF v
<1>4. su \in [1..(Len(v) + 1) -> Expect]
  BY <1>1, <1>2
<1>5. su[Len(v) + 1] = Line
  BY <1>1, <1>2
<1>6. ASSUME NEW i \in 1..Len(v) PROVE Accept(su[i], v[i], su[i + 1])
  <2>1. i \in 1..(Len(w) - 1) /\ i + 1 \in 1..Len(w) /\ i \in 1..Len(w) /\ i \in Nat
    BY <1>1
  <2>2. su[i] = st[i + 1] /\ su[i + 1] = st[(i + 1) + 1] /\ v[i] = w[i + 1]
    BY <1>1, <2>1
  <2> QED BY <1>2, <2>1, <2>2
<1>7. Path(v, su)
  <2> HIDE DEF su
  <2> QED BY <1>4, <1>5, <1>6 DEF Path
<1> QED BY <1>3, <1>7 DEF v

\* Whole lines and frames can be added.
LEMMA PathJoin ==
  ASSUME NEW w \in Seq(Byte), NEW st, Path(w, st), NEW u \in Seq(Byte), NEW su, Path(u, su), su[1] = Line
  PROVE  \E sv : Path(w \o u, sv) /\ sv[1] = st[1]
<1> DEFINE m == Len(w)
           n == Len(u)
           v == w \o u
           sv == [i \in 1..(m + n + 1) |-> IF i <= m THEN st[i] ELSE su[i - m]]
<1>1. /\ m \in Nat /\ n \in Nat /\ Len(v) = m + n
      /\ \A i \in 1..m : v[i] = w[i]
      /\ \A i \in (m + 1)..(m + n) : v[i] = u[i - m]
  BY Joined
<1>2. /\ st \in [1..(m + 1) -> Expect] /\ st[m + 1] = Line
      /\ \A i \in 1..m : Accept(st[i], w[i], st[i + 1])
      /\ su \in [1..(n + 1) -> Expect] /\ su[n + 1] = Line
      /\ \A i \in 1..n : Accept(su[i], u[i], su[i + 1])
  BY DEF Path
<1> HIDE DEF m, n, v
<1>3. \A i \in 1..(m + 1) : sv[i] = st[i]
  <2> TAKE i \in 1..(m + 1)
  <2>1. i \in 1..(m + n + 1)
    BY <1>1
  <2>2. CASE i <= m
    BY <2>1, <2>2
  <2>3. CASE i = m + 1
    <3>1. ~(i <= m) /\ i - m = 1
      BY <1>1, <2>3
    <3> QED BY <1>2, <2>1, <2>3, <3>1
  <2> QED BY <1>1, <2>2, <2>3
<1>4. \A i \in (m + 1)..(m + n + 1) : sv[i] = su[i - m] /\ i - m \in 1..(n + 1)
  BY <1>1
<1>5. sv \in [1..(m + n + 1) -> Expect]
  <2>1. \A i \in 1..(m + n + 1) : sv[i] \in Expect
    <3> TAKE i \in 1..(m + n + 1)
    <3>1. i \in 1..(m + 1) \/ i \in (m + 1)..(m + n + 1)
      BY <1>1
    <3> QED BY <1>2, <1>3, <1>4, <3>1
  <2> QED BY <2>1
<1>6. sv[m + n + 1] = Line
  <2>1. m + n + 1 \in (m + 1)..(m + n + 1) /\ (m + n + 1) - m = n + 1
    BY <1>1
  <2> QED BY <1>2, <1>4, <2>1
<1> HIDE DEF sv
<1>7. ASSUME NEW i \in 1..(m + n) PROVE Accept(sv[i], v[i], sv[i + 1])
  <2>1. CASE i \in 1..m
    <3>1. i + 1 \in 1..(m + 1) /\ i \in 1..(m + 1)
      BY <1>1, <2>1
    <3> QED BY <1>1, <1>2, <1>3, <2>1, <3>1
  <2>2. CASE i \in (m + 1)..(m + n)
    <3>1. /\ i \in (m + 1)..(m + n + 1) /\ i + 1 \in (m + 1)..(m + n + 1)
          /\ i - m \in 1..n /\ (i + 1) - m = (i - m) + 1
      BY <1>1, <2>2
    <3>2. sv[i] = su[i - m] /\ sv[i + 1] = su[(i - m) + 1] /\ v[i] = u[i - m]
      BY <1>1, <1>4, <2>2, <3>1, SMTT(30)
    <3> QED BY <1>2, <3>1, <3>2
  <2> QED BY <1>1, <2>1, <2>2
<1>8. sv[1] = st[1]
  <2>1. 1 \in 1..(m + 1)
    BY <1>1
  <2> QED BY <1>3, <2>1
<1>9. Path(v, sv)
  BY <1>1, <1>5, <1>6, <1>7 DEF Path
<1> QED BY <1>8, <1>9 DEF v

LEMMA PathNL == \E su : Path(<<NL>>, su) /\ su[1] = Line
<1> DEFINE u == <<NL>>
           su == [i \in 1..(1 + 1) |-> Line]
<1>1. Len(u) = 1 /\ u[1] = NL
  OBVIOUS
<1> HIDE DEF u
<1>2. su \in [1..(Len(u) + 1) -> Expect] /\ su[Len(u) + 1] = Line /\ su[1] = Line
  BY <1>1, MarkFields
<1>3. ASSUME NEW i \in 1..Len(u) PROVE Accept(su[i], u[i], su[i + 1])
  <2>1. i = 1 /\ su[i] = Line /\ su[i + 1] = Line /\ u[i] = NL
    BY <1>1
  <2> QED BY <2>1 DEF Accept
<1> HIDE DEF su
<1>4. Path(u, su)
  BY <1>2, <1>3 DEF Path
<1> QED BY <1>2, <1>4 DEF u

LEMMA PathLines ==
  ASSUME NEW a \in Seq(Replies \cup {"RING"}), NEW n \in Nat
  PROVE  \E su : Path(Lines(a, n), su) /\ su[1] = Line
<1> DEFINE u == Lines(a, n)
           m == Len(a)
           su == [i \in 1..(2 * m + 1) |-> IF i % 2 = 1 THEN Line ELSE Mark("text")]
<1>1. /\ Len(u) = 2 * m /\ m \in Nat
      /\ \A i \in 1..(2 * m) :
              \/ i % 2 = 1 /\ (i + 1) \div 2 \in DOMAIN a /\ u[i] = [ch |-> a[(i + 1) \div 2], of |-> n]
              \/ i % 2 = 0 /\ u[i] = NL
  BY LinesFacts
<1>2. \A j \in DOMAIN a : a[j] \in Replies \cup {"RING"}
  OBVIOUS
<1> HIDE DEF u, m
<1>3. su \in [1..(Len(u) + 1) -> Expect]
  BY <1>1, MarkFields
<1>4. su[Len(u) + 1] = Line /\ su[1] = Line
  <2>1. (2 * m + 1) % 2 = 1 /\ 2 * m + 1 \in 1..(2 * m + 1) /\ 1 \in 1..(2 * m + 1) /\ 1 % 2 = 1
    BY <1>1
  <2> QED BY <1>1, <2>1
<1>5. ASSUME NEW i \in 1..Len(u) PROVE Accept(su[i], u[i], su[i + 1])
  <2>1. i \in 1..(2 * m) /\ i \in 1..(2 * m + 1) /\ i + 1 \in 1..(2 * m + 1)
    BY <1>1
  <2>2. CASE i % 2 = 1 /\ (i + 1) \div 2 \in DOMAIN a /\ u[i] = [ch |-> a[(i + 1) \div 2], of |-> n]
    <3>1. (i + 1) % 2 # 1
      BY <2>1, <2>2, SMTT(30)
    <3>2. su[i] = Line /\ su[i + 1] = Mark("text")
      BY <2>1, <2>2, <3>1
    <3>3. u[i].of = n /\ u[i].ch \in Replies \cup {"RING"} /\ n >= 0
      BY <1>2, <2>2
    <3> QED BY <3>2, <3>3 DEF Accept
  <2>3. CASE i % 2 = 0 /\ u[i] = NL
    <3>1. (i + 1) % 2 = 1
      BY <2>1, <2>3
    <3>2. su[i] = Mark("text") /\ su[i + 1] = Line
      BY <2>1, <2>3, <3>1
    <3> QED BY <2>3, <3>2 DEF Accept
  <2> QED BY <1>1, <2>1, <2>2, <2>3
<1> HIDE DEF su
<1>6. Path(u, su)
  BY <1>3, <1>4, <1>5 DEF Path
<1> QED BY <1>4, <1>6 DEF u

LEMMA LeftFields ==
  /\ \A m, k : Left(m, k).at = m /\ Left(m, k).n = k
  /\ \A m \in {"colon", "data"}, k \in 1..9 : Left(m, k) \in Expect
BY DEF Left, Expect

LEMMA PathFrame ==
  ASSUME NEW p \in Frames, sent \in Nat
  PROVE  \E su : Path(Frame(p), su) /\ su[1] = Line
<1> DEFINE u == Frame(p)
           n == Len(p)
           h == <<Line, Mark("P"), Mark("D"), Mark("length"), Left("colon", n)>>
           su == [i \in 1..(5 + n + 1) |->
                    IF i <= 5 THEN h[i] ELSE IF i = 6 + n THEN Line ELSE Left("data", n - (i - 6))]
<1>1. /\ Len(u) = 5 + n /\ n \in 1..9
      /\ u[1] = B("I") /\ u[2] = B("P") /\ u[3] = B("D") /\ u[4] = B(Digits[n + 1]) /\ u[5] = B(":")
      /\ \A i \in 6..(5 + n) : u[i].of = -(sent + i - 5)
  BY FrameFacts
<1> HIDE DEF n
<1>2. h[1] = Line /\ h[2] = Mark("P") /\ h[3] = Mark("D") /\ h[4] = Mark("length") /\ h[5] = Left("colon", n)
  OBVIOUS
<1> HIDE DEF u, h
<1>3. /\ su[1] = Line /\ su[2] = Mark("P") /\ su[3] = Mark("D") /\ su[4] = Mark("length")
      /\ su[5] = Left("colon", n)
  <2>1. \A i \in 1..5 : i \in 1..(5 + n + 1) /\ i <= 5
    BY <1>1
  <2>2. \A i \in 1..5 : su[i] = h[i]
    BY <2>1
  <2> HIDE DEF su
  <2> QED BY <1>2, <2>2
<1>4. ASSUME NEW i \in 6..(5 + n)
      PROVE  su[i] = Left("data", n - (i - 6)) /\ n - (i - 6) \in 1..9
  <2>1. i \in 1..(5 + n + 1) /\ ~(i <= 5) /\ i # 6 + n /\ n - (i - 6) \in 1..9
    BY <1>1
  <2> QED BY <2>1
<1>5. su[6 + n] = Line
  <2>1. 6 + n \in 1..(5 + n + 1) /\ ~(6 + n <= 5)
    BY <1>1
  <2> QED BY <2>1
<1>6. DOMAIN su = 1..(Len(u) + 1) /\ su = [i \in 1..(Len(u) + 1) |-> su[i]]
  BY <1>1
<1> HIDE DEF su
<1>7. \A i \in 1..(Len(u) + 1) : i \in 1..5 \/ i \in 6..(5 + n) \/ i = 6 + n
  BY <1>1
<1>8. \A i \in 1..(Len(u) + 1) : su[i] \in Expect
  <2>1. Left("colon", n) \in Expect
    BY <1>1, LeftFields
  <2>2. \A i \in 1..5 : su[i] \in Expect
    BY <1>3, <2>1, MarkFields
  <2>3. ASSUME NEW i \in 6..(5 + n) PROVE su[i] \in Expect
    BY <1>4, LeftFields
  <2> QED BY <1>5, <1>7, <2>2, <2>3, MarkFields
<1>9. su \in [1..(Len(u) + 1) -> Expect] /\ su[Len(u) + 1] = Line
  <2>1. Len(u) + 1 = 6 + n
    BY <1>1
  <2> QED BY <1>5, <1>6, <1>8, <2>1
<1>10. ASSUME NEW i \in 1..Len(u) PROVE Accept(su[i], u[i], su[i + 1])
  <2>1. CASE i = 1
    BY <1>1, <1>3, <2>1 DEF Accept
  <2>2. CASE i = 2
    BY <1>1, <1>3, <2>2 DEF Accept
  <2>3. CASE i = 3
    BY <1>1, <1>3, <2>3 DEF Accept
  <2>4. CASE i = 4
    <3>1. su[5].at = "colon" /\ su[5].n = n
      BY <1>3, LeftFields
    <3> QED BY <1>1, <1>3, <2>4, <3>1, SMTT(30) DEF Accept
  <2>5. CASE i = 5
    <3>1. su[5].at = "colon" /\ su[5].n = n
      BY <1>3, LeftFields
    <3>2. 6 \in 6..(5 + n) /\ n - (6 - 6) = n
      BY <1>1
    <3>3. su[6].at = "data" /\ su[6].n = n
      BY <1>4, <3>2, LeftFields
    <3> QED BY <1>1, <2>5, <3>1, <3>3 DEF Accept
  <2>6. CASE i \in 6..(5 + n)
    <3>1. su[i].at = "data" /\ su[i].n = n - (i - 6) /\ n - (i - 6) \in 1..9
      BY <1>4, <2>6, LeftFields
    <3>2. u[i].of < 0
      BY <1>1, <2>6
    <3>3. CASE i = 5 + n
      <4>1. su[i + 1] = Line /\ su[i].n = 1
        BY <1>1, <1>5, <3>1, <3>3
      <4> QED BY <3>1, <3>2, <4>1 DEF Accept
    <3>4. CASE i # 5 + n
      <4>0. i \in Int /\ n \in Int /\ 6 <= i /\ i < 5 + n /\ n <= 9
        BY <1>1, <2>6, <3>4
      <4>1. i + 1 \in 6..(5 + n) /\ n - ((i + 1) - 6) = (n - (i - 6)) - 1 /\ n - (i - 6) \in 2..9
        BY <4>0
      <4>2. su[i + 1].at = "data" /\ su[i + 1].n = su[i].n - 1
        BY <1>4, <3>1, <4>1, LeftFields
      <4> QED BY <3>1, <3>2, <4>1, <4>2 DEF Accept
    <3> QED BY <3>3, <3>4
  <2>7. i \in {1, 2, 3, 4, 5} \/ i \in 6..(5 + n)
    BY <1>1
  <2> QED BY <2>1, <2>2, <2>3, <2>4, <2>5, <2>6, <2>7
<1>11. Path(u, su)
  BY <1>9, <1>10 DEF Path
<1> QED BY <1>3, <1>11 DEF u

\* Lines and frames come whole, and change nothing of the receiver.
LEMMA FramingAdded ==
  ASSUME Framing, UNCHANGED <<serial_recv, auto_prefix, ipd_length, ipd_recv_index, late>>,
         wire \in Seq(Byte), NEW u \in Seq(Byte), wire' = wire \o u,
         \E su : Path(u, su) /\ su[1] = Line
  PROVE  Framing'
<1> SUFFICES ASSUME late' = 0 PROVE \E st : Path(wire', st) /\ Receiving(st[1])'
  BY DEF Framing
<1>1. PICK st : Path(wire, st) /\ Receiving(st[1])
  BY DEF Framing
<1>2. PICK su : Path(u, su) /\ su[1] = Line
  OBVIOUS
<1>3. PICK sv : Path(wire \o u, sv) /\ sv[1] = st[1]
  BY <1>1, <1>2, PathJoin
<1>4. Receiving(sv[1])
  BY <1>1, <1>3
<1>5. ASSUME NEW e, Receiving(e) PROVE Receiving(e)'
  BY <1>5 DEF Receiving
<1>6. Receiving(sv[1])'
  BY <1>4, <1>5
<1> QED BY <1>3, <1>6

LEMMA FramingKept ==
  ASSUME Framing, UNCHANGED <<serial_recv, auto_prefix, ipd_length, ipd_recv_index, late, wire>>
  PROVE  Framing'
BY DEF Framing, Receiving

LEMMA FramingRecv == ASSUME Types, Framing, atcmd_recv_serial_byte PROVE Framing'
<1> SUFFICES ASSUME late' = 0 PROVE \E st : Path(wire', st) /\ Receiving(st[1])'
  BY DEF Framing
<1>1. wire # <<>> /\ wire' = Tail(wire) /\ late = 0 /\ wire \in Seq(Byte)
  BY RecvCases DEF Types, OutsideOK
<1>2. PICK st : Path(wire, st) /\ Receiving(st[1])
  BY <1>1 DEF Framing
<1> DEFINE su == [i \in 1..Len(wire) |-> st[i + 1]]
<1>3. Path(Tail(wire), su) /\ Accept(st[1], Head(wire), st[2]) /\ st[1] \in Expect /\ st[2] \in Expect
  BY <1>1, <1>2, PathTail
<1>4. Receiving(st[2])'
  BY <1>2, <1>3, Follow
<1>5. su[1] = st[2]
  <2>1. 1 \in 1..Len(wire) /\ 1 + 1 = 2
    BY <1>1, HeadTail
  <2> QED BY <2>1
<1> HIDE DEF su
<1>6. ASSUME NEW e, e = st[2] PROVE Receiving(e)'
  BY <1>4, <1>6
<1>7. \E sv : Path(wire', sv) /\ sv[1] = st[2]
  BY <1>1, <1>3, <1>5
<1> QED BY <1>6, <1>7

LEMMA FramingStep == ASSUME Types, Framing, [Next]_vars PROVE Framing'
<1>1. wire \in Seq(Byte) /\ sent \in Nat
  BY DEF Types, OutsideOK
<1>2. CASE UNCHANGED vars
  BY <1>2, FramingKept DEF vars, receiver, modem
<1>3. CASE Next
  <2>1. CASE atcmd_recv_serial_byte
    BY <2>1, FramingRecv
  <2>2. CASE Starts \/ (ClearFirst \/ ClearSecond) \/ Send \/ Pend
    <3>1. UNCHANGED <<serial_recv, auto_prefix, ipd_length, ipd_recv_index, late, wire>>
      BY <2>2 DEF Starts, Start, ClearFirst, ClearSecond, Clear, Send, Pend, receiver, modem
    <3> QED BY <3>1, FramingKept
  <2>3. CASE PendTimeout \/ DeadlinePassed \/ Read \/ atcmd_recv_tcp
    <3>1. UNCHANGED <<serial_recv, auto_prefix, ipd_length, ipd_recv_index, late, wire>>
      BY <2>3 DEF PendTimeout, DeadlinePassed, Read, atcmd_recv_tcp, receiver, modem
    <3> QED BY <3>1, FramingKept
  <2>4. CASE Answer
    <3>1. UNCHANGED <<serial_recv, auto_prefix, ipd_length, ipd_recv_index, late>>
      BY <2>4 DEF Answer, receiver
    <3>2. Head(pending).id \in Nat
      BY <2>4, AnswerCases DEF Types
    <3>3. PICK a \in Seq(Replies) : \/ wire' = wire \o Lines(a, Head(pending).id)
                                    \/ wire' = (wire \o <<NL>>) \o Lines(a, Head(pending).id)
      BY <2>4, AnswerCases DEF Types
    <3> DEFINE u == Lines(a, Head(pending).id)
    <3>4. u \in Seq(Byte) /\ \E su : Path(u, su) /\ su[1] = Line
      BY <3>2, ReplyLines, LinesFacts, PathLines
    <3>5. \E su : Path(<<NL>>, su) /\ su[1] = Line
      BY PathNL
    <3>6. <<NL>> \in Seq(Byte)
      BY ByteFacts
    <3> HIDE DEF u
    <3>7. CASE wire' = wire \o u
      BY <1>1, <3>1, <3>4, <3>7, FramingAdded
    <3>8. CASE wire' = (wire \o <<NL>>) \o u
      <4>1. wire' = wire \o (<<NL>> \o u) /\ <<NL>> \o u \in Seq(Byte)
        BY <1>1, <3>4, <3>6, <3>8, Associative
      <4>2. \E su : Path(<<NL>> \o u, su) /\ su[1] = Line
        <5>1. ASSUME NEW h \in Seq(Byte), \E su : Path(h, su) /\ su[1] = Line
              PROVE  \E su : Path(h \o u, su) /\ su[1] = Line
          <6>1. PICK st : Path(h, st) /\ st[1] = Line
            BY <5>1
          <6>2. PICK su : Path(u, su) /\ su[1] = Line
            BY <3>4
          <6> QED BY <3>4, <6>1, <6>2, PathJoin
        <5> QED BY <3>5, <3>6, <5>1
      <4> QED BY <1>1, <3>1, <4>1, <4>2, FramingAdded
    <3> QED BY <3>3, <3>7, <3>8 DEF u
  <2>5. CASE Unsolicited
    <3>1. UNCHANGED <<serial_recv, auto_prefix, ipd_length, ipd_recv_index, late>>
      BY <2>5 DEF Unsolicited, receiver
    <3>2. CASE \E p \in Frames : wire' = wire \o Frame(p) /\ sent' = sent + Len(p)
      <4>1. PICK p \in Frames : wire' = wire \o Frame(p)
        BY <3>2
      <4>2. Frame(p) \in Seq(Byte) /\ \E su : Path(Frame(p), su) /\ su[1] = Line
        BY <1>1, FrameFacts, PathFrame
      <4> QED BY <1>1, <3>1, <4>1, <4>2, FramingAdded
    <3>3. CASE wire' = wire \o Lines(<<"RING">>, 0)
      <4>1. Lines(<<"RING">>, 0) \in Seq(Byte) /\ \E su : Path(Lines(<<"RING">>, 0), su) /\ su[1] = Line
        BY RingText, LinesFacts, PathLines
      <4> QED BY <1>1, <3>1, <3>3, <4>1, FramingAdded
    <3> QED BY <2>5, <3>2, <3>3, UnsolicitedCases DEF Types
  <2> QED BY <1>3, <2>1, <2>2, <2>3, <2>4, <2>5, NextCases
<1> QED BY <1>2, <1>3

-----------------------------------------------------------------------------
(***************************************************************************)
(* The receiver separates replies and data.                                *)
(***************************************************************************)
LEMMA RecvParted ==
  ASSUME Types, Framing, atcmd_recv_serial_byte, late' = 0
  PROVE  \/ Head(wire).of < 0 /\ serial_recv_ipd_content(Head(wire))
         \/ Head(wire).of >= 0 /\ ipd_rb' = ipd_rb
<1>1. wire # <<>> /\ late = 0 /\ wire \in Seq(Byte)
  BY RecvCases DEF Types, OutsideOK
<1>2. PICK st : Path(wire, st) /\ Receiving(st[1])
  BY <1>1 DEF Framing
<1>3. Accept(st[1], Head(wire), st[2]) /\ st[1] \in Expect /\ st[2] \in Expect
  BY <1>1, <1>2, PathTail
<1> QED BY <1>2, <1>3, Follow

LEMMA RepliesStep == ASSUME Types, Framing, RepliesOnly, [Next]_vars PROVE RepliesOnly'
<1>1. rb \in Seq(Byte)
  BY DEF Types, ReceiverOK
<1>2. ASSUME late' = late, \A i \in DOMAIN rb' : \E j \in DOMAIN rb : rb'[i] = rb[j] PROVE RepliesOnly'
  BY <1>2 DEF RepliesOnly
<1>3. CASE UNCHANGED vars
  BY <1>2, <1>3 DEF vars, receiver
<1>4. CASE Next
  <2>1. CASE atcmd_recv_serial_byte
    <3> SUFFICES ASSUME late' = 0, NEW i \in DOMAIN rb' PROVE rb'[i].of >= 0
      BY DEF RepliesOnly
    <3>1. late = 0
      BY <2>1, RecvCases DEF Types
    <3>2. CASE Head(wire).of < 0 /\ serial_recv_ipd_content(Head(wire))
      <4>1. rb' = rb
        BY <3>2 DEF serial_recv_ipd_content
      <4> QED BY <3>1, <4>1 DEF RepliesOnly
    <3>3. CASE Head(wire).of >= 0
      <4>1. (\E j \in DOMAIN rb : rb'[i] = rb[j]) \/ rb'[i] = Head(wire) \/ rb'[i] = NUL
        BY <2>1, RecvRing
      <4>2. NUL.of >= 0
        BY ByteFacts
      <4> QED BY <3>1, <3>3, <4>1, <4>2 DEF RepliesOnly
    <3> QED BY <2>1, <3>2, <3>3, RecvParted
  <2>2. CASE Starts \/ Send \/ Pend \/ PendTimeout \/ DeadlinePassed \/ atcmd_recv_tcp
    <3>1. rb' = rb /\ late' = late
      BY <2>2 DEF Starts, Start, Send, Pend, PendTimeout, DeadlinePassed, atcmd_recv_tcp, receiver
    <3> QED BY <1>2, <3>1
  <2>3. CASE Answer \/ Unsolicited
    <3>1. rb' = rb /\ late' = late
      BY <2>3 DEF Answer, Unsolicited, receiver
    <3> QED BY <1>2, <3>1
  <2>4. CASE ClearFirst \/ ClearSecond
    <3>1. late' = late /\ (rb' = <<>> \/ rb' = rb)
      BY <2>4 DEF ClearFirst, ClearSecond, Clear
    <3> QED BY <1>2, <3>1
  <2>5. CASE Read
    <3>1. late' = late /\ rb' = SubSeq(rb, StringEnd(rb) + 1, Len(rb))
      BY <2>5 DEF Read
    <3>2. \A i \in DOMAIN rb' : \E j \in DOMAIN rb : rb'[i] = rb[j]
      BY <1>1, <3>1, AfterString
    <3> QED BY <1>2, <3>1, <3>2
  <2> QED BY <1>4, <2>1, <2>2, <2>3, <2>4, <2>5, NextCases
<1> QED BY <1>3, <1>4

\* The bytes of data in w are number lo + 1 to number hi, in order.
OnWire(w, lo, hi) ==
  /\ \A i \in 1..Len(w) : w[i].of < 0 => -w[i].of \in (lo + 1)..hi
  /\ \A n \in (lo + 1)..hi : \E i \in 1..Len(w) : w[i].of = -n
  /\ \A i, j \in 1..Len(w) : w[i].of < 0 /\ w[j].of < 0 /\ i < j => w[i].of > w[j].of

LEMMA OfInt == ASSUME NEW w \in Seq(Byte), NEW i \in 1..Len(w) PROVE w[i].of \in Int
<1>1. w[i] \in Byte
  OBVIOUS
<1> QED BY <1>1 DEF Byte

LEMMA OnWireData ==
  ASSUME NEW w \in Seq(Byte), w # <<>>, NEW lo \in Nat, NEW hi \in Nat, OnWire(w, lo, hi), Head(w).of < 0
  PROVE  Head(w).of = -(lo + 1) /\ lo + 1 <= hi /\ OnWire(Tail(w), lo + 1, hi)
<1> DEFINE v == Tail(w)
<1>1. /\ Head(w) = w[1] /\ Len(w) \in Nat \ {0} /\ Len(v) = Len(w) - 1
      /\ \A i \in 1..(Len(w) - 1) : v[i] = w[i + 1]
  BY HeadTail
<1>2. \A i \in 1..Len(w) : w[i].of \in Int
  BY OfInt
<1>3. -w[1].of \in (lo + 1)..hi /\ 1 \in 1..Len(w) /\ w[1].of \in Int
  BY <1>1, <1>2 DEF OnWire
<1>4. lo + 1 \in (lo + 1)..hi
  BY <1>3
<1>5. PICK i \in 1..Len(w) : w[i].of = -(lo + 1)
  BY <1>4 DEF OnWire
<1>6. w[1].of = -(lo + 1)
  <2>1. CASE i = 1
    BY <1>5, <2>1
  <2>2. CASE i # 1
    <3>1. 1 < i /\ w[i].of < 0
      BY <1>1, <1>5, <2>2
    <3>2. w[1].of > w[i].of
      BY <1>1, <1>3, <3>1 DEF OnWire
    <3> QED BY <1>3, <1>5, <3>2
  <2> QED BY <2>1, <2>2
<1>7. ASSUME NEW j \in 1..Len(v), v[j].of < 0 PROVE -v[j].of \in (lo + 1 + 1)..hi
  <2>1. j + 1 \in 1..Len(w) /\ v[j] = w[j + 1] /\ 1 < j + 1
    BY <1>1
  <2>2. w[1].of > w[j + 1].of /\ -w[j + 1].of \in (lo + 1)..hi /\ w[j + 1].of \in Int
    BY <1>1, <1>2, <1>3, <1>7, <2>1 DEF OnWire
  <2> QED BY <1>6, <2>1, <2>2
<1>8. ASSUME NEW n \in (lo + 1 + 1)..hi PROVE \E j \in 1..Len(v) : v[j].of = -n
  <2>1. n \in (lo + 1)..hi /\ n # lo + 1
    OBVIOUS
  <2>2. PICK k \in 1..Len(w) : w[k].of = -n
    BY <2>1 DEF OnWire
  <2>3. k # 1
    BY <1>6, <2>1, <2>2
  <2>4. k - 1 \in 1..(Len(w) - 1) /\ (k - 1) + 1 = k
    BY <1>1, <2>3
  <2>5. v[k - 1] = w[k]
    BY <1>1, <2>4
  <2> QED BY <1>1, <2>2, <2>4, <2>5
<1>9. ASSUME NEW j \in 1..Len(v), NEW k \in 1..Len(v), v[j].of < 0, v[k].of < 0, j < k
      PROVE  v[j].of > v[k].of
  <2>1. j + 1 \in 1..Len(w) /\ k + 1 \in 1..Len(w) /\ v[j] = w[j + 1] /\ v[k] = w[k + 1] /\ j + 1 < k + 1
    BY <1>1, <1>9
  <2> QED BY <1>9, <2>1 DEF OnWire
<1> HIDE DEF v
<1>10. OnWire(v, lo + 1, hi)
  BY <1>7, <1>8, <1>9 DEF OnWire
<1> QED BY <1>1, <1>3, <1>6, <1>10 DEF v

LEMMA OnWireOther ==
  ASSUME NEW w \in Seq(Byte), w # <<>>, NEW lo \in Nat, NEW hi \in Nat, OnWire(w, lo, hi), Head(w).of >= 0
  PROVE  OnWire(Tail(w), lo, hi)
<1> DEFINE v == Tail(w)
<1>1. /\ Head(w) = w[1] /\ Len(w) \in Nat \ {0} /\ Len(v) = Len(w) - 1
      /\ \A i \in 1..(Len(w) - 1) : v[i] = w[i + 1]
  BY HeadTail
<1> HIDE DEF v
<1>2. \A j \in 1..Len(v) : j + 1 \in 1..Len(w) /\ v[j] = w[j + 1]
  BY <1>1
<1>3. ASSUME NEW j \in 1..Len(v), v[j].of < 0 PROVE -v[j].of \in (lo + 1)..hi
  BY <1>2, <1>3 DEF OnWire
<1>4. ASSUME NEW n \in (lo + 1)..hi PROVE \E j \in 1..Len(v) : v[j].of = -n
  <2>1. PICK k \in 1..Len(w) : w[k].of = -n
    BY DEF OnWire
  <2>2. k # 1
    BY <1>1, <2>1
  <2>3. k - 1 \in 1..(Len(w) - 1) /\ (k - 1) + 1 = k
    BY <1>1, <2>2
  <2>4. v[k - 1] = w[k]
    BY <1>1, <2>3
  <2> QED BY <1>1, <2>1, <2>3, <2>4
<1>5. ASSUME NEW j \in 1..Len(v), NEW k \in 1..Len(v), v[j].of < 0, v[k].of < 0, j < k
      PROVE  v[j].of > v[k].of
  <2>1. j + 1 < k + 1
    BY <1>5
  <2> QED BY <1>2, <1>5, <2>1 DEF OnWire
<1>6. OnWire(v, lo, hi)
  BY <1>3, <1>4, <1>5 DEF OnWire
<1> QED BY <1>6 DEF v

LEMMA OnWireJoin ==
  ASSUME NEW w \in Seq(Byte), NEW u \in Seq(Byte), NEW lo \in Nat, NEW mid \in Nat, NEW hi \in Nat,
         lo <= mid, mid <= hi, OnWire(w, lo, mid), OnWire(u, mid, hi)
  PROVE  OnWire(w \o u, lo, hi)
<1> DEFINE v == w \o u
           m == Len(w)
<1>1. /\ m \in Nat /\ Len(u) \in Nat /\ Len(v) = m + Len(u)
      /\ \A i \in 1..m : v[i] = w[i]
      /\ \A i \in 1..Len(u) : v[m + i] = u[i]
      /\ \A i \in (m + 1)..(m + Len(u)) : v[i] = u[i - m] /\ i - m \in 1..Len(u)
  BY Joined
<1>2. (\A i \in 1..m : w[i].of \in Int) /\ (\A i \in 1..Len(u) : u[i].of \in Int)
  BY OfInt
<1>3. /\ \A i \in 1..m : w[i].of < 0 => -w[i].of \in (lo + 1)..mid
      /\ \A n \in (lo + 1)..mid : \E i \in 1..m : w[i].of = -n
      /\ \A i, j \in 1..m : w[i].of < 0 /\ w[j].of < 0 /\ i < j => w[i].of > w[j].of
  BY DEF OnWire
<1>4. /\ \A i \in 1..Len(u) : u[i].of < 0 => -u[i].of \in (mid + 1)..hi
      /\ \A n \in (mid + 1)..hi : \E i \in 1..Len(u) : u[i].of = -n
      /\ \A i, j \in 1..Len(u) : u[i].of < 0 /\ u[j].of < 0 /\ i < j => u[i].of > u[j].of
  BY DEF OnWire
<1> HIDE DEF v, m
<1>5. \A i \in 1..Len(v) : i \in 1..m \/ i \in (m + 1)..(m + Len(u))
  BY <1>1
<1>6. ASSUME NEW i \in 1..Len(v), v[i].of < 0 PROVE -v[i].of \in (lo + 1)..hi
  <2>1. CASE i \in 1..m
    BY <1>1, <1>2, <1>3, <1>6, <2>1, SMTT(30)
  <2>2. CASE i \in (m + 1)..(m + Len(u))
    BY <1>1, <1>2, <1>4, <1>6, <2>2, SMTT(30)
  <2> QED BY <1>5, <2>1, <2>2
<1>7. ASSUME NEW n \in (lo + 1)..hi PROVE \E i \in 1..Len(v) : v[i].of = -n
  <2>1. CASE n \in (lo + 1)..mid
    <3>1. PICK i \in 1..m : w[i].of = -n
      BY <1>3, <2>1
    <3>2. i \in 1..Len(v) /\ v[i] = w[i]
      BY <1>1
    <3> QED BY <3>1, <3>2
  <2>2. CASE n \in (mid + 1)..hi
    <3>1. PICK i \in 1..Len(u) : u[i].of = -n
      BY <1>4, <2>2
    <3>2. m + i \in 1..Len(v) /\ v[m + i] = u[i]
      BY <1>1
    <3> QED BY <3>1, <3>2
  <2> QED BY <2>1, <2>2
<1>8. ASSUME NEW i \in 1..Len(v), NEW j \in 1..Len(v), v[i].of < 0, v[j].of < 0, i < j
      PROVE  v[i].of > v[j].of
  <2>1. CASE i \in 1..m /\ j \in 1..m
    BY <1>1, <1>3, <1>8, <2>1
  <2>2. CASE i \in 1..m /\ j \in (m + 1)..(m + Len(u))
    <3>1. v[i] = w[i] /\ w[i].of \in Int /\ -w[i].of \in (lo + 1)..mid
      BY <1>1, <1>2, <1>3, <1>8, <2>2
    <3>2. v[j] = u[j - m] /\ u[j - m].of \in Int /\ -u[j - m].of \in (mid + 1)..hi
      BY <1>1, <1>2, <1>4, <1>8, <2>2
    <3>3. -w[i].of <= mid /\ mid + 1 <= -u[j - m].of
      BY <3>1, <3>2
    <3>4. ASSUME NEW a \in Int, NEW b \in Int, -a <= mid, mid + 1 <= -b PROVE a > b
      BY <3>4
    <3>5. w[i].of > u[j - m].of
      BY <3>1, <3>2, <3>3, <3>4
    <3> QED BY <3>1, <3>2, <3>5
  <2>3. CASE i \in (m + 1)..(m + Len(u)) /\ j \in (m + 1)..(m + Len(u))
    <3>1. v[i] = u[i - m] /\ v[j] = u[j - m] /\ i - m \in 1..Len(u) /\ j - m \in 1..Len(u) /\ i - m < j - m
      BY <1>1, <1>8, <2>3
    <3> QED BY <1>4, <1>8, <3>1
  <2>4. ~(i \in (m + 1)..(m + Len(u)) /\ j \in 1..m)
    BY <1>1, <1>8
  <2> QED BY <1>5, <2>1, <2>2, <2>3, <2>4
<1>9. OnWire(v, lo, hi)
  BY <1>6, <1>7, <1>8 DEF OnWire
<1> QED BY <1>9 DEF v

LEMMA OnWireText ==
  ASSUME NEW u \in Seq(Byte), NEW n \in Nat, \A i \in 1..Len(u) : u[i].of >= 0
  PROVE  OnWire(u, n, n)
<1>1. (n + 1)..n = {}
  OBVIOUS
<1>2. \A i \in 1..Len(u) : ~(u[i].of < 0)
  BY OfInt
<1> QED BY <1>1, <1>2 DEF OnWire

LEMMA OnWireNL == ASSUME NEW n \in Nat PROVE <<NL>> \in Seq(Byte) /\ OnWire(<<NL>>, n, n)
<1>1. <<NL>> \in Seq(Byte) /\ \A i \in 1..Len(<<NL>>) : <<NL>>[i].of >= 0
  BY ByteFacts
<1>2. ASSUME NEW u \in Seq(Byte), \A i \in 1..Len(u) : u[i].of >= 0 PROVE OnWire(u, n, n)
  BY <1>2, OnWireText
<1> QED BY <1>1, <1>2

LEMMA OnWireLines ==
  ASSUME NEW a \in Seq(Replies \cup {"RING"}), NEW m \in Nat, NEW n \in Nat
  PROVE  Lines(a, m) \in Seq(Byte) /\ OnWire(Lines(a, m), n, n)
<1> DEFINE u == Lines(a, m)
<1>1. /\ u \in Seq(Byte) /\ Len(u) = 2 * Len(a)
      /\ \A i \in 1..(2 * Len(a)) :
              \/ u[i] = [ch |-> a[(i + 1) \div 2], of |-> m]
              \/ u[i] = NL
  BY LinesFacts
<1> HIDE DEF u
<1>2. ASSUME NEW i \in 1..Len(u) PROVE u[i].of >= 0
  <2>1. u[i].of = m \/ u[i] = NL
    BY <1>1
  <2> QED BY <2>1, ByteFacts
<1>3. OnWire(u, n, n)
  BY <1>1, <1>2, OnWireText
<1> QED BY <1>1, <1>3 DEF u

LEMMA OnWireFrame ==
  ASSUME NEW p \in Frames, sent \in Nat
  PROVE  OnWire(Frame(p), sent, sent + Len(p))
<1> DEFINE u == Frame(p)
           n == Len(p)
<1>1. /\ Len(u) = 5 + n /\ n \in 1..9
      /\ u[1] = B("I") /\ u[2] = B("P") /\ u[3] = B("D") /\ u[4] = B(Digits[n + 1]) /\ u[5] = B(":")
      /\ \A i \in 6..(5 + n) : u[i].of = -(sent + i - 5)
  BY FrameFacts
<1> HIDE DEF u, n
<1>2. \A i \in 1..5 : u[i].of = 0
  BY <1>1, ByteFacts
<1>3. \A i \in 1..Len(u) : i \in 1..5 \/ i \in 6..(5 + n)
  BY <1>1
<1>4. ASSUME NEW i \in 1..Len(u), u[i].of < 0 PROVE i \in 6..(5 + n) /\ u[i].of = -(sent + i - 5)
  BY <1>1, <1>2, <1>3, <1>4
<1>5. ASSUME NEW i \in 1..Len(u), u[i].of < 0 PROVE -u[i].of \in (sent + 1)..(sent + n)
  <2>1. i \in 6..(5 + n) /\ u[i].of = -(sent + i - 5)
    BY <1>4, <1>5
  <2> QED BY <1>1, <2>1
<1>6. ASSUME NEW k \in (sent + 1)..(sent + n) PROVE \E i \in 1..Len(u) : u[i].of = -k
  <2>1. k - sent + 5 \in 6..(5 + n) /\ sent + (k - sent + 5) - 5 = k /\ k - sent + 5 \in 1..Len(u)
    BY <1>1
  <2>2. u[k - sent + 5].of = -k
    BY <1>1, <2>1
  <2> QED BY <2>1, <2>2
<1>7. ASSUME NEW i \in 1..Len(u), NEW j \in 1..Len(u), u[i].of < 0, u[j].of < 0, i < j
      PROVE  u[i].of > u[j].of
  <2>1. u[i].of = -(sent + i - 5) /\ u[j].of = -(sent + j - 5)
    BY <1>4, <1>7
  <2> QED BY <1>1, <1>7, <2>1
<1> QED BY <1>5, <1>6, <1>7 DEF OnWire, u, n

\* DataIntact, byte by byte.
DataHeld ==
  late = 0 /\ ~overflow =>
    /\ \A i \in 1..Len(delivered) : delivered[i].of = -i
    /\ \A i \in 1..Len(ipd_rb) : ipd_rb[i].of = -(Len(delivered) + i)
    /\ OnWire(wire, Len(delivered) + Len(ipd_rb), sent)
    /\ Len(delivered) + Len(ipd_rb) <= sent

LEMMA HeldSuffices == ASSUME Types, DataHeld PROVE DataIntact
<1> SUFFICES ASSUME late = 0 /\ ~overflow
             PROVE  LET received == delivered \o ipd_rb
                    IN  /\ \A i \in DOMAIN received : received[i].of = -i
                        /\ {wire[i].of : i \in DataOnWire} = {-n : n \in (Len(received) + 1)..sent}
                        /\ \A i, j \in DataOnWire : i < j => wire[i].of > wire[j].of
  BY DEF DataIntact
<1> DEFINE received == delivered \o ipd_rb
           d == Len(delivered)
           k == Len(ipd_rb)
<1>1. delivered \in Seq(Byte) /\ ipd_rb \in Seq(Byte) /\ wire \in Seq(Byte) /\ sent \in Nat
  BY DEF Types, OutsideOK, ReceiverOK
<1>2. /\ d \in Nat /\ k \in Nat /\ Len(received) = d + k /\ DOMAIN received = 1..(d + k)
      /\ \A i \in 1..d : received[i] = delivered[i]
      /\ \A i \in (d + 1)..(d + k) : received[i] = ipd_rb[i - d] /\ i - d \in 1..k
  BY <1>1, Joined
<1>3. /\ \A i \in 1..d : delivered[i].of = -i
      /\ \A i \in 1..k : ipd_rb[i].of = -(d + i)
      /\ OnWire(wire, d + k, sent)
  BY DEF DataHeld
<1>4. DOMAIN wire = 1..Len(wire) /\ \A i \in 1..Len(wire) : wire[i].of \in Int
  BY <1>1, OfInt
<1> HIDE DEF received, d, k
<1>5. ASSUME NEW i \in DOMAIN received PROVE received[i].of = -i
  <2>1. CASE i \in 1..d
    BY <1>2, <1>3, <2>1
  <2>2. CASE i \in (d + 1)..(d + k)
    <3>1. received[i] = ipd_rb[i - d] /\ i - d \in 1..k /\ d + (i - d) = i
      BY <1>2, <2>2
    <3>2. ipd_rb[i - d].of = -(d + (i - d))
      BY <1>3, <3>1
    <3> QED BY <3>1, <3>2
  <2> QED BY <1>2, <2>1, <2>2
<1>6. {wire[i].of : i \in DataOnWire} = {-n : n \in (Len(received) + 1)..sent}
  <2>1. ASSUME NEW i \in DataOnWire PROVE \E n \in (d + k + 1)..sent : wire[i].of = -n
    <3>1. i \in 1..Len(wire) /\ wire[i].of < 0 /\ wire[i].of \in Int
      BY <1>4 DEF DataOnWire
    <3>2. -wire[i].of \in (d + k + 1)..sent /\ wire[i].of = -(-wire[i].of)
      BY <1>3, <3>1 DEF OnWire
    <3> QED BY <3>2
  <2>2. ASSUME NEW n \in (d + k + 1)..sent PROVE \E i \in DataOnWire : wire[i].of = -n
    <3>1. PICK i \in 1..Len(wire) : wire[i].of = -n
      BY <1>3 DEF OnWire
    <3>2. -n < 0
      BY <1>2
    <3>3. i \in DataOnWire
      BY <1>4, <3>1, <3>2 DEF DataOnWire
    <3> QED BY <3>1, <3>3
  <2> QED BY <1>2, <2>1, <2>2
<1>7. ASSUME NEW i \in DataOnWire, NEW j \in DataOnWire, i < j PROVE wire[i].of > wire[j].of
  <2>1. i \in 1..Len(wire) /\ wire[i].of < 0 /\ j \in 1..Len(wire) /\ wire[j].of < 0
    BY <1>4 DEF DataOnWire
  <2> QED BY <1>3, <1>7, <2>1 DEF OnWire
<1> QED BY <1>5, <1>6, <1>7 DEF received

LEMMA HeldKept ==
  ASSUME DataHeld, UNCHANGED <<delivered, ipd_rb, wire, sent, late, overflow>>
  PROVE  DataHeld'
BY DEF DataHeld, OnWire

\* What comes is added behind what is under way.
LEMMA HeldAdded ==
  ASSUME Types, DataHeld, UNCHANGED <<delivered, ipd_rb, late, overflow>>,
         NEW u \in Seq(Byte), wire' = wire \o u, sent' \in Nat, sent <= sent', OnWire(u, sent, sent')
  PROVE  DataHeld'
<1> SUFFICES ASSUME late' = 0 /\ ~overflow'
             PROVE  /\ \A i \in 1..Len(delivered') : delivered'[i].of = -i
                    /\ \A i \in 1..Len(ipd_rb') : ipd_rb'[i].of = -(Len(delivered') + i)
                    /\ OnWire(wire', Len(delivered') + Len(ipd_rb'), sent')
                    /\ Len(delivered') + Len(ipd_rb') <= sent'
  BY DEF DataHeld
<1> DEFINE d == Len(delivered)
           k == Len(ipd_rb)
<1>1. wire \in Seq(Byte) /\ sent \in Nat /\ d \in Nat /\ k \in Nat
  BY DEF Types, OutsideOK, ReceiverOK
<1>2. /\ \A i \in 1..d : delivered[i].of = -i
      /\ \A i \in 1..k : ipd_rb[i].of = -(d + i)
      /\ OnWire(wire, d + k, sent) /\ d + k <= sent
  BY DEF DataHeld
<1>3. OnWire(wire', d + k, sent')
  <2>1. d + k \in Nat
    BY <1>1
  <2> HIDE DEF d, k
  <2> QED BY <1>1, <1>2, <2>1, OnWireJoin
<1>4. d + k <= sent'
  BY <1>1, <1>2
<1> QED BY <1>2, <1>3, <1>4

LEMMA HeldRecv == ASSUME Types, Framing, DataHeld, atcmd_recv_serial_byte PROVE DataHeld'
<1> SUFFICES ASSUME late' = 0 /\ ~overflow'
             PROVE  /\ \A i \in 1..Len(delivered') : delivered'[i].of = -i
                    /\ \A i \in 1..Len(ipd_rb') : ipd_rb'[i].of = -(Len(delivered') + i)
                    /\ OnWire(wire', Len(delivered') + Len(ipd_rb'), sent')
                    /\ Len(delivered') + Len(ipd_rb') <= sent'
  BY DEF DataHeld
<1> DEFINE d == Len(delivered)
           k == Len(ipd_rb)
<1>1. /\ wire \in Seq(Byte) /\ sent \in Nat /\ d \in Nat /\ k \in Nat /\ ipd_rb \in Seq(Byte)
      /\ Len(ipd_rb) <= IpdCap /\ IpdCap \in Nat
  BY BoundsAssumption DEF Types, OutsideOK, ReceiverOK
<1>2. wire # <<>> /\ wire' = Tail(wire) /\ late = 0 /\ Head(wire) \in Byte
  BY RecvCases DEF Types
<1>3. delivered' = delivered /\ sent' = sent
  BY DEF atcmd_recv_serial_byte, reader
<1>4. ~overflow
  <2>1. ASSUME NEW b, serial_recv_serial_default(b) PROVE overflow' = overflow \/ overflow' = (overflow \/ Len(rb) = RbCap)
    BY <2>1, DefaultCases DEF LineEnd, Skipped, FrameStart, Stored
  <2>2. CASE serial_recv_ipd_content(Head(wire))
    BY <2>2 DEF serial_recv_ipd_content
  <2>3. CASE serial_recv_ipd_length(Head(wire))
    BY <2>3 DEF serial_recv_ipd_length
  <2>4. CASE serial_recv_serial_default(Head(wire))
    BY <2>1, <2>4
  <2> QED BY <2>2, <2>3, <2>4, RecvCases DEF Types
<1>5. /\ \A i \in 1..d : delivered[i].of = -i
      /\ \A i \in 1..k : ipd_rb[i].of = -(d + i)
      /\ OnWire(wire, d + k, sent) /\ d + k <= sent
  BY <1>2, <1>4 DEF DataHeld
<1>6. CASE Head(wire).of < 0 /\ serial_recv_ipd_content(Head(wire))
  <2>1. Len(ipd_rb) < IpdCap /\ ipd_rb' = Append(ipd_rb, Head(wire))
    <3>1. overflow' = (overflow \/ Len(ipd_rb) = IpdCap) /\ ipd_rb' = Put(ipd_rb, Head(wire), IpdCap)
      BY <1>6 DEF serial_recv_ipd_content
    <3>2. Len(ipd_rb) # IpdCap
      BY <3>1, Zenon
    <3> QED BY <1>1, <3>1, <3>2 DEF Put
  <2>2. /\ Len(ipd_rb') = k + 1 /\ ipd_rb'[k + 1] = Head(wire)
        /\ \A i \in 1..k : ipd_rb'[i] = ipd_rb[i]
    BY <1>1, <1>2, <2>1
  <2>3. d + k \in Nat
    BY <1>1
  <2> HIDE DEF d, k
  <2>4. Head(wire).of = -(d + k + 1) /\ d + k + 1 <= sent /\ OnWire(Tail(wire), d + k + 1, sent)
    BY <1>1, <1>2, <1>5, <1>6, <2>3, OnWireData
  <2>5. ASSUME NEW i \in 1..(k + 1) PROVE ipd_rb'[i].of = -(d + i)
    <3>1. CASE i \in 1..k
      BY <1>5, <2>2, <3>1
    <3>2. CASE i = k + 1
      <4>1. d + (k + 1) = d + k + 1
        BY <1>1
      <4> QED BY <2>2, <2>4, <3>2, <4>1
    <3> QED BY <1>1, <3>1, <3>2
  <2>6. d + (k + 1) = d + k + 1
    BY <1>1
  <2> QED BY <1>2, <1>3, <1>5, <2>2, <2>4, <2>5, <2>6 DEF d
<1>7. CASE Head(wire).of >= 0 /\ ipd_rb' = ipd_rb
  <2>1. d + k \in Nat
    BY <1>1
  <2> HIDE DEF d, k
  <2>2. OnWire(Tail(wire), d + k, sent)
    BY <1>1, <1>2, <1>5, <1>7, <2>1, OnWireOther
  <2> QED BY <1>2, <1>3, <1>5, <1>7, <2>2 DEF d, k
<1> QED BY <1>6, <1>7, RecvParted

LEMMA HeldRead == ASSUME Types, DataHeld, atcmd_recv_tcp PROVE DataHeld'
<1> SUFFICES ASSUME late' = 0 /\ ~overflow'
             PROVE  /\ \A i \in 1..Len(delivered') : delivered'[i].of = -i
                    /\ \A i \in 1..Len(ipd_rb') : ipd_rb'[i].of = -(Len(delivered') + i)
                    /\ OnWire(wire', Len(delivered') + Len(ipd_rb'), sent')
                    /\ Len(delivered') + Len(ipd_rb') <= sent'
  BY DEF DataHeld
<1> DEFINE d == Len(delivered)
           k == Len(ipd_rb)
<1>1. /\ wire \in Seq(Byte) /\ sent \in Nat /\ d \in Nat /\ k \in Nat
      /\ ipd_rb \in Seq(Byte) /\ delivered \in Seq(Byte)
  BY DEF Types, OutsideOK, ReceiverOK
<1>2. UNCHANGED <<wire, sent, late, overflow>>
  BY DEF atcmd_recv_tcp, modem
<1>3. /\ \A i \in 1..d : delivered[i].of = -i
      /\ \A i \in 1..k : ipd_rb[i].of = -(d + i)
      /\ OnWire(wire, d + k, sent) /\ d + k <= sent
  BY <1>2 DEF DataHeld
<1>4. PICK n \in 0..k :
        /\ delivered' = delivered \o SubSeq(ipd_rb, 1, n)
        /\ ipd_rb' = SubSeq(ipd_rb, n + 1, Len(ipd_rb))
  BY RecvTcpFacts DEF Types
<1> DEFINE a == SubSeq(ipd_rb, 1, n)
<1>5. /\ a \in Seq(Byte) /\ Len(a) = n /\ Len(ipd_rb') = k - n
      /\ \A i \in 1..n : a[i] = ipd_rb[i]
      /\ \A i \in 1..(k - n) : ipd_rb'[i] = ipd_rb[i + n]
  BY <1>1, <1>4, Halves
<1> HIDE DEF a
<1>6. /\ Len(delivered') = d + n
      /\ \A i \in 1..d : delivered'[i] = delivered[i]
      /\ \A i \in (d + 1)..(d + n) : delivered'[i] = a[i - d] /\ i - d \in 1..n
  BY <1>1, <1>4, <1>5, Joined DEF a
<1> HIDE DEF d, k
<1>7. ASSUME NEW i \in 1..(d + n) PROVE delivered'[i].of = -i
  <2>1. CASE i \in 1..d
    BY <1>3, <1>6, <2>1
  <2>2. CASE i \in (d + 1)..(d + n)
    <3>1. delivered'[i] = ipd_rb[i - d] /\ i - d \in 1..k /\ d + (i - d) = i
      BY <1>1, <1>5, <1>6, <2>2
    <3>2. ipd_rb[i - d].of = -(d + (i - d))
      BY <1>3, <3>1
    <3> QED BY <3>1, <3>2
  <2> QED BY <1>1, <2>1, <2>2
<1>8. ASSUME NEW i \in 1..(k - n) PROVE ipd_rb'[i].of = -(d + n + i)
  <2>1. i + n \in 1..k /\ ipd_rb'[i] = ipd_rb[i + n] /\ d + (i + n) = d + n + i
    BY <1>1, <1>5
  <2>2. ipd_rb[i + n].of = -(d + (i + n))
    BY <1>3, <2>1
  <2> QED BY <2>1, <2>2
<1>9. (d + n) + (k - n) = d + k
  BY <1>1
<1> QED BY <1>2, <1>3, <1>5, <1>6, <1>7, <1>8, <1>9

LEMMA HeldStep == ASSUME Types, Framing, DataHeld, [Next]_vars PROVE DataHeld'
<1>1. wire \in Seq(Byte) /\ sent \in Nat
  BY DEF Types, OutsideOK
<1>2. CASE UNCHANGED vars
  BY <1>2, HeldKept DEF vars, receiver, modem, reader
<1>3. CASE Next
  <2>1. CASE atcmd_recv_serial_byte
    BY <2>1, HeldRecv
  <2>2. CASE Starts \/ (ClearFirst \/ ClearSecond) \/ Send \/ Pend
    <3>1. UNCHANGED <<delivered, ipd_rb, wire, sent, late, overflow>>
      BY <2>2 DEF Starts, Start, ClearFirst, ClearSecond, Clear, Send, Pend, receiver, modem, reader
    <3> QED BY <3>1, HeldKept
  <2>3. CASE PendTimeout \/ DeadlinePassed \/ Read
    <3>1. UNCHANGED <<delivered, ipd_rb, wire, sent, late, overflow>>
      BY <2>3 DEF PendTimeout, DeadlinePassed, Read, receiver, modem, reader
    <3> QED BY <3>1, HeldKept
  <2>4. CASE atcmd_recv_tcp
    BY <2>4, HeldRead
  <2>5. CASE Answer
    <3>1. UNCHANGED <<delivered, ipd_rb, late, overflow>> /\ sent' = sent
      BY <2>5 DEF Answer, receiver, reader
    <3>2. Head(pending).id \in Nat
      BY <2>5, AnswerCases DEF Types
    <3>3. PICK a \in Seq(Replies) : \/ wire' = wire \o Lines(a, Head(pending).id)
                                    \/ wire' = (wire \o <<NL>>) \o Lines(a, Head(pending).id)
      BY <2>5, AnswerCases DEF Types
    <3> DEFINE u == Lines(a, Head(pending).id)
    <3>4. u \in Seq(Byte) /\ OnWire(u, sent, sent)
      BY <1>1, <3>2, ReplyLines, OnWireLines
    <3>5. <<NL>> \in Seq(Byte) /\ OnWire(<<NL>>, sent, sent)
      BY <1>1, OnWireNL
    <3> HIDE DEF u
    <3>6. sent' \in Nat /\ sent <= sent' /\ sent <= sent
      BY <1>1, <3>1
    <3>7. CASE wire' = wire \o u
      BY <3>1, <3>4, <3>6, <3>7, HeldAdded
    <3>8. CASE wire' = (wire \o <<NL>>) \o u
      <4>1. wire' = wire \o (<<NL>> \o u) /\ <<NL>> \o u \in Seq(Byte)
        BY <1>1, <3>4, <3>5, <3>8, Associative
      <4>2. ASSUME NEW h \in Seq(Byte), OnWire(h, sent, sent) PROVE OnWire(h \o u, sent, sent)
        BY <1>1, <3>4, <3>6, <4>2, OnWireJoin
      <4>3. OnWire(<<NL>> \o u, sent, sent)
        BY <3>5, <4>2
      <4> QED BY <3>1, <3>6, <4>1, <4>3, HeldAdded
    <3> QED BY <3>3, <3>7, <3>8 DEF u
  <2>6. CASE Unsolicited
    <3>1. UNCHANGED <<delivered, ipd_rb, late, overflow>>
      BY <2>6 DEF Unsolicited, receiver, reader
    <3>2. CASE \E p \in Frames : wire' = wire \o Frame(p) /\ sent' = sent + Len(p)
      <4>1. PICK p \in Frames : wire' = wire \o Frame(p) /\ sent' = sent + Len(p)
        BY <3>2
      <4>2. Frame(p) \in Seq(Byte) /\ OnWire(Frame(p), sent, sent') /\ Len(p) \in 1..9
        BY <1>1, <4>1, FrameFacts, OnWireFrame
      <4>3. sent' \in Nat /\ sent <= sent'
        BY <1>1, <4>1, <4>2
      <4> QED BY <3>1, <4>1, <4>2, <4>3, HeldAdded
    <3>3. CASE wire' = wire \o Lines(<<"RING">>, 0) /\ sent' = sent
      <4>1. Lines(<<"RING">>, 0) \in Seq(Byte) /\ OnWire(Lines(<<"RING">>, 0), sent, sent)
        BY <1>1, RingText, OnWireLines
      <4>2. sent' \in Nat /\ sent <= sent'
        BY <1>1, <3>3
      <4> QED BY <3>1, <3>3, <4>1, <4>2, HeldAdded
    <3> QED BY <2>6, <3>2, <3>3, UnsolicitedCases DEF Types
  <2> QED BY <1>3, <2>1, <2>2, <2>3, <2>4, <2>5, <2>6, NextCases
<1> QED BY <1>2, <1>3

-----------------------------------------------------------------------------
(***************************************************************************)
(* The invariant and the theorems.                                         *)
(***************************************************************************)
IInv ==
  /\ Types /\ TokensBacked
  /\ Plainness /\ Fresh /\ RepliesOnly /\ OwnAnswer
  /\ Framing /\ DataHeld

LEMMA InitIInv == Init => IInv
<1> SUFFICES ASSUME Init PROVE IInv
  OBVIOUS
<1>1. Types
  BY InitTypes
<1>2. /\ rb = <<>> /\ ipd_rb = <<>> /\ delivered = <<>> /\ wire = <<>> /\ sent = 0
      /\ sem = 0 /\ pc = "idle" /\ serial_recv = "default" /\ auto_prefix = <<>>
  BY DEF Init
<1>3. Bytes = {}
  BY <1>2 DEF Bytes
<1>4. TokensBacked
  <2>1. {i \in DOMAIN rb : rb[i] = NUL} = {}
    BY <1>2
  <2>2. Count(rb, NUL) = 0
    BY <2>1, FS_EmptySet DEF Count
  <2> QED BY <1>2, <2>2 DEF TokensBacked
<1>5. Plainness /\ Fresh /\ RepliesOnly
  BY <1>2, <1>3 DEF Plainness, Fresh, RepliesOnly
<1>6. OwnAnswer
  BY DEF Init, OwnAnswer
<1>7. Framing
  <2> DEFINE st == [i \in 1..1 |-> Line]
  <2>1. Len(wire) = 0 /\ st \in [1..1 -> Expect] /\ st[1] = Line
    BY <1>2, MarkFields
  <2> HIDE DEF st
  <2>2. Path(wire, st)
    BY <2>1 DEF Path
  <2>3. Receiving(st[1])
    BY <1>2, <2>1 DEF Receiving
  <2> QED BY <2>2, <2>3 DEF Framing
<1>8. DataHeld
  BY <1>2 DEF DataHeld, OnWire
<1> QED BY <1>1, <1>4, <1>5, <1>6, <1>7, <1>8 DEF IInv

LEMMA StepIInv == IInv /\ [Next]_vars => IInv'
<1> SUFFICES ASSUME IInv, [Next]_vars PROVE IInv'
  OBVIOUS
<1>1. Types /\ TokensBacked /\ Plainness /\ Fresh /\ RepliesOnly /\ OwnAnswer /\ Framing /\ DataHeld
  BY DEF IInv
<1>2. Types' /\ TokensBacked'
  BY <1>1, TypesStep, TokensStep
<1>3. Plainness' /\ Fresh' /\ RepliesOnly'
  BY <1>1, PlainStep, FreshStep, RepliesStep
<1>4. OwnAnswer'
  BY <1>1, OwnStep
<1>5. Framing' /\ DataHeld'
  BY <1>1, FramingStep, HeldStep
<1> QED BY <1>2, <1>3, <1>4, <1>5 DEF IInv

\* For any plan of calls, any frames, ring capacities and modem, and however the
\* receiver, the two tasks and the modem interleave: the receiver keeps its
\* tokens backed by whole lines and takes nothing from, adds nothing to and
\* never reorders the peer's data.
THEOREM StreamsSafety == Spec => []StreamsWhole
<1>1. IInv => StreamsWhole
  <2> SUFFICES ASSUME IInv PROVE StreamsWhole
    OBVIOUS
  <2>1. Types /\ TokensBacked /\ DataHeld
    BY DEF IInv
  <2> QED BY <2>1, TypesSuffice, HeldSuffices DEF StreamsWhole
<1> QED BY <1>1, InitIInv, StepIInv, PTL DEF Spec

\* A call whose clearing met nothing under way succeeds only on a reply to its
\* own command, for any plan of calls and any delay of the answers: unless it is
\* a send that met its deadline, which returns 1 without any reply as well.
THEOREM OwnAnswerSafety == Spec => []OwnAnswer
<1>1. IInv => OwnAnswer
  BY DEF IInv
<1> QED BY <1>1, InitIInv, StepIInv, PTL DEF Spec
=============================================================================
