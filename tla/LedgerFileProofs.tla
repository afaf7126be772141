-------------------------- MODULE LedgerFileProofs --------------------------
(***************************************************************************)
(* Proofs about the ledger file, for any set of processes and any number   *)
(* of writes and crashes: types and the chain under all faults; and, where *)
(* readers may see half of a write but no more goes wrong, that nothing    *)
(* acknowledged is lost, that no verification raises an alarm, and that    *)
(* the file implements the append-only log.                                *)
(***************************************************************************)
EXTENDS LedgerFile, WellFoundedInduction, SequenceTheorems, TLAPS

-----------------------------------------------------------------------------
(* The last readable line *)

LEMMA MinExists ==
  ASSUME NEW T \in SUBSET Nat, T # {}
  PROVE  \E m \in T : \A k \in T : m <= k
<1>1. PICK m \in T : \A k \in T : ~ (<<k, m>> \in OpToRel(<, Nat))
  BY NatLessThanWellFounded, WFMin, Zenon
<1>2. \A k \in T : ~ (k < m)
  BY <1>1 DEF OpToRel
<1>3. QED
  BY <1>2

LEMMA MaxExists ==
  ASSUME NEW n \in Nat, NEW S \in SUBSET (1 .. n), S # {}
  PROVE  \E m \in S : \A k \in S : k <= m
<1> DEFINE T == {i \in 0 .. n : n - i \in S}
<1>1. T \subseteq Nat
  OBVIOUS
<1>2. T # {}
  <2>1. PICK i \in S : TRUE
    OBVIOUS
  <2>2. n - (n - i) = i /\ n - i \in 0 .. n
    OBVIOUS
  <2>3. n - i \in T
    BY <2>2
  <2>4. QED
    BY <2>3
<1> HIDE DEF T
<1>3. PICK t \in T : \A u \in T : t <= u
  BY <1>1, <1>2, MinExists
<1>4. n - t \in S /\ t \in 0 .. n
  BY <1>3 DEF T
<1>5. ASSUME NEW k \in S
      PROVE  k <= n - t
  <2>1. n - k \in T
    BY DEF T
  <2>2. QED
    BY <2>1, <1>3, <1>4
<1>6. QED
  BY <1>4, <1>5

\* _read_last_record_binary finds the last readable line when there is one.
LEMMA LastReadable ==
  ASSUME NEW ls \in Seq(Line), Readable(ls) # {}
  PROVE  \E i \in Readable(ls) :
           /\ \A j \in Readable(ls) : j <= i
           /\ NextOf(ls) = Unsigned(ls[i].index + 1, ls[i].hash)
<1>1. Len(ls) \in Nat /\ Readable(ls) \in SUBSET (1 .. Len(ls))
  BY DEF Readable
<1>2. PICK m \in Readable(ls) : \A k \in Readable(ls) : k <= m
  BY <1>1, MaxExists
<1>3. IsLastReadable(ls, m)
  BY <1>2 DEF IsLastReadable
<1> DEFINE i == CHOOSE i \in Readable(ls) : IsLastReadable(ls, i)
<1>4. i \in Readable(ls) /\ IsLastReadable(ls, i)
  BY <1>2, <1>3
<1>5. NextOf(ls) = Unsigned(ls[i].index + 1, ls[i].hash)
  BY DEF NextOf
<1>6. QED
  BY <1>4, <1>5 DEF IsLastReadable

LEMMA NextOfType ==
  ASSUME NEW ls \in Seq(Line)
  PROVE  /\ NextOf(ls) \in Line
         /\ NextOf(ls).parses
         /\ NextOf(ls).hash = 0
<1>1. CASE Readable(ls) = {}
  BY <1>1 DEF NextOf, Genesis, Unsigned, Line
<1>2. CASE Readable(ls) # {}
  <2>1. PICK i \in Readable(ls) :
          NextOf(ls) = Unsigned(ls[i].index + 1, ls[i].hash)
    BY <1>2, LastReadable
  <2>2. ls[i] \in Line
    BY DEF Readable
  <2>3. QED
    BY <2>1, <2>2 DEF Unsigned, Line
<1>3. QED
  BY <1>1, <1>2

\* What comes next depends on the readable lines only.
LEMMA NextOfSame ==
  ASSUME NEW ls \in Seq(Line), NEW ms \in Seq(Line),
         Readable(ms) = Readable(ls),
         \A i \in Readable(ls) : ms[i] = ls[i]
  PROVE  NextOf(ms) = NextOf(ls)
<1>1. CASE Readable(ls) = {}
  BY <1>1 DEF NextOf
<1>2. CASE Readable(ls) # {}
  <2>1. PICK i \in Readable(ls) :
          /\ \A j \in Readable(ls) : j <= i
          /\ NextOf(ls) = Unsigned(ls[i].index + 1, ls[i].hash)
    BY <1>2, LastReadable
  <2>2. PICK k \in Readable(ls) :
          /\ \A j \in Readable(ls) : j <= k
          /\ NextOf(ms) = Unsigned(ms[k].index + 1, ms[k].hash)
    BY <1>2, LastReadable
  <2>3. i = k
    <3>1. i \in Nat /\ k \in Nat /\ i <= k /\ k <= i
      BY <2>1, <2>2 DEF Readable
    <3>2. QED
      BY <3>1
  <2>4. QED
    BY <2>1, <2>2, <2>3
<1>3. QED
  BY <1>1, <1>2

-----------------------------------------------------------------------------
(* The chain of the readable lines *)

\* Losing readable lines from the end keeps the chain.
LEMMA ShorterChain ==
  ASSUME NEW ls \in Seq(Line), NEW ms \in Seq(Line), NEW n \in Nat,
         \A i \in Readable(ls) : LinksBack(ls, i),
         Readable(ms) = {i \in Readable(ls) : i <= n},
         \A i \in Readable(ms) : ms[i] = ls[i]
  PROVE  \A i \in Readable(ms) : LinksBack(ms, i)
<1> SUFFICES ASSUME NEW i \in Readable(ms)
             PROVE  LinksBack(ms, i)
  OBVIOUS
<1>0. Readable(ls) \subseteq Nat
  BY DEF Readable
<1>1. i \in Readable(ls) /\ i <= n /\ LinksBack(ls, i)
  OBVIOUS
<1>2. CASE /\ \A j \in Readable(ls) : i <= j
           /\ ls[i].index = 0 /\ ls[i].prev = 0
  BY <1>1, <1>2 DEF LinksBack
<1>3. CASE \E j \in Readable(ls) :
             /\ j < i
             /\ \A k \in Readable(ls) : k <= j \/ i <= k
             /\ ls[i].index = ls[j].index + 1
             /\ ls[i].prev = ls[j].hash
  <2>1. PICK j \in Readable(ls) :
             /\ j < i
             /\ \A k \in Readable(ls) : k <= j \/ i <= k
             /\ ls[i].index = ls[j].index + 1
             /\ ls[i].prev = ls[j].hash
    BY <1>3
  <2>2. j \in Readable(ms)
    BY <1>0, <1>1, <2>1
  <2>3. QED
    BY <2>1, <2>2 DEF LinksBack
<1>4. CASE StartsAnew(ls[i])
  BY <1>4 DEF LinksBack
<1>5. QED
  BY <1>1, <1>2, <1>3, <1>4 DEF LinksBack

\* Adding, behind every readable line, the record that comes next keeps it.
LEMMA LongerChain ==
  ASSUME NEW ls \in Seq(Line), NEW ms \in Seq(Line), NEW m \in Nat,
         \A i \in Readable(ls) : LinksBack(ls, i),
         \A i \in Readable(ls) : i < m /\ ms[i] = ls[i],
         Readable(ms) = Readable(ls) \cup {m},
         ComesNext(ms[m], ls)
  PROVE  \A i \in Readable(ms) : LinksBack(ms, i)
<1>0. Readable(ls) \subseteq Nat
  BY DEF Readable
<1>1. ASSUME NEW i \in Readable(ls)
      PROVE  LinksBack(ms, i)
  <2>1. LinksBack(ls, i)
    OBVIOUS
  <2>2. CASE /\ \A j \in Readable(ls) : i <= j
             /\ ls[i].index = 0 /\ ls[i].prev = 0
    BY <1>0, <2>2 DEF LinksBack
  <2>3. CASE \E j \in Readable(ls) :
               /\ j < i
               /\ \A k \in Readable(ls) : k <= j \/ i <= k
               /\ ls[i].index = ls[j].index + 1
               /\ ls[i].prev = ls[j].hash
    BY <1>0, <2>3 DEF LinksBack
  <2>4. CASE StartsAnew(ls[i])
    BY <2>4 DEF LinksBack
  <2>5. QED
    BY <2>1, <2>2, <2>3, <2>4 DEF LinksBack
<1>2. LinksBack(ms, m)
  <2> DEFINE next == ms[m].index = NextOf(ls).index /\ ms[m].prev = NextOf(ls).prev
  <2>1. CASE next /\ Readable(ls) = {}
    <3>1. NextOf(ls) = Genesis
      BY <2>1 DEF NextOf
    <3>2. QED
      BY <2>1, <3>1 DEF LinksBack, Genesis, Unsigned
  <2>2. CASE next /\ Readable(ls) # {}
    <3>1. PICK j \in Readable(ls) :
            /\ \A k \in Readable(ls) : k <= j
            /\ NextOf(ls) = Unsigned(ls[j].index + 1, ls[j].hash)
      BY <2>2, LastReadable
    <3>2. ms[m].index = ms[j].index + 1 /\ ms[m].prev = ms[j].hash
      BY <2>2, <3>1 DEF Unsigned
    <3>3. \A k \in Readable(ms) : k <= j \/ m <= k
      BY <1>0, <3>1
    <3>4. QED
      BY <3>1, <3>2, <3>3 DEF LinksBack
  <2>3. CASE StartsAnew(ms[m])
    BY <2>3 DEF LinksBack
  <2>4. QED
    BY <2>1, <2>2, <2>3 DEF ComesNext
<1>3. QED
  BY <1>1, <1>2
-----------------------------------------------------------------------------
(* What the file looks like after each kind of change *)

LEMMA JunkIsLine == Junk \in Line /\ ~ Junk.parses /\ Genesis \in Line
BY DEF Junk, Line, Genesis, Unsigned

LEMMA GluedLines ==
  ASSUME lines \in Seq(Line), open \in BOOLEAN, open => lines # <<>>,
         NEW l \in Line
  PROVE  /\ Glued(l) \in Seq(Line)
         /\ Glued(l) # <<>>
         /\ ~ open => /\ Glued(l) = Append(lines, l)
                      /\ Readable(Glued(l)) =
                           IF l.parses THEN Readable(lines) \cup {Len(lines) + 1}
                                       ELSE Readable(lines)
         /\ open => Readable(Glued(l)) = {i \in Readable(lines) : i <= Len(lines) - 1}
         /\ \A i \in Readable(lines) : i \in Readable(Glued(l)) => Glued(l)[i] = lines[i]
<1>1. CASE open
  <2>1. /\ Glued(l) = [lines EXCEPT ![Len(lines)] = Junk]
        /\ Len(lines) \in Nat \ {0}
    BY <1>1 DEF Glued
  <2>2. /\ Glued(l) \in Seq(Line) /\ Len(Glued(l)) = Len(lines)
        /\ \A i \in 1 .. Len(lines) :
             Glued(l)[i] = IF i = Len(lines) THEN Junk ELSE lines[i]
    BY <2>1, JunkIsLine
  <2>3. QED
    BY <1>1, <2>1, <2>2, JunkIsLine DEF Readable
<1>2. CASE ~ open
  <2>1. Glued(l) = Append(lines, l)
    BY <1>2 DEF Glued
  <2>2. QED
    BY <1>2, <2>1 DEF Readable
<1>3. QED
  BY <1>1, <1>2

LEMMA TruncatedLines ==
  ASSUME lines \in Seq(Line), open \in BOOLEAN, open => lines # <<>>,
         NEW n \in Nat
  PROVE  /\ Truncated(n) \in Seq(Line)
         /\ Len(lines) < n => Truncated(n) # <<>>
         /\ \E k \in Nat : Readable(Truncated(n)) = {i \in Readable(lines) : i <= k}
         /\ \A i \in Readable(Truncated(n)) :
              i \in Readable(lines) /\ Truncated(n)[i] = lines[i]
<1>1. CASE Len(lines) >= n
  <2>1. Truncated(n) = SubSeq(lines, 1, n)
    BY <1>1 DEF Truncated
  <2>2. /\ Truncated(n) \in Seq(Line)
        /\ Len(Truncated(n)) = n
        /\ \A i \in 1 .. n : Truncated(n)[i] = lines[i]
    BY <1>1, <2>1, SubSeqProperties
  <2>3. Readable(Truncated(n)) = {i \in Readable(lines) : i <= n}
    BY <1>1, <2>2 DEF Readable
  <2>4. \A i \in Readable(Truncated(n)) :
          i \in Readable(lines) /\ Truncated(n)[i] = lines[i]
    BY <1>1, <2>2, <2>3 DEF Readable
  <2>5. QED
    BY <1>1, <2>2, <2>3, <2>4
<1>2. CASE Len(lines) < n
  <2>1. Truncated(n) = Glued(Junk)
    BY <1>2 DEF Truncated, Glued
  <2>2. Readable(lines) = {i \in Readable(lines) : i <= Len(lines)}
    BY DEF Readable
  <2>3. \E k \in Nat : Readable(Truncated(n)) = {i \in Readable(lines) : i <= k}
    <3>1. CASE open
      <4>1. Len(lines) - 1 \in Nat
        BY <3>1
      <4>2. QED
        BY <3>1, <4>1, <2>1, GluedLines, JunkIsLine
    <3>2. CASE ~ open
      BY <3>2, <2>1, <2>2, GluedLines, JunkIsLine
    <3>3. QED
      BY <3>1, <3>2
  <2>4. QED
    BY <2>1, <2>3, GluedLines, JunkIsLine
<1>3. QED
  BY <1>1, <1>2

-----------------------------------------------------------------------------
(* Types *)

LEMMA CheckType ==
  ASSUME NEW ls \in Seq(Line)
  PROVE  Check(ls) \in [kind : {"valid", "tail", "broken"}, count : Nat,
                        prev : Nat, left : Nat]
<1>1. CASE \A i \in DOMAIN ls : Linked(ls, i)
  BY <1>1 DEF Check
<1>2. CASE ~ \A i \in DOMAIN ls : Linked(ls, i)
  <2> DEFINE B == {b \in DOMAIN ls : ~ Linked(ls, b)}
  <2>1. B \in SUBSET Nat /\ B # {}
    BY <1>2
  <2>2. PICK m \in B : \A k \in B : m <= k
    BY <2>1, MinExists
  <2>3. /\ m \in DOMAIN ls /\ ~ Linked(ls, m)
        /\ \A i \in 1 .. m - 1 : Linked(ls, i)
    BY <2>2
  <2> DEFINE b == CHOOSE b \in DOMAIN ls :
                    ~ Linked(ls, b) /\ \A i \in 1 .. b - 1 : Linked(ls, i)
  <2>4. b \in DOMAIN ls
    BY <2>3
  <2> HIDE DEF b
  <2>5. /\ b - 1 \in Nat
        /\ (IF b = 1 THEN 0 ELSE ls[b - 1].hash) \in Nat
    <3>1. b \in 1 .. Len(ls)
      BY <2>4
    <3>2. CASE b = 1
      BY <3>2
    <3>3. CASE b # 1
      <4>1. b - 1 \in DOMAIN ls
        BY <3>1, <3>3
      <4>2. ls[b - 1] \in Line
        BY <4>1
      <4>3. ls[b - 1].hash \in Nat
        BY <4>2 DEF Line
      <4>4. QED
        BY <3>1, <3>3, <4>3
    <3>4. QED
      BY <3>2, <3>3
  <2>6. QED
    BY <1>2, <2>4, <2>5, FileAssumption DEF Check, b
<1>3. QED
  BY <1>1, <1>2

LEMMA ValueTypes ==
  /\ NoCache \in Nat
  /\ Idle \in Found
  /\ NoVerdict \in Verdict
  /\ \A n \in Nat, b \in BOOLEAN : [ok |-> b, count |-> n] \in Verdict
  /\ {"idle", "read", "write", "writing", "return"} \subseteq WPC
  /\ {"idle", "retry", "cut", "cache"} \subseteq VPC
BY FileAssumption DEF NoCache, Idle, Found, NoVerdict, Verdict, WPC, VPC

LEMMA FoundTypes ==
  ASSUME NEW f \in Found
  PROVE  /\ f.count \in Nat /\ f.prev \in Nat /\ f.left \in Nat
         /\ [f EXCEPT !.count = @ + 1] \in Found
         /\ f.left > 0 => [f EXCEPT !.left = @ - 1] \in Found
BY DEF Found

LEMMA SignedType ==
  ASSUME TypeOK, NEW p \in Proc
  PROVE  Signed(p) \in Line
<1>1. rec[p] \in Line /\ written \in Nat
  BY DEF TypeOK
<1>2. QED
  BY <1>1 DEF Signed, Line

LEMMA DiesType ==
  ASSUME TypeOK, NEW p \in Proc, Die(p)
  PROVE  /\ holders' \subseteq Proc \X {"w", "v"}
         /\ wpc' \in [Proc -> WPC] /\ rec' \in [Proc -> Line]
         /\ vpc' \in [Proc -> VPC] /\ found' \in [Proc -> Found]
         /\ verdict' \in [Proc -> Verdict]
         /\ acked' \subseteq Line
         /\ crashes' \in Nat
BY JunkIsLine, ValueTypes DEF TypeOK, Die

LEMMA AnswerType ==
  ASSUME TypeOK, NEW p \in Proc, NEW b \in BOOLEAN, NEW n \in Nat, Answer(p, b, n)
  PROVE  /\ verdict' \in [Proc -> Verdict]
         /\ vpc' \in [Proc -> VPC] /\ found' \in [Proc -> Found]
BY ValueTypes DEF TypeOK, Answer

\* Every variable of the ledger file keeps its range.
THEOREM FileTypeCorrect == Spec => []TypeOK
<1> USE ValueTypes
<1>1. Init => TypeOK
  <2>1. <<>> \in Seq(Line)
    OBVIOUS
  <2>2. Init => open \in BOOLEAN /\ (open => lines # <<>>)
    BY DEF Init
  <2>3. QED
    BY <2>1, <2>2, JunkIsLine DEF Init, TypeOK
<1>2. TypeOK /\ [Next]_vars => TypeOK'
  <2> SUFFICES ASSUME TypeOK, [Next]_vars
               PROVE  TypeOK'
    OBVIOUS
  <2>1. ASSUME NEW p \in Proc, EnterRecord(p)
        PROVE  TypeOK'
    BY <2>1 DEF EnterRecord, file, reader, TypeOK
  <2>2. ASSUME NEW p \in Proc, ReadLast(p) \/ ReadLastFails(p)
        PROVE  TypeOK'
    <3>1. NextOf(lines) \in Line /\ Genesis \in Line
      BY NextOfType, JunkIsLine DEF TypeOK
    <3>2. QED
      <4>1. CASE ReadLast(p)
        BY <3>1, <4>1 DEF ReadLast, file, reader, TypeOK
      <4>2. CASE ReadLastFails(p)
        BY <3>1, <4>2 DEF ReadLastFails, file, reader, TypeOK
      <4>3. QED
        BY <2>2, <4>1, <4>2
  <2>3. ASSUME NEW p \in Proc
        PROVE  Signed(p) \in Line
    BY SignedType
  <2>4. ASSUME NEW p \in Proc, WriteRecord(p)
        PROVE  TypeOK'
    <3>1. lines' \in Seq(Line)
      BY <2>3, <2>4, GluedLines DEF WriteRecord, TypeOK
    <3>2. open' \in BOOLEAN /\ (open' => lines' # <<>>)
      BY <2>4 DEF WriteRecord
    <3>3. QED
      BY <2>3, <2>4, <3>1, <3>2 DEF WriteRecord, Sign, Touched, TypeOK
  <2>5. ASSUME NEW p \in Proc, PutFragment(p)
        PROVE  /\ lines' \in Seq(Line) /\ open' \in BOOLEAN
               /\ lines' # <<>>
               /\ cached' \in [Proc -> Nat]
    <3>1. PICK l \in {Junk, Signed(p)} : lines' = Glued(l)
      BY <2>5 DEF PutFragment
    <3>2. l \in Line
      BY <2>3, <3>1, JunkIsLine
    <3>3. QED
      BY <2>5, <3>1, <3>2, GluedLines DEF PutFragment, Touched, TypeOK
  <2>6. ASSUME NEW p \in Proc, ShortWrite(p)
        PROVE  TypeOK'
    BY <2>3, <2>5, <2>6 DEF ShortWrite, Sign, TypeOK
  <2>7. ASSUME NEW p \in Proc, BeginWrite(p)
        PROVE  TypeOK'
    <3>1. lines' \in Seq(Line) /\ lines' # <<>>
      <4>1. lines' = Append(lines, Junk)
        BY <2>7 DEF BeginWrite
      <4>2. lines \in Seq(Line) /\ Junk \in Line
        BY JunkIsLine DEF TypeOK
      <4>3. QED
        BY <4>1, <4>2
    <3>2. QED
      BY <2>7, <3>1 DEF BeginWrite, Touched, TypeOK
  <2>8. ASSUME NEW p \in Proc, EndWrite(p)
        PROVE  TypeOK'
    <3>1. lines' \in Seq(Line)
      <4>1. lines' = [lines EXCEPT ![Len(lines)] = Signed(p)]
        BY <2>8 DEF EndWrite
      <4>2. lines \in Seq(Line) /\ Signed(p) \in Line
        BY <2>3 DEF TypeOK
      <4>3. CASE lines = <<>>
        <5>1. lines' = lines
          BY <4>1, <4>3
        <5>2. QED
          BY <4>2, <5>1
      <4>4. CASE lines # <<>>
        <5>1. Len(lines) \in 1 .. Len(lines)
          BY <4>2, <4>4
        <5>2. QED
          BY <4>1, <4>2, <5>1, ExceptSeq
      <4>5. QED
        BY <4>3, <4>4
    <3>2. open' \in BOOLEAN /\ (open' => lines' # <<>>)
      BY <2>8 DEF EndWrite
    <3>3. QED
      BY <2>3, <2>8, <3>1, <3>2 DEF EndWrite, Sign, Touched, TypeOK
  <2>9. ASSUME NEW p \in Proc, Recorded(p)
        PROVE  TypeOK'
    BY <2>9, JunkIsLine DEF Recorded, file, TypeOK
  <2>10. ASSUME NEW p \in Proc, VerifyCached(p)
         PROVE  TypeOK'
    BY <2>10, AnswerType DEF VerifyCached, file, writer, TypeOK
  <2>11. ASSUME NEW p \in Proc, VerifyRead(p)
         PROVE  TypeOK'
    <3>1. Check(lines) \in [kind : {"valid", "tail", "broken"}, count : Nat,
                            prev : Nat, left : Nat]
      BY CheckType DEF TypeOK
    <3>2. CASE Check(lines).kind = "broken"
      BY <2>11, <3>1, <3>2, AnswerType DEF VerifyRead, file, writer, TypeOK
    <3>3. CASE Check(lines).kind # "broken"
      <4>1. Check(lines) \in Found
        BY <3>1, <3>3 DEF Found
      <4>2. QED
        <5>1. /\ \E pc \in VPC : vpc' = [vpc EXCEPT ![p] = pc]
              /\ found' = [found EXCEPT ![p] = Check(lines)]
              /\ verdict' = verdict
              /\ UNCHANGED <<file, holders, writer, cached, written, acked, crashes>>
          BY <2>11, <3>3 DEF VerifyRead, VPC
        <5>2. QED
          BY <4>1, <5>1 DEF file, writer, TypeOK
    <3>4. QED
      BY <3>2, <3>3
  <2>12. ASSUME NEW p \in Proc, RetryRepaired(p)
         PROVE  TypeOK'
    <3>1. found[p] \in Found /\ found[p].count \in Nat
      BY FoundTypes DEF TypeOK
    <3>2. CASE Answer(p, FALSE, found[p].count)
      BY <2>12, <3>1, <3>2, AnswerType DEF RetryRepaired, file, writer, TypeOK
    <3>3. CASE /\ found' = [found EXCEPT ![p].count = @ + 1]
               /\ vpc' = [vpc EXCEPT ![p] = "cache"]
               /\ UNCHANGED verdict
      BY <2>12, <3>1, <3>3, FoundTypes DEF RetryRepaired, file, writer, TypeOK
    <3>4. QED
      BY <2>12, <3>2, <3>3 DEF RetryRepaired
  <2>13. ASSUME NEW p \in Proc, RetryFails(p)
         PROVE  TypeOK'
    BY <2>13, FoundTypes DEF RetryFails, file, writer, TypeOK
  <2>14. ASSUME NEW p \in Proc, EnterQuarantine(p)
         PROVE  TypeOK'
    BY <2>14 DEF EnterQuarantine, file, writer, TypeOK
  <2>15. ASSUME NEW p \in Proc, Quarantine(p)
         PROVE  TypeOK'
    <3>1. found[p] \in Found /\ found[p].count \in Nat
      BY FoundTypes DEF TypeOK
    <3>2. /\ lines' \in Seq(Line) /\ open' \in BOOLEAN
          /\ open' => lines' # <<>>
      <4>1. /\ lines' = Truncated(found[p].count)
            /\ open' = (Len(lines) < found[p].count)
        BY <2>15 DEF Quarantine
      <4>2. /\ lines \in Seq(Line) /\ open \in BOOLEAN
            /\ open => lines # <<>>
        BY DEF TypeOK
      <4>3. /\ Truncated(found[p].count) \in Seq(Line)
            /\ Len(lines) < found[p].count => Truncated(found[p].count) # <<>>
        BY <3>1, <4>2, TruncatedLines
      <4>4. CASE Len(lines) < found[p].count
        <5>1. open' = TRUE
          BY <4>1, <4>4
        <5>2. QED
          BY <4>1, <4>3, <4>4, <5>1
      <4>5. CASE ~ (Len(lines) < found[p].count)
        <5>1. open' = FALSE
          <6>1. open' = (Len(lines) < found[p].count)
            BY <4>1
          <6>2. (Len(lines) < found[p].count) = FALSE
            BY <4>5
          <6>3. QED
            BY <6>1, <6>2
        <5>2. lines' \in Seq(Line)
          BY <4>1, <4>3
        <5>3. QED
          BY <5>1, <5>2
      <4>6. QED
        BY <4>4, <4>5
    <3>3. QED
      BY <2>15, <3>2 DEF Quarantine, Touched, writer, TypeOK
  <2>16. ASSUME NEW p \in Proc, VerifyStore(p)
         PROVE  TypeOK'
    <3>1. found[p].count \in Nat
      BY FoundTypes DEF TypeOK
    <3>2. QED
      BY <2>16, <3>1, AnswerType DEF VerifyStore, file, writer, TypeOK
  <2>17. ASSUME NEW p \in Proc, Crash(p)
         PROVE  TypeOK'
    BY <2>17, DiesType DEF Crash, file, TypeOK
  <2>18. ASSUME NEW p \in Proc, CrashInWrite(p)
         PROVE  TypeOK'
    BY <2>5, <2>18, DiesType DEF CrashInWrite, TypeOK
  <2>19. CASE UNCHANGED vars
    BY <2>19 DEF vars, TypeOK
  <2>20. QED
    BY <2>1, <2>2, <2>4, <2>6, <2>7, <2>8, <2>9, <2>10, <2>11, <2>12, <2>13,
       <2>14, <2>15, <2>16, <2>17, <2>18, <2>19
       DEF Next, RecordEntry, VerifyChain
<1>3. QED
  BY <1>1, <1>2, PTL DEF Spec

-----------------------------------------------------------------------------
(* The chain *)

\* Whoever is inside record_entry, or cuts the file, is alone with the lock.
LEMMA Alone ==
  ASSUME TypeOK, LockOK, NEW p \in Proc
  PROVE  /\ wpc[p] # "idle" => /\ \A q \in Proc \ {p} : wpc[q] = "idle"
                               /\ \A q \in Proc : vpc[q] # "cut"
         /\ vpc[p] = "cut" => /\ \A q \in Proc : wpc[q] = "idle"
                              /\ \A q \in Proc \ {p} : vpc[q] # "cut"
<1>1. ASSUME NEW q \in Proc, wpc[p] # "idle", wpc[q] # "idle"
      PROVE  q = p
  <2>1. <<p, "w">> = <<q, "w">>
    BY <1>1 DEF LockOK
  <2>2. QED
    BY <2>1
<1>2. ASSUME NEW q \in Proc, NEW r \in Proc, wpc[q] # "idle", vpc[r] = "cut"
      PROVE  FALSE
  <2>1. <<q, "w">> = <<r, "v">>
    BY <1>2 DEF LockOK
  <2>2. QED
    BY <2>1
<1>3. ASSUME NEW q \in Proc, vpc[p] = "cut", vpc[q] = "cut"
      PROVE  q = p
  <2>1. <<p, "v">> = <<q, "v">>
    BY <1>3 DEF LockOK
  <2>2. QED
    BY <2>1
<1>4. QED
  BY <1>1, <1>2, <1>3

\* What putting a record, or a part of one, into the file does to the chain.
LEMMA GluedChain ==
  ASSUME TypeOK, ReadableChained, NEW l \in Line, l.parses => ComesNext(l, lines)
  PROVE  \A i \in Readable(Glued(l)) : LinksBack(Glued(l), i)
<1> DEFINE ms == Glued(l)
<1>1. /\ lines \in Seq(Line) /\ open \in BOOLEAN /\ (open => lines # <<>>)
      /\ \A i \in Readable(lines) : LinksBack(lines, i)
      /\ Len(lines) \in Nat
      /\ Readable(lines) \subseteq 1 .. Len(lines)
  BY DEF TypeOK, ReadableChained, Readable
<1>2. /\ ms \in Seq(Line)
      /\ ~ open => /\ ms = Append(lines, l)
                   /\ Readable(ms) = IF l.parses
                                     THEN Readable(lines) \cup {Len(lines) + 1}
                                     ELSE Readable(lines)
      /\ open => Readable(ms) = {i \in Readable(lines) : i <= Len(lines) - 1}
      /\ \A i \in Readable(lines) : i \in Readable(ms) => ms[i] = lines[i]
  BY <1>1, GluedLines
<1> HIDE DEF ms
<1>3. CASE open
  <2>1. Len(lines) - 1 \in Nat
    BY <1>1, <1>3
  <2>2. \A i \in Readable(ms) : ms[i] = lines[i]
    BY <1>2, <1>3
  <2>3. QED
    BY <1>1, <1>2, <1>3, <2>1, <2>2, ShorterChain DEF ms
<1>4. CASE ~ open /\ ~ l.parses
  <2>1. Readable(ms) = {i \in Readable(lines) : i <= Len(lines)}
    BY <1>1, <1>2, <1>4
  <2>2. \A i \in Readable(ms) : ms[i] = lines[i]
    BY <1>2, <1>4
  <2>3. QED
    BY <1>1, <1>2, <2>1, <2>2, ShorterChain DEF ms
<1>5. CASE ~ open /\ l.parses
  <2>1. /\ Readable(ms) = Readable(lines) \cup {Len(lines) + 1}
        /\ ms[Len(lines) + 1] = l
        /\ \A i \in Readable(lines) : i < Len(lines) + 1 /\ ms[i] = lines[i]
    BY <1>1, <1>2, <1>5
  <2>2. Len(lines) + 1 \in Nat
    BY <1>1
  <2>3. ComesNext(ms[Len(lines) + 1], lines)
    BY <1>5, <2>1
  <2>4. \A i \in Readable(ms) : LinksBack(ms, i)
    BY <1>1, <1>2, <2>1, <2>2, <2>3, LongerChain
  <2>5. QED
    BY <2>4 DEF ms
<1>6. QED
  BY <1>3, <1>4, <1>5

\* The record p signs is what comes next.
LEMMA SignedNext ==
  ASSUME TypeOK, RecStillLast, NEW p \in Proc, wpc[p] \in {"write", "writing"}
  PROVE  /\ Signed(p) \in Line
         /\ Signed(p).parses
         /\ ComesNext(Signed(p), lines)
BY SignedType DEF RecStillLast, Signed, ComesNext, StartsAnew

\* Steps that leave the file, the lock and every record in the making alone.
LEMMA ChainUntouched ==
  ASSUME ChainInv, UNCHANGED <<lines, open, holders, wpc, rec>>,
         \A q \in Proc : vpc'[q] = "cut" <=> vpc[q] = "cut"
  PROVE  ChainInv'
BY DEF ChainInv, LockOK, RecStillLast, WritingTail, ReadableChained

\* A step of p that ends p's hold of the lock, or happens while p has it, needs
\* nothing of the others.
LEMMA ChainSolo ==
  ASSUME TypeOK, ChainInv, NEW p \in Proc, wpc[p] # "idle",
         \A q \in Proc \ {p} : wpc'[q] = wpc[q],
         \A q \in Proc : vpc'[q] = "cut" => vpc[q] = "cut",
         \/ wpc'[p] # "idle" /\ holders' = holders
         \/ /\ wpc'[p] = "idle"
            /\ \E S \in SUBSET {<<p, "v">>} : holders' = holders \ ({<<p, "w">>} \cup S),
         wpc'[p] \in {"write", "writing"} => ComesNext(rec[p], lines)',
         wpc'[p] = "writing" => open' /\ ~ lines'[Len(lines')].parses,
         ReadableChained'
  PROVE  ChainInv'
<1>1. /\ \A q \in Proc \ {p} : wpc'[q] = "idle" /\ wpc[q] = "idle"
      /\ \A q \in Proc : vpc'[q] # "cut" /\ vpc[q] # "cut"
  BY Alone DEF ChainInv
<1>2. LockOK'
  <2>1. \A q \in Proc : <<q, "v">> \notin holders /\ (q # p => <<q, "w">> \notin holders)
    BY <1>1 DEF ChainInv, LockOK
  <2>2. <<p, "w">> \in holders
    BY DEF ChainInv, LockOK
  <2>3. CASE wpc'[p] # "idle" /\ holders' = holders
    BY <1>1, <2>1, <2>2, <2>3 DEF ChainInv, LockOK
  <2>4. CASE /\ wpc'[p] = "idle"
             /\ \E S \in SUBSET {<<p, "v">>} : holders' = holders \ ({<<p, "w">>} \cup S)
    <3>1. holders' \subseteq holders /\ <<p, "w">> \notin holders'
      BY <2>4
    <3>2. QED
      BY <1>1, <2>1, <2>4, <3>1 DEF ChainInv, LockOK
  <2>5. QED
    BY <2>3, <2>4
<1>3. RecStillLast'
  BY <1>1 DEF RecStillLast
<1>4. WritingTail'
  BY <1>1 DEF WritingTail
<1>5. QED
  BY <1>2, <1>3, <1>4 DEF ChainInv

LEMMA DropSelf ==
  ASSUME NEW p \in Proc
  PROVE  /\ \E S \in SUBSET {<<p, "v">>} :
              holders \ {<<p, "w">>} = holders \ ({<<p, "w">>} \cup S)
         /\ \E S \in SUBSET {<<p, "v">>} :
              holders \ {<<p, "w">>, <<p, "v">>} = holders \ ({<<p, "w">>} \cup S)
<1>1. holders \ {<<p, "w">>} = holders \ ({<<p, "w">>} \cup {})
  OBVIOUS
<1>2. holders \ {<<p, "w">>, <<p, "v">>} = holders \ ({<<p, "w">>} \cup {<<p, "v">>})
  OBVIOUS
<1>3. {} \in SUBSET {<<p, "v">>} /\ {<<p, "v">>} \in SUBSET {<<p, "v">>}
  OBVIOUS
<1>4. QED
  BY <1>1, <1>2, <1>3

LEMMA ChainInduction ==
  ASSUME Exclusive, TypeOK, ChainInv, [Next]_vars
  PROVE  ChainInv'
<1> USE DEF file, writer, reader
<1>1. ASSUME NEW p \in Proc, EnterRecord(p)
      PROVE  ChainInv'
  <2>1. holders = {} /\ holders' = {<<p, "w">>}
    BY <1>1 DEF EnterRecord, MayEnter
  <2>2. \A q \in Proc : wpc[q] = "idle" /\ vpc[q] # "cut"
    BY <2>1 DEF ChainInv, LockOK
  <2>3. /\ \A q \in Proc : wpc'[q] = IF q = p THEN "read" ELSE "idle"
        /\ vpc' = vpc /\ lines' = lines
    BY <1>1, <2>2 DEF EnterRecord, TypeOK
  <2>4. LockOK'
    BY <2>1, <2>2, <2>3 DEF LockOK
  <2>5. RecStillLast' /\ WritingTail'
    BY <2>3 DEF RecStillLast, WritingTail
  <2>6. ReadableChained'
    BY <2>3 DEF ChainInv, ReadableChained
  <2>7. QED
    BY <2>4, <2>5, <2>6 DEF ChainInv
<1>2. ASSUME NEW p \in Proc, ReadLast(p)
      PROVE  ChainInv'
  <2>1. /\ wpc[p] # "idle" /\ wpc'[p] = "write"
        /\ \A q \in Proc \ {p} : wpc'[q] = wpc[q]
        /\ vpc' = vpc /\ holders' = holders /\ lines' = lines
        /\ ComesNext(rec[p], lines)'
    BY <1>2 DEF ReadLast, TypeOK, ComesNext
  <2>2. ReadableChained'
    BY <2>1 DEF ChainInv, ReadableChained
  <2>3. QED
    BY <2>1, <2>2, ChainSolo
<1>3. ASSUME NEW p \in Proc, ReadLastFails(p)
      PROVE  ChainInv'
  <2>1. /\ wpc[p] # "idle" /\ wpc'[p] = "write"
        /\ \A q \in Proc \ {p} : wpc'[q] = wpc[q]
        /\ vpc' = vpc /\ holders' = holders /\ lines' = lines
        /\ rec'[p] = Genesis /\ "readerr" \in Faults
    BY <1>3 DEF ReadLastFails, TypeOK
  <2>2. ReadableChained'
    BY <2>1 DEF ChainInv, ReadableChained
  <2>3. ComesNext(rec[p], lines)'
    BY <2>1 DEF ComesNext, StartsAnew, Genesis, Unsigned
  <2>4. QED
    BY <2>1, <2>2, <2>3, ChainSolo
<1>4. ASSUME NEW p \in Proc, WriteRecord(p)
      PROVE  ChainInv'
  <2>1. /\ wpc[p] = "write" /\ wpc'[p] = "return"
        /\ \A q \in Proc \ {p} : wpc'[q] = wpc[q]
        /\ vpc' = vpc /\ holders' = holders
        /\ lines' = Glued(Signed(p))
    BY <1>4 DEF WriteRecord, CanWrite, TypeOK
  <2>2. ReadableChained'
    <3>1. \A i \in Readable(Glued(Signed(p))) : LinksBack(Glued(Signed(p)), i)
      BY <2>1, SignedNext, GluedChain DEF ChainInv
    <3>2. QED
      BY <2>1, <3>1 DEF ReadableChained
  <2>3. QED
    BY <2>1, <2>2, ChainSolo
<1>5. ASSUME NEW p \in Proc, PutFragment(p), wpc[p] = "write"
      PROVE  ReadableChained'
  <2>1. PICK l \in {Junk, Signed(p)} : lines' = Glued(l)
    BY <1>5 DEF PutFragment
  <2>2. /\ l \in Line
        /\ l.parses => ComesNext(l, lines)
    BY <1>5, SignedNext, JunkIsLine DEF ChainInv
  <2>3. \A i \in Readable(Glued(l)) : LinksBack(Glued(l), i)
    BY <2>2, GluedChain DEF ChainInv
  <2>4. QED
    BY <2>1, <2>3 DEF ReadableChained
<1>6. ASSUME NEW p \in Proc, ShortWrite(p)
      PROVE  ChainInv'
  <2>1. /\ wpc[p] = "write" /\ wpc'[p] = "return" /\ PutFragment(p)
        /\ \A q \in Proc \ {p} : wpc'[q] = wpc[q]
        /\ vpc' = vpc /\ holders' = holders
    BY <1>6 DEF ShortWrite, CanWrite, TypeOK
  <2>2. QED
    BY <1>5, <2>1, ChainSolo
<1>7. ASSUME NEW p \in Proc, BeginWrite(p)
      PROVE  ChainInv'
  <2>1. /\ wpc[p] = "write" /\ wpc'[p] = "writing"
        /\ \A q \in Proc \ {p} : wpc'[q] = wpc[q]
        /\ vpc' = vpc /\ holders' = holders /\ rec' = rec
        /\ lines' = Append(lines, Junk) /\ lines' = Glued(Junk) /\ open' /\ ~ open
        /\ lines \in Seq(Line) /\ open \in BOOLEAN
    BY <1>7 DEF BeginWrite, CanWrite, Glued, TypeOK
  <2>2. ReadableChained'
    BY <2>1, GluedChain, JunkIsLine DEF ChainInv, ReadableChained
  <2>3. /\ lines' \in Seq(Line)
        /\ lines'[Len(lines')] = Junk
        /\ Readable(lines') = Readable(lines)
        /\ \A i \in Readable(lines) : lines'[i] = lines[i]
    <3>1. /\ Glued(Junk) \in Seq(Line)
          /\ Readable(Glued(Junk)) = Readable(lines)
          /\ \A i \in Readable(lines) :
               i \in Readable(Glued(Junk)) => Glued(Junk)[i] = lines[i]
      BY <2>1, JunkIsLine, GluedLines
    <3>2. \A ls \in Seq(Line) : Append(ls, Junk)[Len(Append(ls, Junk))] = Junk
      BY JunkIsLine
    <3>3. lines'[Len(lines')] = Junk
      <4>1. Append(lines, Junk)[Len(Append(lines, Junk))] = Junk
        BY <2>1, <3>2
      <4>2. QED
        BY <2>1, <4>1, Zenon
    <3>4. QED
      BY <2>1, <3>1, <3>3
  <2>4. ComesNext(rec[p], lines)'
    BY <2>1, <2>3, NextOfSame DEF ChainInv, RecStillLast, ComesNext
  <2>5. QED
    BY <2>1, <2>2, <2>3, <2>4, JunkIsLine, ChainSolo
<1>8. ASSUME NEW p \in Proc, EndWrite(p)
      PROVE  ChainInv'
  <2>1. /\ wpc[p] = "writing" /\ wpc'[p] = "return"
        /\ \A q \in Proc \ {p} : wpc'[q] = wpc[q]
        /\ vpc' = vpc /\ holders' = holders
        /\ lines' = [lines EXCEPT ![Len(lines)] = Signed(p)]
    BY <1>8 DEF EndWrite, TypeOK
  <2>2. /\ lines \in Seq(Line) /\ Len(lines) \in 1 .. Len(lines)
        /\ ~ lines[Len(lines)].parses
    BY <2>1 DEF TypeOK, ChainInv, WritingTail
  <2>3. Signed(p) \in Line /\ Signed(p).parses
    BY <2>1, SignedNext DEF ChainInv
  <2>4. /\ lines' \in Seq(Line) /\ Len(lines') = Len(lines)
        /\ \A i \in 1 .. Len(lines) :
             lines'[i] = IF i = Len(lines) THEN Signed(p) ELSE lines[i]
    BY <2>1, <2>2, <2>3, ExceptSeq
  <2>5. /\ Readable(lines') = Readable(lines) \cup {Len(lines)}
        /\ \A i \in Readable(lines) : i < Len(lines) /\ lines'[i] = lines[i]
    BY <2>2, <2>3, <2>4 DEF Readable
  <2>6. ComesNext(lines'[Len(lines)], lines)
    BY <2>1, <2>2, <2>4, SignedNext DEF ChainInv
  <2>7. \A i \in Readable(lines') : LinksBack(lines', i)
    BY <2>2, <2>4, <2>5, <2>6, LongerChain DEF ChainInv, ReadableChained
  <2>8. ReadableChained'
    BY <2>7 DEF ReadableChained
  <2>9. QED
    BY <2>1, <2>8, ChainSolo
<1>9. ASSUME NEW p \in Proc, Recorded(p)
      PROVE  ChainInv'
  <2>1. /\ wpc[p] # "idle" /\ wpc'[p] = "idle"
        /\ \A q \in Proc \ {p} : wpc'[q] = wpc[q]
        /\ vpc' = vpc /\ lines' = lines
        /\ holders' = holders \ {<<p, "w">>}
    BY <1>9 DEF Recorded, TypeOK
  <2>2. ReadableChained'
    BY <2>1 DEF ChainInv, ReadableChained
  <2>3. QED
    BY <2>1, <2>2, DropSelf, ChainSolo
<1>10. ASSUME NEW p \in Proc,
              \/ VerifyCached(p) \/ VerifyRead(p) \/ RetryRepaired(p)
              \/ RetryFails(p) \/ VerifyStore(p)
       PROVE  ChainInv'
  <2>1. /\ UNCHANGED <<lines, open, holders, wpc, rec>>
        /\ vpc[p] # "cut" /\ vpc'[p] # "cut"
        /\ \A q \in Proc \ {p} : vpc'[q] = vpc[q]
    BY <1>10 DEF VerifyCached, VerifyRead, RetryRepaired, RetryFails, VerifyStore,
                 Answer, TypeOK
  <2>2. QED
    BY <2>1, ChainUntouched
<1>11. ASSUME NEW p \in Proc, EnterQuarantine(p)
       PROVE  ChainInv'
  <2>1. holders = {} /\ holders' = {<<p, "v">>}
    BY <1>11 DEF EnterQuarantine, MayEnter
  <2>2. \A q \in Proc : wpc[q] = "idle" /\ vpc[q] # "cut"
    BY <2>1 DEF ChainInv, LockOK
  <2>3. /\ \A q \in Proc : vpc'[q] = "cut" <=> q = p
        /\ wpc' = wpc /\ lines' = lines
    BY <1>11, <2>2 DEF EnterQuarantine, TypeOK
  <2>4. LockOK'
    BY <2>1, <2>2, <2>3 DEF LockOK
  <2>5. RecStillLast' /\ WritingTail'
    BY <2>2, <2>3 DEF RecStillLast, WritingTail
  <2>6. ReadableChained'
    BY <2>3 DEF ChainInv, ReadableChained
  <2>7. QED
    BY <2>4, <2>5, <2>6 DEF ChainInv
<1>12. ASSUME NEW p \in Proc, Quarantine(p)
       PROVE  ChainInv'
  <2>1. /\ vpc[p] = "cut" /\ wpc' = wpc
        /\ holders' = holders \ {<<p, "v">>}
        /\ \A q \in Proc : vpc'[q] = IF q = p THEN "cache" ELSE vpc[q]
        /\ lines' = Truncated(found[p].count) /\ found[p].count \in Nat
    BY <1>12, FoundTypes DEF Quarantine, TypeOK
  <2>2. /\ \A q \in Proc : wpc[q] = "idle"
        /\ \A q \in Proc \ {p} : vpc[q] # "cut"
    BY <2>1, Alone DEF ChainInv
  <2>3. LockOK'
    BY <2>1, <2>2 DEF ChainInv, LockOK
  <2>4. RecStillLast' /\ WritingTail'
    BY <2>1, <2>2 DEF RecStillLast, WritingTail
  <2>5. ReadableChained'
    <3> DEFINE ms == Truncated(found[p].count)
    <3>1. /\ lines \in Seq(Line) /\ open \in BOOLEAN /\ (open => lines # <<>>)
          /\ \A i \in Readable(lines) : LinksBack(lines, i)
      BY DEF TypeOK, ChainInv, ReadableChained
    <3>2. /\ ms \in Seq(Line)
          /\ \E k \in Nat : Readable(ms) = {i \in Readable(lines) : i <= k}
          /\ \A i \in Readable(ms) : ms[i] = lines[i]
      BY <2>1, <3>1, TruncatedLines
    <3> HIDE DEF ms
    <3>3. \A i \in Readable(ms) : LinksBack(ms, i)
      BY <3>1, <3>2, ShorterChain
    <3>4. QED
      BY <2>1, <3>3 DEF ReadableChained, ms
  <2>6. QED
    BY <2>3, <2>4, <2>5 DEF ChainInv
<1>13. ASSUME NEW p \in Proc, Crash(p)
       PROVE  ChainInv'
  <2>1. /\ wpc'[p] = "idle" /\ vpc'[p] = "idle"
        /\ \A q \in Proc \ {p} : wpc'[q] = wpc[q] /\ vpc'[q] = vpc[q]
        /\ \A q \in Proc \ {p} : rec'[q] = rec[q]
        /\ lines' = lines /\ open' = open
        /\ holders' = holders \ {<<p, "w">>, <<p, "v">>}
    BY <1>13 DEF Crash, Die, TypeOK
  <2>2. LockOK'
    BY <2>1 DEF ChainInv, LockOK
  <2>3. RecStillLast' /\ WritingTail' /\ ReadableChained'
    BY <2>1 DEF ChainInv, RecStillLast, WritingTail, ReadableChained
  <2>4. QED
    BY <2>2, <2>3 DEF ChainInv
<1>14. ASSUME NEW p \in Proc, CrashInWrite(p)
       PROVE  ChainInv'
  <2>1. /\ wpc[p] = "write" /\ wpc'[p] = "idle" /\ PutFragment(p)
        /\ \A q \in Proc \ {p} : wpc'[q] = wpc[q]
        /\ \A q \in Proc : vpc'[q] = "cut" => vpc[q] = "cut"
        /\ holders' = holders \ {<<p, "w">>, <<p, "v">>}
    BY <1>14 DEF CrashInWrite, CanWrite, Die, TypeOK
  <2>2. QED
    BY <1>5, <2>1, DropSelf, ChainSolo
<1>15. CASE UNCHANGED vars
  BY <1>15, ChainUntouched DEF vars
<1>16. QED
  BY <1>1, <1>2, <1>3, <1>4, <1>6, <1>7, <1>8, <1>9, <1>10, <1>11, <1>12,
     <1>13, <1>14, <1>15 DEF Next, RecordEntry, VerifyChain

\* As long as the ledger lock excludes, the readable lines of the file form one
\* chain, whatever is torn, cut or half written, and whoever dies where.
THEOREM OneChain ==
  ASSUME Exclusive
  PROVE  Spec => []ReadableChained
<1>1. Init => ChainInv
  BY DEF Init, ChainInv, LockOK, RecStillLast, WritingTail, ReadableChained, Readable
<1>2. TypeOK /\ ChainInv /\ [Next]_vars => ChainInv'
  BY ChainInduction
<1>3. ChainInv => ReadableChained
  BY DEF ChainInv
<1>4. QED
  BY <1>1, <1>2, <1>3, FileTypeCorrect, PTL DEF Spec
-----------------------------------------------------------------------------
(* With half-visible writes and no other fault *)

\* Readers may see half of a write; nothing else goes wrong, and no verifier runs
\* out of its re-reads.
OnlyPartial == Faults \subseteq {"partial"}

\* Of a file whose lines all link, what comes next is its length and the hash
\* of its last line.
LEMMA NextOfLinked ==
  ASSUME NEW ls \in Seq(Line), \A i \in DOMAIN ls : Linked(ls, i)
  PROVE  /\ NextOf(ls).index = Len(ls)
         /\ NextOf(ls).prev = IF ls = <<>> THEN 0 ELSE ls[Len(ls)].hash
<1>1. Readable(ls) = 1 .. Len(ls) /\ Len(ls) \in Nat
  BY DEF Readable, Linked
<1>2. CASE ls = <<>>
  <2>1. Readable(ls) = {} /\ Len(ls) = 0
    BY <1>1, <1>2
  <2>2. NextOf(ls) = Genesis
    BY <2>1 DEF NextOf
  <2>3. QED
    BY <1>2, <2>1, <2>2 DEF Genesis, Unsigned
<1>3. CASE ls # <<>>
  <2>1. Len(ls) \in Readable(ls)
    BY <1>1, <1>3
  <2>2. PICK i \in Readable(ls) :
          /\ \A j \in Readable(ls) : j <= i
          /\ NextOf(ls) = Unsigned(ls[i].index + 1, ls[i].hash)
    BY <2>1, LastReadable
  <2>3. i = Len(ls)
    BY <1>1, <2>1, <2>2
  <2>4. ls[i].index = i - 1
    BY <1>1, <2>2 DEF Linked
  <2>5. QED
    BY <1>1, <1>3, <2>2, <2>3, <2>4 DEF Unsigned
<1>4. QED
  BY <1>2, <1>3

\* The line that comes next links when it is appended, and the others still do.
LEMMA LinkedLonger ==
  ASSUME NEW ls \in Seq(Line), \A i \in DOMAIN ls : Linked(ls, i),
         NEW l \in Line, l.parses,
         l.index = NextOf(ls).index, l.prev = NextOf(ls).prev
  PROVE  \A i \in DOMAIN Append(ls, l) : Linked(Append(ls, l), i)
<1> DEFINE ms == Append(ls, l)
<1>1. /\ ms \in Seq(Line) /\ Len(ms) = Len(ls) + 1 /\ Len(ls) \in Nat
      /\ DOMAIN ms = 1 .. Len(ls) + 1 /\ DOMAIN ls = 1 .. Len(ls)
      /\ \A i \in 1 .. Len(ls) : ms[i] = ls[i]
      /\ ms[Len(ls) + 1] = l
  BY AppendProperties
<1> HIDE DEF ms
<1>2. ASSUME NEW i \in 1 .. Len(ls)
      PROVE  Linked(ms, i)
  <2>1. Linked(ls, i)
    BY <1>1
  <2>2. i = 1 \/ i - 1 \in 1 .. Len(ls)
    BY <1>1
  <2>3. QED
    BY <1>1, <2>1, <2>2 DEF Linked
<1>3. Linked(ms, Len(ls) + 1)
  <2>1. /\ l.index = Len(ls)
        /\ l.prev = IF ls = <<>> THEN 0 ELSE ls[Len(ls)].hash
    BY NextOfLinked
  <2>2. CASE ls = <<>>
    <3>1. Len(ls) = 0
      BY <2>2
    <3>2. QED
      BY <1>1, <2>1, <2>2, <3>1 DEF Linked
  <2>3. CASE ls # <<>>
    <3>1. Len(ls) \in 1 .. Len(ls) /\ Len(ls) + 1 # 1 /\ (Len(ls) + 1) - 1 = Len(ls)
      BY <1>1, <2>3
    <3>2. QED
      BY <1>1, <2>1, <2>3, <3>1 DEF Linked
  <2>4. QED
    BY <2>2, <2>3
<1>4. \A i \in DOMAIN ms : Linked(ms, i)
  BY <1>1, <1>2, <1>3
<1>5. QED
  BY <1>4 DEF ms

\* The whole lines are all lines, or all but the unreadable last one.
LEMMA WholeLines ==
  ASSUME TypeOK, ChainInv, FileClean
  PROVE  /\ Whole \in Seq(Line)
         /\ NextOf(lines) = NextOf(Whole)
         /\ DOMAIN Whole = 1 .. Len(Whole) /\ Len(Whole) \in Nat
         /\ DOMAIN lines = 1 .. Len(lines) /\ Len(lines) \in Nat
         /\ \A i \in DOMAIN Whole : i \in DOMAIN lines /\ Whole[i] = lines[i]
         /\ ~ open => Whole = lines
         /\ open => /\ Len(lines) = Len(Whole) + 1
                    /\ ~ lines[Len(lines)].parses
<1>1. lines \in Seq(Line) /\ Len(lines) \in Nat /\ DOMAIN lines = 1 .. Len(lines)
  BY DEF TypeOK
<1>2. CASE ~ open
  BY <1>1, <1>2 DEF Whole
<1>3. CASE open
  <2>1. ~ lines[Len(lines)].parses
    BY <1>3 DEF ChainInv, WritingTail, FileClean
  <2>2. lines # <<>>
    BY <1>3 DEF TypeOK
  <2>3. Len(lines) # 0
    BY <1>1, <2>2, EmptySeq
  <2>4. Len(lines) - 1 \in Nat
    BY <1>1, <2>3
  <2>5. Whole = SubSeq(lines, 1, Len(lines) - 1)
    BY <1>3 DEF Whole
  <2>6. /\ Whole \in Seq(Line) /\ Len(Whole) = Len(lines) - 1
        /\ \A i \in 1 .. Len(lines) - 1 : Whole[i] = lines[i]
    BY <1>1, <2>4, <2>5
  <2>7. Readable(Whole) = Readable(lines)
    BY <1>1, <2>1, <2>6 DEF Readable
  <2>8. NextOf(Whole) = NextOf(lines)
    <3>1. \A i \in Readable(lines) : Whole[i] = lines[i]
      BY <1>1, <2>6, <2>7 DEF Readable
    <3>2. QED
      BY <1>1, <2>6, <2>7, <3>1, NextOfSame
  <2>9. QED
    BY <1>1, <1>3, <2>1, <2>6, <2>8
<1>4. QED
  BY <1>2, <1>3

\* Of such a file the check finds every line linked, or all but the last, which
\* is half written: never an error.
LEMMA CheckLinked ==
  ASSUME TypeOK, ChainInv, FileClean
  PROVE  \/ Check(lines).kind = "valid"
         \/ /\ Check(lines).kind = "tail"
            /\ Check(lines).count = Len(Whole)
            /\ Check(lines).prev = IF Whole = <<>> THEN 0 ELSE Whole[Len(Whole)].hash
<1>1. /\ Len(Whole) \in Nat /\ DOMAIN lines = 1 .. Len(lines)
      /\ \A i \in 1 .. Len(Whole) : i \in DOMAIN lines /\ Whole[i] = lines[i]
      /\ Whole \in Seq(Line)
  BY WholeLines
<1>2. \A i \in 1 .. Len(Whole) : Linked(lines, i)
  <2>1. ASSUME NEW i \in 1 .. Len(Whole)
        PROVE  Linked(lines, i)
    <3>1. Linked(Whole, i)
      BY <1>1 DEF FileClean
    <3>2. i = 1 \/ i - 1 \in 1 .. Len(Whole)
      BY <1>1
    <3>3. QED
      BY <1>1, <3>1, <3>2 DEF Linked
  <2>2. QED
    BY <2>1
<1>3. CASE ~ open
  <2>1. Whole = lines
    BY <1>3 DEF Whole
  <2>2. QED
    BY <1>1, <1>2, <2>1 DEF Check
<1>4. CASE open
  <2>1. Len(lines) = Len(Whole) + 1 /\ ~ lines[Len(lines)].parses
    BY <1>4, WholeLines
  <2>2. ~ Linked(lines, Len(lines)) /\ Len(lines) \in DOMAIN lines
    BY <1>1, <2>1 DEF Linked
  <2> DEFINE b == CHOOSE b \in DOMAIN lines :
                    ~ Linked(lines, b) /\ \A i \in 1 .. b - 1 : Linked(lines, i)
  <2>3. \E c \in DOMAIN lines : ~ Linked(lines, c) /\ \A i \in 1 .. c - 1 : Linked(lines, i)
    BY <1>1, <1>2, <2>1, <2>2
  <2>4. b \in DOMAIN lines /\ ~ Linked(lines, b)
    BY <2>3
  <2>5. Check(lines) =
          [kind  |-> IF ~ lines[b].parses /\ b = Len(lines) THEN "tail" ELSE "broken",
           count |-> b - 1,
           prev  |-> IF b = 1 THEN 0 ELSE lines[b - 1].hash,
           left  |-> Retries]
    BY <2>2 DEF Check
  <2> HIDE DEF b
  <2>6. b = Len(lines)
    BY <1>1, <1>2, <2>1, <2>4
  <2>7. /\ Check(lines).kind = "tail" /\ Check(lines).count = Len(Whole)
        /\ Check(lines).prev = IF b = 1 THEN 0 ELSE lines[b - 1].hash
    BY <1>1, <2>1, <2>5, <2>6
  <2>8. CASE Whole = <<>>
    <3>1. Len(Whole) = 0
      BY <2>8
    <3>2. QED
      BY <2>1, <2>6, <2>7, <2>8, <3>1
  <2>9. CASE Whole # <<>>
    <3>1. Len(Whole) \in 1 .. Len(Whole) /\ b # 1 /\ b - 1 = Len(Whole)
      BY <1>1, <2>1, <2>6, <2>9, EmptySeq
    <3>2. QED
      BY <1>1, <2>7, <2>9, <3>1
  <2>10. QED
    BY <2>8, <2>9
<1>5. QED
  BY <1>3, <1>4

\* A step that leaves the whole lines and every finished record where they are.
LEMMA CleanUntouched ==
  ASSUME CleanInv, Whole' = Whole, written' = written,
         open' => \E q \in Proc : wpc'[q] = "writing",
         open' => open \/ written < MaxWrites,
         \A r \in acked' : r \in acked \/ AtItsPlace(r),
         \A q \in Proc : wpc'[q] = "return" => wpc[q] = "return" /\ rec'[q] = rec[q],
         \A q \in Proc : vpc'[q] = "retry" =>
           \/ /\ vpc[q] = "retry"
              /\ found'[q].count = found[q].count /\ found'[q].prev = found[q].prev
           \/ found'[q].count = 0 /\ found'[q].prev = 0
           \/ /\ found'[q].count \in DOMAIN Whole
              /\ found'[q].prev = Whole[found'[q].count].hash,
         \A q \in Proc : vpc'[q] # "cut" /\ verdict'[q].ok
  PROVE  CleanInv'
<1>1. FileClean' /\ NoFaultSeen'
  BY DEF CleanInv, FileClean, NoFaultSeen
<1>2. RecordsKept'
  <2>1. \A r : AtItsPlace(r)' <=> AtItsPlace(r)
    BY DEF AtItsPlace
  <2>2. \A r \in acked : AtItsPlace(r)
    BY DEF CleanInv, RecordsKept
  <2>3. \A q \in Proc : wpc'[q] = "return" => AtItsPlace(rec'[q])
    BY DEF CleanInv, RecordsKept
  <2>4. QED
    BY <2>1, <2>2, <2>3 DEF RecordsKept, AtItsPlace
<1>3. PlaceKept'
  BY DEF CleanInv, PlaceKept
<1>4. QED
  BY <1>1, <1>2, <1>3 DEF CleanInv

\* The same for a step that does not touch the file at all.
LEMMA FileUntouched ==
  ASSUME UNCHANGED <<lines, open>>
  PROVE  Whole' = Whole
BY DEF Whole

\* The end of a write: one record, linked, behind all whole lines.
LEMMA CleanWrite ==
  ASSUME OnlyPartial, TypeOK, ChainInv, CleanInv, NEW p \in Proc,
         WriteRecord(p) \/ EndWrite(p)
  PROVE  /\ Whole' = Append(Whole, Signed(p))
         /\ CleanInv'
<1>1. /\ lines \in Seq(Line) /\ written \in Nat /\ rec \in [Proc -> Line]
      /\ wpc \in [Proc -> WPC]
      /\ Whole \in Seq(Line) /\ NextOf(lines) = NextOf(Whole)
      /\ wpc[p] \in {"write", "writing"}
      /\ \A i \in DOMAIN Whole : Linked(Whole, i) /\ Whole[i].hash \in 1 .. written
  BY WholeLines DEF TypeOK, CleanInv, FileClean, WriteRecord, EndWrite, CanWrite
<1>2. Signed(p) \in Line
  BY SignedType
<1>3. /\ rec' = [rec EXCEPT ![p] = Signed(p)] /\ written' = written + 1
      /\ ~ open' /\ acked' = acked /\ UNCHANGED <<vpc, found, verdict>>
      /\ wpc' = [wpc EXCEPT ![p] = "return"]
  BY DEF WriteRecord, EndWrite, Sign
<1>4. Whole' = Append(Whole, Signed(p))
  <2>1. CASE WriteRecord(p)
    <3>1. wpc[p] = "write"
      BY <2>1 DEF WriteRecord, CanWrite
    <3>2. \A q \in Proc : wpc[q] # "writing"
      BY <3>1, Alone DEF ChainInv
    <3>3. ~ open
      BY <3>2 DEF CleanInv, FileClean
    <3>4. QED
      BY <1>3, <2>1, <3>3 DEF WriteRecord, Glued, Whole
  <2>2. CASE EndWrite(p)
    <3>1. wpc[p] = "writing" /\ lines' = [lines EXCEPT ![Len(lines)] = Signed(p)]
      BY <2>2 DEF EndWrite
    <3>2. open
      BY <3>1 DEF ChainInv, WritingTail
    <3>3. /\ Len(lines) = Len(Whole) + 1 /\ Len(Whole) \in Nat
          /\ DOMAIN lines = 1 .. Len(Whole) + 1
          /\ \A i \in 1 .. Len(Whole) : Whole[i] = lines[i]
      BY <3>2, WholeLines DEF CleanInv
    <3>4. Whole' = lines'
      BY <1>3 DEF Whole
    <3> DEFINE a == Append(Whole, Signed(p))
    <3>5. /\ a \in Seq(Line) /\ DOMAIN a = 1 .. Len(Whole) + 1
          /\ \A i \in 1 .. Len(Whole) : a[i] = Whole[i]
          /\ a[Len(Whole) + 1] = Signed(p)
      <4>1. /\ a \in Seq(Line) /\ Len(a) = Len(Whole) + 1
            /\ \A i \in 1 .. Len(Whole) : a[i] = Whole[i]
            /\ a[Len(Whole) + 1] = Signed(p)
        BY <1>1, <1>2, AppendProperties
      <4>2. QED
        BY <4>1
    <3> HIDE DEF a
    <3>6. lines' \in Seq(Line) /\ DOMAIN lines' = 1 .. Len(Whole) + 1
      BY <1>1, <1>2, <3>1, <3>3
    <3>7. \A i \in 1 .. Len(Whole) + 1 : lines'[i] = a[i]
      BY <1>1, <3>1, <3>3, <3>5
    <3>8. lines' = a
      <4>1. lines' = [i \in 1 .. Len(Whole) + 1 |-> lines'[i]]
        BY <3>6
      <4>2. a = [i \in 1 .. Len(Whole) + 1 |-> a[i]]
        BY <3>5
      <4>3. QED
        BY <3>7, <4>1, <4>2
    <3>9. QED
      BY <3>4, <3>8 DEF a
  <2>3. QED
    BY <2>1, <2>2
<1>5. /\ Signed(p).parses /\ Signed(p).hash = written + 1
      /\ Signed(p).index = NextOf(Whole).index
      /\ Signed(p).prev = NextOf(Whole).prev
  BY <1>1 DEF ChainInv, RecStillLast, ComesNext, StartsAnew, Signed, OnlyPartial
<1>6. /\ DOMAIN Whole' = 1 .. Len(Whole) + 1 /\ DOMAIN Whole = 1 .. Len(Whole)
      /\ Len(Whole) \in Nat
      /\ \A i \in 1 .. Len(Whole) : Whole'[i] = Whole[i]
      /\ Whole'[Len(Whole) + 1] = Signed(p)
  BY <1>1, <1>2, <1>4, AppendProperties
<1>7. FileClean'
  <2>1. \A i \in DOMAIN Whole' : Linked(Whole', i)
    BY <1>1, <1>2, <1>4, <1>5, LinkedLonger
  <2>2. \A i \in DOMAIN Whole' : Whole'[i].hash \in 1 .. written'
    BY <1>1, <1>3, <1>5, <1>6
  <2>3. QED
    BY <1>3, <2>1, <2>2 DEF FileClean
<1>8. ASSUME NEW r, AtItsPlace(r)
      PROVE  r.index + 1 \in DOMAIN Whole' /\ Whole'[r.index + 1] = r
  BY <1>6, <1>8 DEF AtItsPlace
<1>9. Signed(p).index + 1 = Len(Whole) + 1
  BY <1>1, <1>5, NextOfLinked
<1>10. RecordsKept'
  <2>1. \A r \in acked' : AtItsPlace(r)'
    BY <1>3, <1>8 DEF CleanInv, RecordsKept, AtItsPlace
  <2>2. ASSUME NEW q \in Proc, wpc'[q] = "return"
        PROVE  AtItsPlace(rec[q])'
    <3>1. CASE q = p
      <4>1. rec'[p] = Signed(p)
        BY <1>1, <1>3
      <4>2. QED
        BY <1>6, <1>9, <3>1, <4>1 DEF AtItsPlace
    <3>2. CASE q # p
      <4>1. wpc[q] = "return" /\ rec'[q] = rec[q]
        BY <1>1, <1>3, <2>2, <3>2
      <4>2. QED
        BY <1>8, <4>1 DEF CleanInv, RecordsKept, AtItsPlace
    <3>3. QED
      BY <3>1, <3>2
  <2>3. QED
    BY <2>1, <2>2 DEF RecordsKept
<1>11. PlaceKept'
  <2>1. ASSUME NEW q \in Proc, vpc'[q] = "retry"
        PROVE  \/ found'[q].count = 0 /\ found'[q].prev = 0
               \/ /\ found'[q].count \in DOMAIN Whole'
                  /\ found'[q].prev = Whole'[found'[q].count].hash
    <3>1. \/ found[q].count = 0 /\ found[q].prev = 0
          \/ /\ found[q].count \in DOMAIN Whole
             /\ found[q].prev = Whole[found[q].count].hash
      BY <1>3, <2>1 DEF CleanInv, PlaceKept
    <3>2. QED
      BY <1>3, <1>6, <3>1
  <2>2. QED
    BY <2>1 DEF PlaceKept
<1>12. NoFaultSeen'
  BY <1>3 DEF CleanInv, NoFaultSeen
<1>13. QED
  BY <1>4, <1>7, <1>10, <1>11, <1>12 DEF CleanInv

LEMMA CleanInduction ==
  ASSUME OnlyPartial, TypeOK, ChainInv, CleanInv, [Next]_vars
  PROVE  CleanInv'
<1> USE DEF file, writer, reader
<1>1. ASSUME NEW p \in Proc, EnterRecord(p) \/ ReadLast(p)
      PROVE  CleanInv'
  <2>1. /\ UNCHANGED <<lines, open, written, acked, vpc, found, verdict>>
        /\ wpc'[p] \in {"read", "write"} /\ wpc[p] # "writing"
        /\ \A q \in Proc \ {p} : wpc'[q] = wpc[q] /\ rec'[q] = rec[q]
    BY <1>1 DEF EnterRecord, ReadLast, TypeOK
  <2>2. open' => \E q \in Proc : wpc'[q] = "writing"
    BY <2>1 DEF CleanInv, FileClean
  <2>3. QED
    BY <2>1, <2>2, FileUntouched, CleanUntouched DEF CleanInv, NoFaultSeen
<1>2. ASSUME NEW p \in Proc, WriteRecord(p) \/ EndWrite(p)
      PROVE  CleanInv'
  BY <1>2, CleanWrite
<1>3. ASSUME NEW p \in Proc, BeginWrite(p)
      PROVE  CleanInv'
  <2>1. /\ UNCHANGED <<written, acked, rec, vpc, found, verdict>>
        /\ lines' = Append(lines, Junk) /\ open' /\ ~ open /\ wpc'[p] = "writing"
        /\ written < MaxWrites
        /\ \A q \in Proc \ {p} : wpc'[q] = wpc[q]
        /\ lines \in Seq(Line)
    BY <1>3 DEF BeginWrite, CanWrite, TypeOK
  <2>2. Whole' = Whole
    <3>1. Whole = lines /\ Whole' = SubSeq(lines', 1, Len(lines') - 1)
      BY <2>1 DEF Whole
    <3>2. Junk \in Line
      BY JunkIsLine
    <3>3. SubSeq(Append(lines, Junk), 1, Len(Append(lines, Junk)) - 1) = lines
      BY <2>1, <3>2
    <3>4. QED
      BY <2>1, <3>1, <3>3
  <2>3. QED
    BY <2>1, <2>2, CleanUntouched DEF CleanInv, NoFaultSeen
<1>4. ASSUME NEW p \in Proc, Recorded(p)
      PROVE  CleanInv'
  <2>1. /\ UNCHANGED <<lines, open, written, vpc, found, verdict>>
        /\ wpc[p] = "return" /\ wpc'[p] = "idle"
        /\ acked' = acked \cup {rec[p]}
        /\ \A q \in Proc \ {p} : wpc'[q] = wpc[q] /\ rec'[q] = rec[q]
    BY <1>4 DEF Recorded, TypeOK
  <2>2. AtItsPlace(rec[p])
    BY <2>1 DEF CleanInv, RecordsKept
  <2>3. open' => \E q \in Proc : wpc'[q] = "writing"
    BY <2>1 DEF CleanInv, FileClean
  <2>4. QED
    BY <2>1, <2>2, <2>3, FileUntouched, CleanUntouched DEF CleanInv, NoFaultSeen
<1>5. ASSUME UNCHANGED <<lines, open, written, acked, wpc, rec>>,
             NEW p \in Proc,
             \A q \in Proc \ {p} : /\ vpc'[q] = vpc[q] /\ found'[q] = found[q]
                                   /\ verdict'[q] = verdict[q],
             verdict'[p].ok,
             \/ vpc'[p] \in {"idle", "cache"}
             \/ /\ vpc'[p] = "retry" /\ vpc[p] = "retry"
                /\ found'[p].count = found[p].count /\ found'[p].prev = found[p].prev
             \/ /\ vpc'[p] = "retry"
                /\ \/ found'[p].count = 0 /\ found'[p].prev = 0
                   \/ /\ found'[p].count \in DOMAIN Whole
                      /\ found'[p].prev = Whole[found'[p].count].hash
      PROVE  CleanInv'
  <2>1. open' => \E q \in Proc : wpc'[q] = "writing"
    BY <1>5 DEF CleanInv, FileClean
  <2>2. \A q \in Proc : vpc'[q] # "cut" /\ verdict'[q].ok
    BY <1>5 DEF CleanInv, NoFaultSeen
  <2>3. \A q \in Proc : vpc'[q] = "retry" =>
          \/ /\ vpc[q] = "retry"
             /\ found'[q].count = found[q].count /\ found'[q].prev = found[q].prev
          \/ found'[q].count = 0 /\ found'[q].prev = 0
          \/ /\ found'[q].count \in DOMAIN Whole
             /\ found'[q].prev = Whole[found'[q].count].hash
    BY <1>5
  <2>4. QED
    BY <1>5, <2>1, <2>2, <2>3, FileUntouched, CleanUntouched
<1>6. ASSUME NEW p \in Proc, VerifyCached(p) \/ VerifyStore(p)
      PROVE  CleanInv'
  <2>1. /\ UNCHANGED <<lines, open, written, acked, wpc, rec>>
        /\ vpc'[p] = "idle" /\ verdict'[p].ok
        /\ \A q \in Proc \ {p} : /\ vpc'[q] = vpc[q] /\ found'[q] = found[q]
                                 /\ verdict'[q] = verdict[q]
    BY <1>6 DEF VerifyCached, VerifyStore, Answer, TypeOK
  <2>2. QED
    BY <1>5, <2>1
<1>7. ASSUME NEW p \in Proc, VerifyRead(p)
      PROVE  CleanInv'
  <2> DEFINE c == Check(lines)
  <2>1. /\ c.kind \in {"valid", "tail"}
        /\ c.kind # "valid" =>
             /\ c.count = Len(Whole)
             /\ c.prev = IF Whole = <<>> THEN 0 ELSE Whole[Len(Whole)].hash
    BY CheckLinked DEF CleanInv
  <2>2. /\ UNCHANGED <<lines, open, written, acked, wpc, rec, verdict>>
        /\ found' = [found EXCEPT ![p] = c]
        /\ vpc' = [vpc EXCEPT ![p] = IF c.kind = "valid" THEN "cache" ELSE "retry"]
    BY <1>7, <2>1 DEF VerifyRead
  <2> HIDE DEF c
  <2>3. /\ found'[p] = c /\ vpc'[p] = IF c.kind = "valid" THEN "cache" ELSE "retry"
        /\ verdict'[p].ok
        /\ \A q \in Proc \ {p} : /\ vpc'[q] = vpc[q] /\ found'[q] = found[q]
                                 /\ verdict'[q] = verdict[q]
    BY <2>2 DEF TypeOK, CleanInv, NoFaultSeen
  <2>4. /\ DOMAIN Whole = 1 .. Len(Whole) /\ Len(Whole) \in Nat
        /\ Whole = <<>> => Len(Whole) = 0
        /\ Whole # <<>> => Len(Whole) # 0
    <3>1. Whole \in Seq(Line) /\ DOMAIN Whole = 1 .. Len(Whole) /\ Len(Whole) \in Nat
      BY WholeLines DEF CleanInv
    <3>2. Whole # <<>> => Len(Whole) # 0
      BY <3>1, EmptySeq
    <3>3. QED
      BY <3>1, <3>2
  <2>5. CASE c.kind = "valid"
    BY <1>5, <2>2, <2>3, <2>5
  <2>6. CASE c.kind # "valid"
    <3>1. \/ found'[p].count = 0 /\ found'[p].prev = 0
          \/ /\ found'[p].count \in DOMAIN Whole
             /\ found'[p].prev = Whole[found'[p].count].hash
      BY <2>1, <2>3, <2>4, <2>6
    <3>2. vpc'[p] = "retry"
      BY <2>3, <2>6
    <3>3. QED
      BY <1>5, <2>2, <2>3, <3>1, <3>2
  <2>7. QED
    BY <2>5, <2>6
<1>8. ASSUME NEW p \in Proc, RetryFails(p)
      PROVE  CleanInv'
  <2>1. /\ UNCHANGED <<lines, open, written, acked, wpc, rec, vpc, verdict>>
        /\ vpc[p] = "retry"
        /\ found'[p].count = found[p].count /\ found'[p].prev = found[p].prev
        /\ \A q \in Proc \ {p} : found'[q] = found[q]
    BY <1>8 DEF RetryFails, TypeOK, Found
  <2>2. verdict'[p].ok
    BY <2>1 DEF CleanInv, NoFaultSeen
  <2>3. QED
    BY <1>5, <2>1, <2>2
<1>9. ASSUME NEW p \in Proc, RetryRepaired(p)
      PROVE  CleanInv'
  <2>1. /\ vpc[p] = "retry" /\ Len(lines) = found[p].count + 1
        /\ lines[Len(lines)].parses
    BY <1>9 DEF RetryRepaired, Rereads
  <2>2. /\ Whole \in Seq(Line) /\ Whole = lines
        /\ DOMAIN Whole = 1 .. Len(Whole) /\ Len(Whole) \in Nat
    BY <2>1, WholeLines DEF CleanInv
  <2>3. found[p].count \in Nat
    BY DEF TypeOK, Found
  <2>4. Linked(lines, Len(lines))
    BY <2>1, <2>2, <2>3 DEF CleanInv, FileClean
  <2>5. /\ lines[Len(lines)].index = found[p].count
        /\ lines[Len(lines)].prev = found[p].prev
    <3>1. \/ found[p].count = 0 /\ found[p].prev = 0
          \/ /\ found[p].count \in DOMAIN Whole
             /\ found[p].prev = Whole[found[p].count].hash
      BY <2>1 DEF CleanInv, PlaceKept
    <3>2. /\ Len(lines) - 1 = found[p].count
          /\ Len(lines) = 1 <=> found[p].count = 0
      BY <2>1, <2>3
    <3>3. /\ lines[Len(lines)].index = found[p].count
          /\ lines[Len(lines)].prev =
               IF found[p].count = 0 THEN 0 ELSE lines[found[p].count].hash
      BY <2>4, <3>2 DEF Linked
    <3>4. found[p].count \in DOMAIN Whole => found[p].count # 0
      BY <2>2
    <3>5. QED
      BY <2>2, <3>1, <3>3, <3>4
  <2>6. /\ UNCHANGED <<lines, open, written, acked, wpc, rec, verdict>>
        /\ vpc' = [vpc EXCEPT ![p] = "cache"]
        /\ found' = [found EXCEPT ![p].count = @ + 1]
    BY <1>9, <2>5 DEF RetryRepaired
  <2>7. /\ vpc'[p] = "cache" /\ verdict'[p].ok
        /\ \A q \in Proc \ {p} : /\ vpc'[q] = vpc[q] /\ found'[q] = found[q]
                                 /\ verdict'[q] = verdict[q]
    BY <2>6 DEF TypeOK, CleanInv, NoFaultSeen
  <2>8. QED
    BY <1>5, <2>6, <2>7
<1>10. ASSUME NEW p \in Proc, Crash(p)
       PROVE  CleanInv'
  <2>1. /\ UNCHANGED <<lines, open, written, acked>>
        /\ wpc[p] # "writing"
        /\ wpc'[p] = "idle" /\ vpc'[p] = "idle" /\ verdict'[p].ok
        /\ \A q \in Proc \ {p} : /\ wpc'[q] = wpc[q] /\ rec'[q] = rec[q]
                                 /\ vpc'[q] = vpc[q] /\ found'[q] = found[q]
                                 /\ verdict'[q] = verdict[q]
    BY <1>10 DEF Crash, Die, NoVerdict, TypeOK, OnlyPartial
  <2>2. open' => \E q \in Proc : wpc'[q] = "writing"
    BY <2>1 DEF CleanInv, FileClean
  <2>3. QED
    BY <2>1, <2>2, FileUntouched, CleanUntouched DEF CleanInv, NoFaultSeen
<1>11. CASE UNCHANGED vars
  <2>1. UNCHANGED <<lines, open, written, acked, wpc, rec, vpc, found, verdict>>
    BY <1>11 DEF vars
  <2>2. open' => \E q \in Proc : wpc'[q] = "writing"
    BY <2>1 DEF CleanInv, FileClean
  <2>3. QED
    BY <2>1, <2>2, FileUntouched, CleanUntouched DEF CleanInv, NoFaultSeen
<1>12. ASSUME NEW p \in Proc
       PROVE  /\ ~ ReadLastFails(p) /\ ~ ShortWrite(p) /\ ~ CrashInWrite(p)
              /\ ~ EnterQuarantine(p) /\ ~ Quarantine(p)
  BY DEF CleanInv, NoFaultSeen, ReadLastFails, ShortWrite, CrashInWrite, OnlyPartial,
         EnterQuarantine, Quarantine
<1>13. QED
  BY <1>1, <1>2, <1>3, <1>4, <1>6, <1>7, <1>8, <1>9, <1>10, <1>11, <1>12
  DEF Next, RecordEntry, VerifyChain

\* What the three theorems that follow rest on.
LEMMA CleanCorrect ==
  ASSUME Exclusive, OnlyPartial
  PROVE  Spec => [](TypeOK /\ ChainInv /\ CleanInv)
<1>1. Init => ChainInv
  BY DEF Init, ChainInv, LockOK, RecStillLast, WritingTail, ReadableChained, Readable
<1>2. TypeOK /\ ChainInv /\ [Next]_vars => ChainInv'
  BY ChainInduction
<1>3. Init => CleanInv
  BY DEF Init, CleanInv, FileClean, RecordsKept, PlaceKept, NoFaultSeen, NoVerdict, Whole
<1>4. TypeOK /\ ChainInv /\ CleanInv /\ [Next]_vars => CleanInv'
  BY CleanInduction
<1>5. QED
  BY <1>1, <1>2, <1>3, <1>4, FileTypeCorrect, PTL DEF Spec

\* A record reported as recorded is never lost, moved or changed, as long as the
\* lock excludes, nothing is torn, short or unreadable, and no verifier runs out
\* of its re-reads; processes may die anywhere else, and readers may see half of
\* a write.
THEOREM AckedKept ==
  ASSUME Exclusive, OnlyPartial
  PROVE  Spec => []NoAckedLost
<1>1. TypeOK /\ ChainInv /\ CleanInv => NoAckedLost
  BY WholeLines DEF CleanInv, RecordsKept, AtItsPlace, NoAckedLost
<1>2. QED
  BY <1>1, CleanCorrect, PTL

\* Under the same conditions verify_chain never cries tampering, though it reads
\* without the lock, may see half of a write and re-reads its last line.
THEOREM NeverAlarmed ==
  ASSUME Exclusive, OnlyPartial
  PROVE  Spec => []NoFalseAlarm
<1>1. CleanInv => NoFalseAlarm
  BY DEF CleanInv, NoFaultSeen, NoFalseAlarm
<1>2. QED
  BY <1>1, CleanCorrect, PTL

-----------------------------------------------------------------------------
(* The append-only log *)

\* Only the end of a write adds a whole line.
LEMMA OnlyWritesChange ==
  ASSUME OnlyPartial, TypeOK, CleanInv, [Next]_vars
  PROVE  Whole' = Whole \/ \E p \in Proc : WriteRecord(p) \/ EndWrite(p)
<1> USE DEF file, writer, reader
<1>1. ASSUME NEW p \in Proc,
             \/ EnterRecord(p) \/ ReadLast(p) \/ Recorded(p) \/ Crash(p)
             \/ VerifyCached(p) \/ VerifyRead(p) \/ VerifyStore(p)
             \/ RetryRepaired(p) \/ RetryFails(p) \/ EnterQuarantine(p)
             \/ ReadLastFails(p)
      PROVE  Whole' = Whole
  <2>1. UNCHANGED <<lines, open>>
    BY <1>1 DEF EnterRecord, ReadLast, Recorded, Crash, VerifyCached, VerifyRead,
                VerifyStore, RetryRepaired, RetryFails, EnterQuarantine, ReadLastFails
  <2>2. QED
    BY <2>1, FileUntouched
<1>2. ASSUME NEW p \in Proc, BeginWrite(p)
      PROVE  Whole' = Whole
  <2>1. /\ lines' = Append(lines, Junk) /\ open' /\ ~ open /\ lines \in Seq(Line)
    BY <1>2 DEF BeginWrite, TypeOK
  <2>2. Whole = lines /\ Whole' = SubSeq(lines', 1, Len(lines') - 1)
    BY <2>1 DEF Whole
  <2>3. SubSeq(Append(lines, Junk), 1, Len(Append(lines, Junk)) - 1) = lines
    BY <2>1, JunkIsLine
  <2>4. QED
    BY <2>1, <2>2, <2>3
<1>3. ASSUME NEW p \in Proc
      PROVE  ~ ShortWrite(p) /\ ~ CrashInWrite(p) /\ ~ Quarantine(p)
  BY DEF CleanInv, NoFaultSeen, ShortWrite, CrashInWrite, Quarantine, OnlyPartial
<1>4. CASE UNCHANGED vars
  BY <1>4, FileUntouched DEF vars
<1>5. QED
  BY <1>1, <1>2, <1>3, <1>4 DEF Next, RecordEntry, VerifyChain

\* The write of a record adds its hash, which is new, to the hashes of the file.
LEMMA WriteAdds ==
  ASSUME OnlyPartial, TypeOK, ChainInv, CleanInv, NEW p \in Proc,
         WriteRecord(p) \/ EndWrite(p)
  PROVE  Log!Next
<1>0. written < MaxWrites
  BY DEF WriteRecord, EndWrite, CanWrite, ChainInv, WritingTail, CleanInv, FileClean
<1> DEFINE h == [i \in DOMAIN Whole |-> Whole[i].hash]
           g == [i \in DOMAIN Whole' |-> Whole'[i].hash]
<1>1. /\ Whole \in Seq(Line) /\ written \in Nat /\ MaxWrites \in Nat
      /\ written < MaxWrites
      /\ \A i \in DOMAIN Whole : Whole[i].hash \in 1 .. written
  BY <1>0, FileAssumption, WholeLines DEF TypeOK, CleanInv, FileClean
<1>2. Whole' = Append(Whole, Signed(p)) /\ Signed(p) \in Line
  BY CleanWrite, SignedType
<1>3. /\ DOMAIN Whole' = 1 .. Len(Whole) + 1 /\ DOMAIN Whole = 1 .. Len(Whole)
      /\ Len(Whole) \in Nat
      /\ \A i \in 1 .. Len(Whole) : Whole'[i] = Whole[i]
      /\ Whole'[Len(Whole) + 1] = Signed(p)
  BY <1>1, <1>2, AppendProperties
<1>4. h \in Seq(Nat) /\ Len(h) = Len(Whole) /\ DOMAIN h = 1 .. Len(Whole)
  <2>1. \A i \in 1 .. Len(Whole) : Whole[i].hash \in Nat
    BY <1>1, <1>3
  <2>2. h \in [1 .. Len(Whole) -> Nat]
    BY <1>3, <2>1
  <2>3. QED
    BY <1>3, <2>2
<1>5. g = Append(h, written + 1)
  <2> DEFINE a == Append(h, written + 1)
  <2>1. /\ a \in Seq(Nat) /\ DOMAIN a = 1 .. Len(Whole) + 1
        /\ \A i \in 1 .. Len(Whole) : a[i] = Whole[i].hash
        /\ a[Len(Whole) + 1] = written + 1
    <3>1. written + 1 \in Nat
      BY <1>1
    <3> HIDE DEF h
    <3>2. /\ a \in Seq(Nat) /\ Len(a) = Len(Whole) + 1
          /\ \A i \in 1 .. Len(Whole) : a[i] = h[i]
          /\ a[Len(Whole) + 1] = written + 1
      BY <1>4, <3>1, AppendProperties
    <3>3. DOMAIN a = 1 .. Len(Whole) + 1
      BY <3>2
    <3>4. \A i \in 1 .. Len(Whole) : h[i] = Whole[i].hash
      BY <1>3 DEF h
    <3>5. QED
      BY <3>2, <3>3, <3>4
  <2>2. Signed(p).hash = written + 1
    BY DEF Signed
  <2> HIDE DEF a
  <2>3. DOMAIN g = DOMAIN a
    BY <1>3, <2>1
  <2>4. \A i \in DOMAIN a : g[i] = a[i]
    BY <1>3, <2>1, <2>2
  <2>5. a = [i \in DOMAIN a |-> a[i]]
    BY <2>1, <1>3
  <2>6. g = a
    BY <2>3, <2>4, <2>5
  <2>7. QED
    BY <2>6 DEF a
<1>6. \A i \in DOMAIN h : h[i] # written + 1
  BY <1>1
<1>7. written + 1 \in 1 .. MaxWrites
  BY <1>1
<1> HIDE DEF h, g
<1>8. \E e \in 1 .. MaxWrites : (\A i \in DOMAIN h : h[i] # e) /\ g = Append(h, e)
  BY <1>5, <1>6, <1>7, Zenon
<1>9. QED
  BY <1>8, Zenon DEF Log!Next, Log!Add, h, g

\* Under those conditions the file is the append-only log: its first state is
\* the empty log, and every step adds one fresh record or changes nothing.
THEOREM IsALog ==
  ASSUME Exclusive, OnlyPartial
  PROVE  Spec => ImplementsLog
<1>1. Init => Log!Init
  <2>1. ASSUME Whole = <<>>
        PROVE  [i \in DOMAIN Whole |-> Whole[i].hash] = <<>>
    BY <2>1
  <2>2. QED
    BY <2>1 DEF Init, Whole, Log!Init
<1>2. TypeOK /\ ChainInv /\ CleanInv /\ [Next]_vars
        => [Log!Next]_([i \in DOMAIN Whole |-> Whole[i].hash])
  <2> SUFFICES ASSUME TypeOK, ChainInv, CleanInv, [Next]_vars
               PROVE  [Log!Next]_([i \in DOMAIN Whole |-> Whole[i].hash])
    OBVIOUS
  <2>1. CASE Whole' = Whole
    BY <2>1
  <2>2. ASSUME NEW p \in Proc, WriteRecord(p) \/ EndWrite(p)
        PROVE  Log!Next
    BY <2>2, WriteAdds
  <2>3. QED
    BY <2>1, <2>2, OnlyWritesChange
<1>3. QED
  BY <1>1, <1>2, CleanCorrect, PTL DEF Spec, ImplementsLog, Log!Spec
=============================================================================
