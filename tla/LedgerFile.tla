----------------------------- MODULE LedgerFile -----------------------------
(***************************************************************************)
(* The hash-chained ledger file of daemon/ledger.py and its two users:     *)
(* record_entry, which appends, and verify_chain, which checks the chain   *)
(* and cuts an unreadable last line off.                                   *)
(*                                                                         *)
(* A member of Proc is one DaemonLedger object: the daemon's, or the one a *)
(* hook makes when it writes the same file itself.  Each may be in the     *)
(* middle of one record_entry (its _write_lock lets no second one in) and  *)
(* of one verify_chain.                                                    *)
(*                                                                         *)
(* A line of the file is a record, of which the chain's fields are kept,   *)
(* or text that does not parse.  A record's HMAC covers its index, its     *)
(* prev_hash and its entry, so the hash is represented by the identity of  *)
(* the write that made it; 0 is the 64 zeros before the first record.      *)
(***************************************************************************)
EXTENDS Naturals, Sequences

CONSTANTS
  Proc,
  Exclusive,    \* the ledger lock excludes (one kernel: LedgerLock)
  Faults,       \* what may go wrong: see below
  MaxWrites,    \* bound on records written
  MaxCrashes,   \* bound on crashes
  Retries       \* re-reads of the last line (3 in the code)

\* "torn"    a process dies inside os.write: a part of the record is in the file
\* "short"   os.write writes a part and returns: its result is not looked at
\* "partial" a reader sees a part of a write that is still going on
\* "readerr" _read_last_record_binary fails to read the file and returns None
\* "late"    no re-read of a verifier finds the last line whole: it comes too
\*           early, or further lines are there by then
ASSUME FileAssumption ==
  /\ Exclusive \in BOOLEAN
  /\ Faults \subseteq {"torn", "short", "partial", "readerr", "late"}
  /\ MaxWrites \in Nat /\ MaxCrashes \in Nat /\ Retries \in Nat

VARIABLES
  lines,        \* the file, line by line
  open,         \* whether its last line lacks the newline
  holders,      \* who is inside the ledger lock
  wpc, rec,     \* record_entry: where it is, the record it is making
  vpc, found,   \* verify_chain: where it is, what its read of the file showed
  cached,       \* cached[p]: count of the cached VALID result, or NoCache
  verdict,      \* the last result of verify_chain
  written,      \* how many records were written: the last hash given out
  acked,        \* history: the records reported as recorded
  crashes       \* bound: crashes so far

file   == <<lines, open>>
writer == <<wpc, rec>>
reader == <<vpc, found, cached, verdict>>
vars   == <<lines, open, holders, wpc, rec, vpc, found, cached, verdict,
            written, acked, crashes>>

Line == [parses : BOOLEAN, index : Nat, prev : Nat, hash : Nat]

Junk == [parses |-> FALSE, index |-> 0, prev |-> 0, hash |-> 0]

\* A record before it is signed.
Unsigned(i, h) == [parses |-> TRUE, index |-> i, prev |-> h, hash |-> 0]

Genesis == Unsigned(0, 0)

NoCache == MaxWrites + 1

WPC == {"idle", "read", "write", "writing", "return"}

VPC == {"idle", "retry", "cut", "cache"}

\* What verify_chain has found: how many lines are linked, the hash of the last
\* of them, and the re-reads left of an unreadable last line.
Found == [kind : {"none", "valid", "tail"}, count : Nat, prev : Nat, left : Nat]

Verdict == [ok : BOOLEAN, count : Nat]

NoVerdict == [ok |-> TRUE, count |-> 0]

Idle == [kind |-> "none", count |-> 0, prev |-> 0, left |-> 0]

-----------------------------------------------------------------------------
(* The file *)

Readable(ls) == {i \in DOMAIN ls : ls[i].parses}

\* Mutants: the first readable line is taken for the last; the index is kept.
IsFirstReadable(ls, i) ==
  i \in Readable(ls) /\ \A j \in Readable(ls) : i <= j

SameIndexAgain(ls) ==
  IF Readable(ls) = {} THEN Genesis
  ELSE LET i == CHOOSE i \in Readable(ls) : \A j \in Readable(ls) : j <= i
       IN  Unsigned(ls[i].index, ls[i].hash)

\* _read_last_record_binary goes backwards to the last line that parses; the
\* new record gets its index plus one and its hash, or index 0 and 64 zeros.
IsLastReadable(ls, i) ==
  i \in Readable(ls) /\ \A j \in Readable(ls) : j <= i

NextOf(ls) ==
  IF Readable(ls) = {} THEN Genesis
  ELSE LET i == CHOOSE i \in Readable(ls) : IsLastReadable(ls, i)
       IN  Unsigned(ls[i].index + 1, ls[i].hash)

\* Mutant: no O_APPEND, the last line is overwritten.
Overwritten(l) ==
  IF lines = <<>> THEN <<l>> ELSE [lines EXCEPT ![Len(lines)] = l]

\* O_APPEND: text goes behind what is there, on the same line when the last
\* line has no newline; two pieces glued together do not parse.
Glued(l) ==
  IF open THEN [lines EXCEPT ![Len(lines)] = Junk] ELSE Append(lines, l)

\* A write or truncate holds the file's inode lock.
InodeFree == \A p \in Proc : wpc[p] # "writing"

\* Every change of the file changes its (mtime, size): no cached result of it
\* counts any more.
Touched == cached' = [p \in Proc |-> NoCache]

MayEnter == Exclusive => holders = {}

-----------------------------------------------------------------------------
(* record_entry *)

Signed(p) == [parses |-> TRUE, index |-> rec[p].index, prev |-> rec[p].prev,
              hash |-> written + 1]

Sign(p) == /\ written' = written + 1
           /\ rec' = [rec EXCEPT ![p] = Signed(p)]

EnterRecord(p) ==
  /\ wpc[p] = "idle"
  /\ written < MaxWrites
  /\ MayEnter
  /\ holders' = holders \cup {<<p, "w">>}
  /\ wpc' = [wpc EXCEPT ![p] = "read"]
  /\ UNCHANGED <<file, rec, reader, written, acked, crashes>>

ReadLast(p) ==
  /\ wpc[p] = "read"
  /\ rec' = [rec EXCEPT ![p] = NextOf(lines)]
  /\ wpc' = [wpc EXCEPT ![p] = "write"]
  /\ UNCHANGED <<file, holders, reader, written, acked, crashes>>

ReadLastFails(p) ==
  /\ "readerr" \in Faults
  /\ wpc[p] = "read"
  /\ rec' = [rec EXCEPT ![p] = Genesis]
  /\ wpc' = [wpc EXCEPT ![p] = "write"]
  /\ UNCHANGED <<file, holders, reader, written, acked, crashes>>

CanWrite(p) == wpc[p] = "write" /\ written < MaxWrites /\ InodeFree

WriteRecord(p) ==
  /\ CanWrite(p)
  /\ lines' = Glued(Signed(p))
  /\ open' = FALSE
  /\ Sign(p)
  /\ wpc' = [wpc EXCEPT ![p] = "return"]
  /\ Touched
  /\ UNCHANGED <<holders, vpc, found, verdict, acked, crashes>>

\* A part of the record is in the file, up to and including all but its newline.
PutFragment(p) ==
  /\ \E l \in {Junk, Signed(p)} : lines' = Glued(l)
  /\ open' = TRUE
  /\ Touched

\* os.write returned less than it was given, and fsync follows all the same.
ShortWrite(p) ==
  /\ "short" \in Faults
  /\ CanWrite(p)
  /\ PutFragment(p)
  /\ Sign(p)
  /\ wpc' = [wpc EXCEPT ![p] = "return"]
  /\ UNCHANGED <<holders, vpc, found, verdict, acked, crashes>>

\* The first half of a write a reader may see, and the second.
BeginWrite(p) ==
  /\ "partial" \in Faults
  /\ CanWrite(p)
  /\ ~ open
  /\ lines' = Append(lines, Junk)
  /\ open' = TRUE
  /\ wpc' = [wpc EXCEPT ![p] = "writing"]
  /\ Touched
  /\ UNCHANGED <<holders, rec, vpc, found, verdict, written, acked, crashes>>

EndWrite(p) ==
  /\ wpc[p] = "writing"
  /\ lines' = [lines EXCEPT ![Len(lines)] = Signed(p)]
  /\ open' = FALSE
  /\ Sign(p)
  /\ wpc' = [wpc EXCEPT ![p] = "return"]
  /\ Touched
  /\ UNCHANGED <<holders, vpc, found, verdict, acked, crashes>>

\* The lock is released, the cached result dropped and {"status": "recorded",
\* "index", "hash"} returned.
Recorded(p) ==
  /\ wpc[p] = "return"
  /\ holders' = holders \ {<<p, "w">>}
  /\ cached' = [cached EXCEPT ![p] = NoCache]
  /\ acked' = acked \cup {rec[p]}
  /\ rec' = [rec EXCEPT ![p] = Genesis]
  /\ wpc' = [wpc EXCEPT ![p] = "idle"]
  /\ UNCHANGED <<file, vpc, found, verdict, written, crashes>>

-----------------------------------------------------------------------------
(* verify_chain *)

\* Mutant: expected_index starts from 1.
LinkedFromOne(ls, i) ==
  /\ ls[i].parses
  /\ ls[i].index = i
  /\ ls[i].prev = IF i = 1 THEN 0 ELSE ls[i - 1].hash

Linked(ls, i) ==
  /\ ls[i].parses
  /\ ls[i].index = i - 1
  /\ ls[i].prev = IF i = 1 THEN 0 ELSE ls[i - 1].hash

\* One pass over the lines read: VALID, an error that ends it at once, or an
\* unreadable last line.
Check(ls) ==
  IF \A i \in DOMAIN ls : Linked(ls, i)
  THEN [kind |-> "valid", count |-> Len(ls), prev |-> 0, left |-> 0]
  ELSE LET b == CHOOSE b \in DOMAIN ls :
                  ~ Linked(ls, b) /\ \A i \in 1 .. b - 1 : Linked(ls, i)
       IN  [kind  |-> IF ~ ls[b].parses /\ b = Len(ls) THEN "tail" ELSE "broken",
            count |-> b - 1,
            prev  |-> IF b = 1 THEN 0 ELSE ls[b - 1].hash,
            left  |-> Retries]

Answer(p, ok, n) ==
  /\ verdict' = [verdict EXCEPT ![p] = [ok |-> ok, count |-> n]]
  /\ vpc' = [vpc EXCEPT ![p] = "idle"]
  /\ found' = [found EXCEPT ![p] = Idle]

\* The cached result of a file whose (mtime, size) has not changed.
VerifyCached(p) ==
  /\ vpc[p] = "idle"
  /\ cached[p] # NoCache
  /\ Answer(p, TRUE, cached[p])
  /\ UNCHANGED <<file, holders, writer, cached, written, acked, crashes>>

\* The file is read without the lock.
VerifyRead(p) ==
  /\ vpc[p] = "idle"
  /\ cached[p] = NoCache
  /\ LET c == Check(lines) IN
       \/ /\ c.kind = "broken"
          /\ Answer(p, FALSE, c.count)
       \/ /\ c.kind # "broken"
          /\ found' = [found EXCEPT ![p] = c]
          /\ vpc' = [vpc EXCEPT ![p] = IF c.kind = "valid" THEN "cache" ELSE "retry"]
          /\ UNCHANGED verdict
  /\ UNCHANGED <<file, holders, writer, cached, written, acked, crashes>>

\* After a back-off, everything behind the offset of the last line is read anew
\* and must be one JSON value.
Rereads(p) == /\ Len(lines) = found[p].count + 1
              /\ lines[Len(lines)].parses

RetryRepaired(p) ==
  /\ vpc[p] = "retry"
  /\ found[p].left > 0
  /\ Rereads(p)
  /\ LET l == lines[Len(lines)] IN
       \/ /\ l.index = found[p].count /\ l.prev = found[p].prev
          /\ found' = [found EXCEPT ![p].count = @ + 1]
          /\ vpc' = [vpc EXCEPT ![p] = "cache"]
          /\ UNCHANGED verdict
       \/ /\ ~ (l.index = found[p].count /\ l.prev = found[p].prev)
          /\ Answer(p, FALSE, found[p].count)
  /\ UNCHANGED <<file, holders, writer, cached, written, acked, crashes>>

RetryFails(p) ==
  /\ vpc[p] = "retry"
  /\ found[p].left > 0
  /\ ~ Rereads(p)
  /\ found' = [found EXCEPT ![p].left = @ - 1]
  /\ UNCHANGED <<file, holders, writer, vpc, cached, verdict, written, acked, crashes>>

\* No re-read helped: take the lock and cut the file at the offset remembered.
EnterQuarantine(p) ==
  /\ "late" \in Faults
  /\ vpc[p] = "retry"
  /\ found[p].left = 0
  /\ MayEnter
  /\ holders' = holders \cup {<<p, "v">>}
  /\ vpc' = [vpc EXCEPT ![p] = "cut"]
  /\ UNCHANGED <<file, writer, found, cached, verdict, written, acked, crashes>>

\* tf.truncate() at an offset behind the end of the file pads it with NUL bytes.
Truncated(n) ==
  IF Len(lines) >= n THEN SubSeq(lines, 1, n)
  ELSE IF open THEN [lines EXCEPT ![Len(lines)] = Junk]
  ELSE Append(lines, Junk)

Quarantine(p) ==
  /\ vpc[p] = "cut"
  /\ InodeFree
  /\ lines' = Truncated(found[p].count)
  /\ open' = (Len(lines) < found[p].count)
  /\ Touched
  /\ holders' = holders \ {<<p, "v">>}
  /\ vpc' = [vpc EXCEPT ![p] = "cache"]
  /\ UNCHANGED <<writer, found, verdict, written, acked, crashes>>

\* The result is cached under the (mtime, size) the file has by now.
VerifyStore(p) ==
  /\ vpc[p] = "cache"
  /\ cached' = [cached EXCEPT ![p] = found[p].count]
  /\ Answer(p, TRUE, found[p].count)
  /\ UNCHANGED <<file, holders, writer, written, acked, crashes>>

-----------------------------------------------------------------------------
(* A process dies, which frees its lock in the end (LedgerLock), and starts
   again with a new DaemonLedger.  In the middle of a write it leaves a part. *)

Die(p) ==
  /\ crashes < MaxCrashes
  /\ crashes' = crashes + 1
  /\ holders' = holders \ {<<p, "w">>, <<p, "v">>}
  /\ wpc' = [wpc EXCEPT ![p] = "idle"]
  /\ rec' = [rec EXCEPT ![p] = Genesis]
  /\ vpc' = [vpc EXCEPT ![p] = "idle"]
  /\ found' = [found EXCEPT ![p] = Idle]
  /\ verdict' = [verdict EXCEPT ![p] = NoVerdict]
  /\ UNCHANGED acked

Crash(p) ==
  /\ wpc[p] # "idle" \/ vpc[p] # "idle"
  /\ wpc[p] = "writing" => "torn" \in Faults
  /\ Die(p)
  /\ cached' = [cached EXCEPT ![p] = NoCache]
  /\ UNCHANGED <<file, written>>

CrashInWrite(p) ==
  /\ "torn" \in Faults
  /\ CanWrite(p)
  /\ Die(p)
  /\ PutFragment(p)
  /\ written' = written + 1

Init ==
  /\ lines = <<>>
  /\ open = FALSE
  /\ holders = {}
  /\ wpc = [p \in Proc |-> "idle"]
  /\ rec = [p \in Proc |-> Genesis]
  /\ vpc = [p \in Proc |-> "idle"]
  /\ found = [p \in Proc |-> Idle]
  /\ cached = [p \in Proc |-> NoCache]
  /\ verdict = [p \in Proc |-> NoVerdict]
  /\ written = 0
  /\ acked = {}
  /\ crashes = 0

RecordEntry(p) ==
  \/ EnterRecord(p) \/ ReadLast(p) \/ ReadLastFails(p) \/ WriteRecord(p)
  \/ ShortWrite(p) \/ BeginWrite(p) \/ EndWrite(p) \/ Recorded(p)

VerifyChain(p) ==
  \/ VerifyCached(p) \/ VerifyRead(p) \/ RetryRepaired(p) \/ RetryFails(p)
  \/ EnterQuarantine(p) \/ Quarantine(p) \/ VerifyStore(p)

Next ==
  \E p \in Proc : RecordEntry(p) \/ VerifyChain(p) \/ Crash(p) \/ CrashInWrite(p)

Spec == Init /\ [][Next]_vars
-----------------------------------------------------------------------------
(* Properties *)

TypeOK ==
  /\ lines \in Seq(Line)
  /\ open \in BOOLEAN
  /\ open => lines # <<>>
  /\ holders \subseteq Proc \X {"w", "v"}
  /\ wpc \in [Proc -> WPC]
  /\ rec \in [Proc -> Line]
  /\ vpc \in [Proc -> VPC]
  /\ found \in [Proc -> Found]
  /\ cached \in [Proc -> Nat]
  /\ verdict \in [Proc -> Verdict]
  /\ written \in Nat
  /\ acked \subseteq Line
  /\ crashes \in Nat

\* A record made when the last one could not be read starts anew.
StartsAnew(r) == "readerr" \in Faults /\ r.index = 0 /\ r.prev = 0

\* Record i of ls links to what precedes it among the readable lines.
LinksBack(ls, i) ==
  \/ /\ \A j \in Readable(ls) : i <= j
     /\ ls[i].index = 0 /\ ls[i].prev = 0
  \/ \E j \in Readable(ls) :
       /\ j < i
       /\ \A k \in Readable(ls) : k <= j \/ i <= k
       /\ ls[i].index = ls[j].index + 1
       /\ ls[i].prev = ls[j].hash
  \/ StartsAnew(ls[i])

\* The lines that parse always form one chain, whatever was torn, glued or cut:
\* each readable record carries the index and the hash that follow from the
\* readable one before it.  A fork never appears, and a restart from index 0 and
\* 64 zeros only where the last record could not be read.
ReadableChained == \A i \in Readable(lines) : LinksBack(lines, i)

\* r is the record that comes next in ls.
ComesNext(r, ls) ==
  \/ r.index = NextOf(ls).index /\ r.prev = NextOf(ls).prev
  \/ StartsAnew(r)

\* What a process read under the lock is still the end of the chain when it
\* writes.
RecStillLast ==
  \A p \in Proc : wpc[p] \in {"write", "writing"} => ComesNext(rec[p], lines)

\* The lock is held by whoever is inside record_entry or the quarantine, and by
\* one of them at a time.
LockOK ==
  /\ \A p \in Proc : wpc[p] # "idle" <=> <<p, "w">> \in holders
  /\ \A p \in Proc : vpc[p] = "cut" <=> <<p, "v">> \in holders
  /\ \A a, b \in holders : a = b

\* A write in progress is the unreadable end of the file.
WritingTail ==
  \A p \in Proc : wpc[p] = "writing" => open /\ ~ lines[Len(lines)].parses

\* What is inductive about the chain.
ChainInv == LockOK /\ RecStillLast /\ WritingTail /\ ReadableChained

\* A record that record_entry reported as recorded is in the file, readable, at
\* the index it was given.
NoAckedLost ==
  \A r \in acked : /\ r.index + 1 \in DOMAIN lines
                   /\ lines[r.index + 1] = r

\* verify_chain never reports a ledger that only this code has written to as
\* tampered with, though it may see half of a write.
NoFalseAlarm == \A p \in Proc : verdict[p].ok

\* The lines written completely: all but one that is being written.
Whole == IF open THEN SubSeq(lines, 1, Len(lines) - 1) ELSE lines

\* What is inductive about a file of which readers may see half of a write, and
\* no more goes wrong: every whole line links to the one before it, a record is
\* at its place from the end of its write onwards, and the place a verifier
\* remembers is one in the chain.
AtItsPlace(r) ==
  /\ r.index + 1 \in DOMAIN Whole
  /\ Whole[r.index + 1] = r

FileClean ==
  /\ open => written < MaxWrites /\ \E p \in Proc : wpc[p] = "writing"
  /\ \A i \in DOMAIN Whole : Linked(Whole, i) /\ Whole[i].hash \in 1 .. written

RecordsKept ==
  /\ \A r \in acked : AtItsPlace(r)
  /\ \A p \in Proc : wpc[p] = "return" => AtItsPlace(rec[p])

PlaceKept ==
  \A p \in Proc : vpc[p] = "retry" =>
    \/ found[p].count = 0 /\ found[p].prev = 0
    \/ /\ found[p].count \in DOMAIN Whole
       /\ found[p].prev = Whole[found[p].count].hash

NoFaultSeen == \A p \in Proc : vpc[p] # "cut" /\ verdict[p].ok

CleanInv == FileClean /\ RecordsKept /\ PlaceKept /\ NoFaultSeen

\* The file is the append-only log its readers take it for, as long as none of
\* them cuts it.
Log == INSTANCE AppendLog WITH
         Entry <- 1 .. MaxWrites,
         log <- [i \in DOMAIN Whole |-> Whole[i].hash]

ImplementsLog == Log!Spec
=============================================================================
