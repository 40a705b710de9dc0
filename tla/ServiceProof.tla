---------------------------- MODULE ServiceProof ----------------------------
(***************************************************************************)
(* Proof of what sasse work and sasse tick promise, for any number of      *)
(* commands that open the database, any number of migrations, any output   *)
(* of the gate and any cap on its log, any unit of size, any number of     *)
(* ticks and any patience.                                                 *)
(*                                                                         *)
(* Each part of the service has an invariant of its own, and a lemma says  *)
(* which steps touch that part.  Whoever reads an old version of the       *)
(* database cannot get past its last script once that was run; the log is  *)
(* both ends of what was read so far after every read; the loop counts the *)
(* failures that the past ends in; and every checkout git prints, line by  *)
(* line, is among those the guard looked at.                               *)
(***************************************************************************)
EXTENDS ServiceProperties, Recursion, SequenceTheorems, TLAPS

-----------------------------------------------------------------------------
(* Sizes.                                                                  *)

\* A size that a unit divides is that many units.
LEMMA DividesExactly ==
    ASSUME NEW unit \in Nat \ {0}, NEW bytes \in Nat, bytes % unit = 0
    PROVE  /\ bytes \div unit \in Nat
           /\ (bytes \div unit) * unit = bytes
           /\ bytes \div unit <= bytes
  OBVIOUS

\* What one unit prints reads back, whenever that unit divides the size.
LEMMA UnitReadsBack ==
    ASSUME NEW bytes \in Size, NEW suffix \in DOMAIN Unit,
           Unit[suffix] \in Nat \ {0}, bytes % Unit[suffix] = 0
    PROVE  Parsed([number |-> bytes \div Unit[suffix], suffix |-> suffix]) = bytes
<1> DEFINE unit == Unit[suffix]
<1>1. bytes \in Nat /\ bytes <= MaxBytes  BY SizeAssumption DEF Size
<1>2. /\ bytes \div unit \in Nat /\ bytes \div unit <= bytes
      /\ (bytes \div unit) * unit = bytes
  <2> HIDE DEF unit
  <2> unit \in Nat \ {0} /\ bytes % unit = 0  BY DEF unit
  <2> QED  BY <1>1, DividesExactly
<1>3. bytes \div unit \in Size  BY <1>1, <1>2, SizeAssumption DEF Size
<1> HIDE DEF unit
<1>4. unit = Unit[suffix]  BY DEF unit
<1> QED  BY <1>2, <1>3, <1>4 DEF Parsed

\* No unit of bytes.rs is zero.
LEMMA UnitsArePositive ==
    \A suffix \in DOMAIN Unit : Unit[suffix] \in Nat \ {0}
<1>1. KB \in Nat \ {0}  BY SizeAssumption DEF KB
<1>2. MB \in Nat \ {0}  BY <1>1, SizeAssumption DEF MB
<1>3. GB \in Nat \ {0}  BY <1>2, SizeAssumption DEF GB
<1> QED  BY <1>1, <1>2, <1>3 DEF Unit

\* Whichever unit is chosen to print a size, it divides the size.
LEMMA EverySizeReadsBack == \A bytes \in Size : Parsed(Shown(bytes)) = bytes
<1> SUFFICES ASSUME NEW bytes \in Size PROVE Parsed(Shown(bytes)) = bytes
  OBVIOUS
<1>1. bytes \in Nat /\ bytes % 1 = 0  BY SizeAssumption DEF Size
<1>2. /\ Unit["B"] = 1 /\ Unit["KB"] = KB /\ Unit["MB"] = MB /\ Unit["GB"] = GB
      /\ DOMAIN Unit = {"B", "KB", "MB", "GB"}
  BY DEF Unit
<1>3. PICK suffix \in DOMAIN Unit :
         /\ bytes % Unit[suffix] = 0
         /\ Shown(bytes) = [number |-> bytes \div Unit[suffix], suffix |-> suffix]
  <2>1. CASE Divides(GB, bytes)  BY <1>2, <2>1 DEF Shown, Divides
  <2>2. CASE Divides(MB, bytes) /\ ~Divides(GB, bytes)
    BY <1>2, <2>2 DEF Shown, Divides
  <2>3. CASE Divides(KB, bytes) /\ ~Divides(MB, bytes) /\ ~Divides(GB, bytes)
    BY <1>2, <2>3 DEF Shown, Divides
  <2>4. CASE ~Divides(KB, bytes) /\ ~Divides(MB, bytes) /\ ~Divides(GB, bytes)
    BY <1>1, <1>2, <2>4 DEF Shown, Divides
  <2> QED  BY <2>1, <2>2, <2>3, <2>4
<1> QED  BY <1>3, UnitReadsBack, UnitsArePositive

-----------------------------------------------------------------------------
(* The database.                                                           *)

\* A command whose version was current when it took the lock has made of the
\* schema what its scripts say, one by one.  One that read an old version
\* finds the last script run already, and never gets past it.
Drafting(p) ==
    \/ opening[p].draft = AtVersion(opening[p].seen)
    \/ /\ opening[p].seen < Migrations
       /\ opening[p].draft.ran[Migrations] > 0

\* The schema is what some version of the program made of it; one transaction at
\* most is open; whoever waits for the lock read the version as it still is, or
\* the scripts were all run since.
DatabaseInv ==
    /\ schema \in Schema
    /\ opening \in [Opener -> Opening]
    /\ schema = AtVersion(schema.version)
    /\ \A p, q \in Opener :
          opening[p].pc = "migrate" /\ opening[q].pc = "migrate" => p = q
    /\ \A p \in Opener :
          /\ opening[p].pc = "open" => schema.version = Migrations
          /\ opening[p].pc = "lock" =>
                /\ opening[p].seen < Migrations
                /\ schema.version \in {opening[p].seen, Migrations}
          /\ opening[p].pc = "migrate" => Drafting(p)

\* A database at a version has run that many scripts, once each.
LEMMA VersionsAreSchemas ==
    \A version \in 0..Migrations :
        /\ AtVersion(version) \in Schema
        /\ AtVersion(version).version = version
        /\ \A m \in 1..Migrations :
              AtVersion(version).ran[m] = IF m <= version THEN 1 ELSE 0
  BY DatabaseAssumption DEF AtVersion, Schema

\* A command outside a transaction holds nothing.
LEMMA NobodyHolds ==
    ASSUME NEW pc \in {"start", "open", "failed", "closed", "lock"}
    PROVE  At(pc) \in Opening /\ At(pc).pc = pc /\ At(pc).seen = 0
  BY VersionsAreSchemas, DatabaseAssumption DEF At, Opening

\* The invariant holds of a database of any age before anybody opens it.
LEMMA DatabaseInit0 == DatabaseInit => DatabaseInv
<1> SUFFICES ASSUME DatabaseInit PROVE DatabaseInv
  OBVIOUS
<1>1. PICK version \in 0..Migrations : schema = AtVersion(version)
  BY DEF DatabaseInit
<1>2. schema \in Schema /\ schema = AtVersion(schema.version)
  BY <1>1, VersionsAreSchemas
<1>3. opening = [p \in Opener |-> At("start")]
  BY DEF DatabaseInit
<1>4. /\ opening \in [Opener -> Opening]
      /\ \A p \in Opener : opening[p].pc = "start"
  BY <1>3, NobodyHolds
<1> QED  BY <1>2, <1>4 DEF DatabaseInv

\* Reading the version outside the lock.
LEMMA ReadKeepsDatabase ==
    ASSUME DatabaseInv, NEW p \in Opener, ReadVersion(p)
    PROVE  DatabaseInv'
<1>1. CASE schema.version >= Migrations
  <2>1. opening' = [opening EXCEPT ![p] = At("open")] /\ schema' = schema
    BY <1>1 DEF ReadVersion
  <2>2. schema.version = Migrations
    BY <1>1, DatabaseAssumption DEF DatabaseInv, Schema
  <2> QED  BY <2>1, <2>2, NobodyHolds DEF DatabaseInv, Drafting
<1>2. CASE ~(schema.version >= Migrations)
  <2> DEFINE found == [At("lock") EXCEPT !.seen = schema.version]
  <2>1. opening' = [opening EXCEPT ![p] = found] /\ schema' = schema
    BY <1>2 DEF ReadVersion
  <2>2. schema.version \in 0..Migrations /\ schema.version < Migrations
    BY <1>2, DatabaseAssumption DEF DatabaseInv, Schema
  <2>3. At("lock") \in Opening /\ At("lock").pc = "lock"
    BY NobodyHolds
  <2>4. /\ found \in Opening /\ found.pc = "lock"
        /\ found.seen = schema.version /\ found.seen < Migrations
    BY ONLY <2>2, <2>3 DEF Opening
  <2> HIDE DEF found
  <2> QED  BY <2>1, <2>4 DEF DatabaseInv, Drafting
<1> QED  BY <1>1, <1>2

\* The schema may have moved on since the version was read, but then all the way,
\* for there is no commit between two scripts.
LEMMA LockKeepsDatabase ==
    ASSUME DatabaseInv, NEW p \in Opener, Lock(p)
    PROVE  DatabaseInv'
<1> DEFINE holding == [opening[p] EXCEPT !.pc = "migrate", !.draft = schema]
<1>1. opening' = [opening EXCEPT ![p] = holding] /\ schema' = schema
  BY DEF Lock, DatabaseInv
<1>2. /\ opening[p].pc = "lock" /\ \A q \in Opener : opening[q].pc # "migrate"
      /\ opening[p] \in Opening
  BY DEF Lock, Locked, DatabaseInv
<1>3. /\ holding \in Opening /\ holding.pc = "migrate"
      /\ holding.seen = opening[p].seen /\ holding.draft = schema
  BY <1>2 DEF Opening, DatabaseInv
<1>4. Drafting(p)'
  <2>1. opening'[p] = holding  BY <1>1 DEF DatabaseInv
  <2>2. CASE schema.version = opening[p].seen
    BY <1>3, <2>1, <2>2 DEF DatabaseInv, Drafting
  <2>3. CASE schema.version = Migrations /\ opening[p].seen < Migrations
    <3>1. Migrations \in 1..Migrations
      BY <1>2, <2>3, DatabaseAssumption DEF Opening
    <3>2. schema.ran[Migrations] = 1
      BY <2>3, <3>1, VersionsAreSchemas, DatabaseAssumption DEF DatabaseInv
    <3> QED  BY <1>3, <2>1, <2>3, <3>2 DEF Drafting
  <2> QED  BY <1>2, <2>2, <2>3 DEF DatabaseInv
<1> HIDE DEF holding
<1> QED  BY <1>1, <1>2, <1>3, <1>4 DEF DatabaseInv, Drafting

\* A script counts itself, and no other.
LEMMA ScriptIsCounted ==
    ASSUME NEW m \in 1..Migrations, NEW draft \in Schema
    PROVE  /\ Applied(m, draft) \in Schema
           /\ Applied(m, draft).version = m
           /\ \A n \in 1..Migrations :
                 Applied(m, draft).ran[n] =
                     IF n = m THEN draft.ran[m] + 1 ELSE draft.ran[n]
  BY DatabaseAssumption DEF Applied, Schema

\* The next script makes of a version the next one.
LEMMA ScriptsInOrder ==
    ASSUME NEW m \in 1..Migrations
    PROVE  Applied(m, AtVersion(m - 1)) = AtVersion(m)
<1>1. PICK before : before = AtVersion(m - 1)
  OBVIOUS
<1>2. /\ before \in Schema
      /\ \A n \in 1..Migrations : before.ran[n] = IF n <= m - 1 THEN 1 ELSE 0
  BY <1>1, VersionsAreSchemas, DatabaseAssumption
<1>3. before.ran \in [1..Migrations -> Nat]
  BY <1>2 DEF Schema
<1>4. [before.ran EXCEPT ![m] = @ + 1]
         = [n \in 1..Migrations |-> IF n <= m THEN 1 ELSE 0]
  <2> DEFINE after == [n \in 1..Migrations |-> IF n <= m THEN 1 ELSE 0]
  <2>1. \A n \in 1..Migrations :
           [before.ran EXCEPT ![m] = @ + 1][n] = after[n]
    BY <1>2, <1>3, DatabaseAssumption
  <2> QED  BY <1>3, <2>1
<1> QED  BY <1>1, <1>4 DEF Applied, AtVersion

\* A script of a command with an old version either clashes or is not the last
\* one, so that the last one is always there to clash with.
LEMMA ScriptKeepsDatabase ==
    ASSUME DatabaseInv, NEW p \in Opener, ApplyNext(p)
    PROVE  DatabaseInv'
<1>1. PICK was : was = opening[p]
  OBVIOUS
<1>2. PICK next : next = opening[p].seen + 1
  OBVIOUS
<1>3. was \in Opening /\ was.seen \in 0..Migrations
  BY <1>1 DEF DatabaseInv, Opening
<1>4. /\ was.pc = "migrate" /\ next \in 1..Migrations /\ was.seen = next - 1
      /\ next \in Rerunnable \/ was.draft.ran[next] = 0
      /\ schema' = schema
  BY <1>1, <1>2, <1>3, DatabaseAssumption DEF ApplyNext, NextScript, Runs
<1>5. was.draft \in Schema
  BY <1>3 DEF Opening
<1>6. PICK draft : draft = Applied(next, was.draft)
  OBVIOUS
<1>7. PICK done : done = [was EXCEPT !.seen = next, !.draft = draft]
  OBVIOUS
<1>8. draft \in Schema
  BY <1>4, <1>5, <1>6, ScriptIsCounted
<1>9. /\ done \in Opening /\ done.pc = "migrate" /\ done.seen = next
      /\ done.draft = draft
  <2>1. next \in 0..Migrations  BY <1>4, DatabaseAssumption
  <2> QED  BY ONLY <1>3, <1>4, <1>7, <1>8, <2>1 DEF Opening
<1>10. opening' = [opening EXCEPT ![p] = done]
  BY <1>1, <1>2, <1>6, <1>7 DEF ApplyNext, NextScript, DatabaseInv
<1>11. /\ opening'[p] = done
       /\ opening' \in [Opener -> Opening]
       /\ \A q \in Opener : q # p => opening'[q] = opening[q]
  BY <1>9, <1>10 DEF DatabaseInv
<1>12. \/ draft = AtVersion(next)
       \/ next < Migrations /\ draft.ran[Migrations] > 0
  <2>1. CASE was.draft = AtVersion(was.seen)
    BY <1>4, <1>6, <2>1, ScriptsInOrder
  <2>2. CASE was.seen < Migrations /\ was.draft.ran[Migrations] > 0
    <3>1. next # Migrations
      BY <1>4, <2>2, LastScriptAssumption
    <3>2. next < Migrations
      BY <1>4, <3>1, DatabaseAssumption
    <3>3. draft.ran[Migrations] = was.draft.ran[Migrations]
      BY <1>4, <1>5, <1>6, <3>1, ScriptIsCounted, DatabaseAssumption
    <3> QED  BY <2>2, <3>2, <3>3
  <2> QED  BY <1>1, <1>4, <2>1, <2>2 DEF DatabaseInv, Drafting
<1> QED  BY <1>1, <1>4, <1>9, <1>11, <1>12 DEF DatabaseInv, Drafting

\* Only a command whose version was current gets to commit.
LEMMA CommitKeepsDatabase ==
    ASSUME DatabaseInv, NEW p \in Opener, Commit(p)
    PROVE  DatabaseInv'
<1>1. /\ opening[p].pc = "migrate" /\ opening[p] \in Opening
      /\ opening[p].seen = Migrations
      /\ schema' = opening[p].draft
      /\ opening' = [opening EXCEPT ![p] = At("open")]
  BY DatabaseAssumption DEF Commit, NextScript, DatabaseInv, Opening
<1>2. opening[p].draft = AtVersion(Migrations)
  BY <1>1, DatabaseAssumption DEF DatabaseInv, Drafting
<1>3. /\ schema' \in Schema /\ schema'.version = Migrations
      /\ schema' = AtVersion(Migrations)
  BY <1>1, <1>2, VersionsAreSchemas, DatabaseAssumption
<1>4. /\ opening'[p] = At("open") /\ opening' \in [Opener -> Opening]
      /\ \A q \in Opener : q # p => opening'[q] = opening[q]
  BY <1>1, NobodyHolds DEF DatabaseInv
<1>5. \A q \in Opener : opening'[q].pc # "migrate"
  BY <1>1, <1>4, NobodyHolds DEF DatabaseInv
<1> QED  BY <1>3, <1>4, <1>5, NobodyHolds DEF DatabaseInv, Drafting

\* A command that fails, is run again, or has ended holds nothing.
LEMMA LeavingKeepsDatabase ==
    ASSUME DatabaseInv, schema' = schema,
           NEW p \in Opener, NEW pc \in {"start", "failed", "closed"},
           opening' = [opening EXCEPT ![p] = At(pc)]
    PROVE  DatabaseInv'
  BY NobodyHolds DEF DatabaseInv, Drafting

\* The other commands have ended, all of them outside a transaction.
LEMMA AllClosedKeepDatabase ==
    ASSUME DatabaseInv, schema' = schema, NEW self \in Opener,
           opening[self].pc = "open",
           opening' = [p \in Opener |-> IF p = self THEN opening[p] ELSE At("closed")]
    PROVE  DatabaseInv'
  BY NobodyHolds DEF DatabaseInv, Drafting

-----------------------------------------------------------------------------
(* The gate and its log.                                                   *)

\* The smaller of two numbers.
LEMMA MinOfTwo ==
    ASSUME NEW a \in Int, NEW b \in Int
    PROVE  Min({a, b}) = IF a <= b THEN a ELSE b
  BY DEF Min

\* The greater of two numbers.
LEMMA MaxOfTwo ==
    ASSUME NEW a \in Int, NEW b \in Int
    PROVE  Max({a, b}) = IF a >= b THEN a ELSE b
  BY DEF Max

\* However small the cap, each end of the log has room for a byte.
LEMMA HalfIsPositive ==
    ASSUME NEW cap \in Nat PROVE Half(cap) \in Nat \ {0}
<1>1. cap \div 2 \in Nat  OBVIOUS
<1> QED  BY <1>1, MaxOfTwo DEF Half

\* The bytes of the output from one to another; none if to is from - 1.
AreBytes(seq, from, to) ==
    /\ seq \in Seq(Nat) /\ Len(seq) = to - from + 1
    /\ \A i \in 1..(to - from + 1) : seq[i] = from + i - 1

\* A stretch of the output is one sequence.
LEMMA BytesAreEqual ==
    ASSUME NEW from \in Nat, NEW to \in Nat, NEW s, NEW t,
           AreBytes(s, from, to), AreBytes(t, from, to)
    PROVE  s = t
<1>1. /\ s \in Seq(Nat) /\ t \in Seq(Nat) /\ Len(s) = Len(t)
      /\ \A i \in 1..Len(s) : s[i] = t[i]
  BY DEF AreBytes
<1> QED  BY ONLY <1>1, SeqEqual

\* An empty stretch is the empty sequence.
LEMMA NoBytes ==
    ASSUME NEW from \in Nat \ {0}, NEW s
    PROVE  AreBytes(s, from, from - 1) <=> s = <<>>
<1>1. AreBytes(<<>>, from, from - 1)
  BY DEF AreBytes
<1> QED  BY <1>1, BytesAreEqual

\* Two stretches that meet are one.
LEMMA BytesJoin ==
    ASSUME NEW from \in Nat, NEW mid \in Nat, NEW to \in Nat,
           from <= mid + 1, mid <= to, NEW s, NEW t,
           AreBytes(s, from, mid), AreBytes(t, mid + 1, to)
    PROVE  AreBytes(s \o t, from, to)
<1>1. /\ s \in Seq(Nat) /\ Len(s) = mid - from + 1
      /\ \A i \in 1..(mid - from + 1) : s[i] = from + i - 1
  BY DEF AreBytes
<1>2. /\ t \in Seq(Nat) /\ Len(t) = to - mid
      /\ \A i \in 1..(to - mid) : t[i] = mid + i
  BY DEF AreBytes
<1>3. PICK u : u = s \o t
  OBVIOUS
<1>4. /\ u \in Seq(Nat) /\ Len(u) = Len(s) + Len(t)
      /\ \A i \in 1..(Len(s) + Len(t)) :
            u[i] = IF i <= Len(s) THEN s[i] ELSE t[i - Len(s)]
  BY ONLY <1>1, <1>2, <1>3, ConcatProperties
<1>5. \A i \in 1..(to - from + 1) : u[i] = from + i - 1
  BY ONLY <1>1, <1>2, <1>4, from \in Nat, mid \in Nat, to \in Nat,
          from <= mid + 1, mid <= to
<1>6. Len(u) = to - from + 1
  BY ONLY <1>1, <1>2, <1>4, from \in Nat, mid \in Nat, to \in Nat
<1> QED  BY <1>3, <1>4, <1>5, <1>6 DEF AreBytes

\* A part of a stretch is a stretch.
LEMMA PartOfBytes ==
    ASSUME NEW from \in Nat, NEW to \in Nat, from <= to + 1,
           NEW first \in Nat \ {0}, NEW last \in Nat,
           first <= last + 1, last <= to - from + 1,
           NEW s, AreBytes(s, from, to)
    PROVE  AreBytes(SubSeq(s, first, last), from + first - 1, from + last - 1)
<1>1. /\ s \in Seq(Nat) /\ Len(s) = to - from + 1
      /\ \A i \in 1..(to - from + 1) : s[i] = from + i - 1
  BY DEF AreBytes
<1>2. PICK u : u = SubSeq(s, first, last)
  OBVIOUS
<1>3. \A i \in first..last : s[i] \in Nat
  BY <1>1
<1>4. /\ u \in Seq(Nat)
      /\ Len(u) = IF first <= last THEN last - first + 1 ELSE 0
      /\ \A i \in 1..(last - first + 1) : u[i] = s[first + i - 1]
  BY ONLY <1>2, <1>3, first \in Nat \ {0}, last \in Nat, SubSeqProperties
<1>5. Len(u) = last - first + 1
  BY <1>4
<1>6. \A i \in 1..(last - first + 1) : u[i] = (from + first - 1) + i - 1
  BY <1>1, <1>4
<1>7. (from + last - 1) - (from + first - 1) + 1 = last - first + 1
  OBVIOUS
<1> QED  BY <1>2, <1>4, <1>5, <1>6, <1>7 DEF AreBytes

\* How many of the bytes a log has taken it has written, and dropped.
Kept(cap, taken) == IF taken <= Half(cap) THEN taken ELSE Half(cap)
Gone(cap, taken) == IF taken <= 2 * Half(cap) THEN 0 ELSE taken - 2 * Half(cap)

\* The file has the first bytes taken, the tail the last.
HasTaken(capped, taken) ==
    /\ capped.head = Half(capped.cap) - Kept(capped.cap, taken)
    /\ capped.dropped = Gone(capped.cap, taken)
    /\ AreBytes(capped.file, 1, Kept(capped.cap, taken))
    /\ AreBytes(capped.tail,
                Kept(capped.cap, taken) + Gone(capped.cap, taken) + 1, taken)

\* Bytes are integers; the note of what was dropped is a negative one.
LEMMA IntsToo == ASSUME NEW s \in Seq(Nat) PROVE s \in Seq(Int)
  BY SeqMonotonic

\* A new log has taken nothing.
LEMMA NewLogHasNothing ==
    ASSUME NEW cap \in Nat
    PROVE  NewLog(cap) \in LogState /\ HasTaken(NewLog(cap), 0)
<1>1. Half(cap) \in Nat \ {0}  BY HalfIsPositive
<1>2. AreBytes(<<>>, 1, 0)  BY NoBytes
<1>3. Kept(cap, 0) = 0 /\ Gone(cap, 0) = 0
  BY <1>1 DEF Kept, Gone
<1>4. /\ NewLog(cap).cap = cap /\ NewLog(cap).head = Half(cap)
      /\ NewLog(cap).tail = <<>> /\ NewLog(cap).file = <<>>
      /\ NewLog(cap).dropped = 0
  BY DEF NewLog
<1>5. NewLog(cap) \in LogState
  BY <1>1 DEF NewLog, LogState
<1> QED  BY <1>1, <1>2, <1>3, <1>4, <1>5 DEF HasTaken

\* However a read cuts the output up (CappedLog in src/gate.rs): the head is
\* filled first, the tail holds the last bytes, and what falls out of it between
\* the two is counted.
LEMMA TakeKeepsBothEnds ==
    ASSUME NEW capped \in LogState, NEW taken \in Nat, HasTaken(capped, taken),
           NEW size \in Nat \ {0}, NEW chunk,
           AreBytes(chunk, taken + 1, taken + size)
    PROVE  /\ Take(capped, chunk) \in LogState
           /\ Take(capped, chunk).cap = capped.cap
           /\ Take(capped, chunk).finished = capped.finished
           /\ HasTaken(Take(capped, chunk), taken + size)
<1>1. PICK half : half = Half(capped.cap)
  OBVIOUS
<1>2. PICK kept : kept = Kept(capped.cap, taken)
  OBVIOUS
<1>3. PICK gone : gone = Gone(capped.cap, taken)
  OBVIOUS
<1>4. /\ capped.cap \in Nat /\ capped.head \in Nat /\ capped.dropped \in Nat
      /\ half \in Nat \ {0}
      /\ capped.tail \in Seq(Nat) /\ capped.file \in Seq(Int)
      /\ chunk \in Seq(Nat) /\ Len(chunk) = size
  BY <1>1, HalfIsPositive DEF LogState, AreBytes
<1>5. /\ kept = (IF taken <= half THEN taken ELSE half)
      /\ gone = (IF taken <= 2 * half THEN 0 ELSE taken - 2 * half)
      /\ capped.head = half - kept /\ capped.dropped = gone
  BY <1>1, <1>2, <1>3 DEF Kept, Gone, HasTaken
<1>6. /\ AreBytes(capped.file, 1, kept)
      /\ AreBytes(capped.tail, kept + gone + 1, taken)
  BY <1>2, <1>3 DEF HasTaken
<1>7. PICK more : more = Min({capped.head, size})
  OBVIOUS
<1>8. more = (IF capped.head <= size THEN capped.head ELSE size)
  <2>1. capped.head \in Int /\ size \in Int
    BY <1>4
  <2> QED  BY ONLY <1>7, <2>1, MinOfTwo
<1>9. PICK first : first = SubSeq(chunk, 1, more)
  OBVIOUS
<1>10. PICK rest : rest = SubSeq(chunk, more + 1, size)
  OBVIOUS
<1>11. AreBytes(first, taken + 1, taken + more)
  <2>1. AreBytes(first, taken + 1 + 1 - 1, taken + 1 + more - 1)
    <3>1. /\ taken + 1 \in Nat /\ taken + size \in Nat
          /\ taken + 1 <= taken + size + 1
          /\ 1 \in Nat \ {0} /\ more \in Nat
          /\ 1 <= more + 1 /\ more <= taken + size - (taken + 1) + 1
      BY <1>4, <1>8
    <3> QED  BY ONLY <1>9, <3>1, PartOfBytes,
                     AreBytes(chunk, taken + 1, taken + size)
  <2>2. taken + 1 + 1 - 1 = taken + 1 /\ taken + 1 + more - 1 = taken + more
    BY <1>4, <1>8
  <2> QED  BY ONLY <2>1, <2>2
<1>12. AreBytes(rest, taken + more + 1, taken + size)
  <2>1. AreBytes(rest, taken + 1 + (more + 1) - 1, taken + 1 + size - 1)
    <3>1. PICK from : from = taken + 1
      OBVIOUS
    <3>2. PICK to : to = taken + size
      OBVIOUS
    <3>3. PICK next : next = more + 1
      OBVIOUS
    <3>4. /\ from \in Nat /\ to \in Nat /\ from <= to + 1
          /\ next \in Nat \ {0} /\ size \in Nat
          /\ next <= size + 1 /\ size <= to - from + 1
      BY <1>4, <1>8, <3>1, <3>2, <3>3
    <3>5. AreBytes(chunk, from, to) /\ rest = SubSeq(chunk, next, size)
      BY <1>10, <3>1, <3>2, <3>3
    <3>6. AreBytes(rest, from + next - 1, from + size - 1)
      BY ONLY <3>4, <3>5, PartOfBytes
    <3> QED  BY ONLY <3>1, <3>3, <3>6
  <2>2. /\ taken + 1 + (more + 1) - 1 = taken + more + 1
        /\ taken + 1 + size - 1 = taken + size
    BY <1>4, <1>8
  <2> QED  BY ONLY <2>1, <2>2
<1>13. PICK held : held = capped.tail \o rest
  OBVIOUS
<1>14. PICK file : file = capped.file \o first
  OBVIOUS
<1>15. kept + more = (IF taken + size <= half THEN taken + size ELSE half)
  BY <1>4, <1>5, <1>8
<1>16. AreBytes(file, 1, kept + more)
  <2>1. CASE more = 0
    <3>1. first = <<>>
      BY <1>9, <2>1, SubSeqEmpty
    <3>2. file = capped.file
      BY <1>4, <1>14, <3>1, ConcatEmptySeq
    <3> QED  BY <1>4, <1>5, <1>6, <2>1, <3>2
  <2>2. CASE more # 0
    <3>1. kept = taken
      BY <1>4, <1>5, <1>8, <2>2
    <3>2. /\ 1 \in Nat /\ taken \in Nat /\ taken + more \in Nat
          /\ 1 <= taken + 1 /\ taken <= taken + more
      BY <1>4, <1>8
    <3> QED  BY ONLY <1>6, <1>11, <1>14, <3>1, <3>2, BytesJoin
  <2> QED  BY <2>1, <2>2
<1>17. AreBytes(held, kept + more + gone + 1, taken + size)
  <2>1. CASE more = 0
    <3>1. /\ kept + gone + 1 \in Nat /\ taken \in Nat /\ taken + size \in Nat
          /\ kept + gone + 1 <= taken + 1 /\ taken <= taken + size
      BY <1>4, <1>5
    <3>2. AreBytes(rest, taken + 1, taken + size)
      BY <1>12, <2>1
    <3>3. AreBytes(held, kept + gone + 1, taken + size)
      BY ONLY <1>6, <1>13, <3>1, <3>2, BytesJoin
    <3> QED  BY <1>4, <1>5, <2>1, <3>3
  <2>2. CASE more # 0
    <3>1. kept = taken /\ gone = 0
      BY <1>4, <1>5, <1>8, <2>2
    <3>2. AreBytes(capped.tail, taken + 1, (taken + 1) - 1)
      BY <1>6, <3>1
    <3>3. capped.tail = <<>>
      BY <3>2, NoBytes
    <3>4. held = rest
      BY <1>12, <1>13, <3>3, ConcatEmptySeq DEF AreBytes
    <3>5. kept + more + gone + 1 = taken + more + 1
      BY <1>4, <1>8, <3>1
    <3> QED  BY ONLY <1>12, <3>4, <3>5
  <2> QED  BY <2>1, <2>2
<1>18. held \in Seq(Nat) /\ Len(held) = taken + size - (kept + more + gone)
  BY <1>4, <1>5, <1>8, <1>17 DEF AreBytes
<1>19. PICK over : over = Max({Len(held) - half, 0})
  OBVIOUS
<1>20. over = (IF Len(held) - half >= 0 THEN Len(held) - half ELSE 0)
  <2>1. Len(held) - half \in Int /\ 0 \in Int
    BY <1>4, <1>5, <1>8, <1>18
  <2> QED  BY ONLY <1>19, <2>1, MaxOfTwo
<1>21. PICK tail : tail = SubSeq(held, over + 1, Len(held))
  OBVIOUS
<1>22. /\ over \in Nat /\ over <= Len(held) /\ Len(held) \in Nat
       /\ kept \in Nat /\ gone \in Nat /\ more \in Nat
  <2>1. /\ Len(held) \in Nat /\ kept \in Nat /\ gone \in Nat /\ more \in Nat
    BY <1>4, <1>5, <1>8, <1>18
  <2>2. over \in Nat /\ over <= Len(held)
    BY <1>4, <1>20, <2>1
  <2> QED  BY ONLY <2>1, <2>2
<1>31. gone + over = Gone(capped.cap, taken + size)
  <2>1. PICK all : all = taken + size
    OBVIOUS
  <2>2. all \in Nat
    BY <1>4, <2>1
  <2>3. Gone(capped.cap, all) = IF all <= 2 * half THEN 0 ELSE all - 2 * half
    BY ONLY <1>1 DEF Gone
  <2>4. CASE all <= half
    <3>1. kept + more = all /\ gone = 0
      BY <1>4, <1>5, <1>15, <2>1, <2>4
    <3>2. over = 0
      BY ONLY <1>4, <1>18, <1>20, <1>22, <2>1, <2>2, <3>1
    <3>3. all <= 2 * half
      BY ONLY <1>4, <2>2, <2>4
    <3> QED  BY ONLY <2>1, <2>3, <3>1, <3>2, <3>3
  <2>5. CASE ~(all <= half)
    <3>1. kept + more = half
      BY <1>15, <2>1, <2>5
    <3>2. Len(held) - half = all - 2 * half - gone
      BY ONLY <1>4, <1>18, <1>22, <2>1, <2>2, <3>1
    <3>3. CASE all <= 2 * half
      <4>1. taken <= 2 * half
        BY ONLY <1>4, <2>1, <2>2, <3>3, taken \in Nat, size \in Nat \ {0}
      <4>2. gone = 0
        BY ONLY <1>5, <4>1
      <4>3. over = 0
        BY ONLY <1>4, <1>20, <1>22, <2>2, <3>2, <3>3, <4>2
      <4> QED  BY ONLY <2>1, <2>3, <3>3, <4>2, <4>3
    <3>4. CASE ~(all <= 2 * half)
      <4>1. Len(held) - half >= 0
        <5>1. gone <= all - 2 * half
          <6>1. CASE taken <= 2 * half
            <7>1. gone = 0
              BY ONLY <1>5, <6>1
            <7> QED  BY ONLY <1>4, <2>2, <3>4, <7>1
          <6>2. CASE ~(taken <= 2 * half)
            <7>1. gone = taken - 2 * half
              BY ONLY <1>5, <6>2
            <7> QED  BY ONLY <1>4, <2>1, <7>1, taken \in Nat, size \in Nat \ {0}
          <6> QED  BY ONLY <6>1, <6>2
        <5> QED  BY ONLY <1>4, <1>22, <2>2, <3>2, <5>1
      <4>2. gone + over = all - 2 * half
        BY ONLY <1>4, <1>20, <1>22, <2>2, <3>2, <4>1
      <4> QED  BY ONLY <2>1, <2>3, <3>4, <4>2
    <3> QED  BY ONLY <3>3, <3>4
  <2> QED  BY ONLY <2>4, <2>5
<1>23. AreBytes(tail, kept + more + gone + over + 1, taken + size)
  <2>1. PICK from : from = kept + more + gone + 1
    OBVIOUS
  <2>2. from \in Nat /\ taken + size = from + Len(held) - 1
    BY <1>4, <1>5, <1>8, <1>18, <2>1
  <2>3. /\ from <= taken + size + 1 /\ taken + size \in Nat
        /\ over + 1 \in Nat \ {0} /\ Len(held) \in Nat
        /\ over + 1 <= Len(held) + 1
        /\ Len(held) <= taken + size - from + 1
    BY <1>22, <2>2
  <2>4. AreBytes(tail, from + (over + 1) - 1, from + Len(held) - 1)
    <3>1. PICK to : to = taken + size
      OBVIOUS
    <3>2. PICK next : next = over + 1
      OBVIOUS
    <3>3. PICK end : end = Len(held)
      OBVIOUS
    <3>4. /\ from \in Nat /\ to \in Nat /\ from <= to + 1
          /\ next \in Nat \ {0} /\ end \in Nat
          /\ next <= end + 1 /\ end <= to - from + 1
      BY <2>2, <2>3, <3>1, <3>2, <3>3
    <3>5. AreBytes(held, from, to) /\ tail = SubSeq(held, next, end)
      BY <1>17, <1>21, <2>1, <3>1, <3>2, <3>3
    <3>6. AreBytes(tail, from + next - 1, from + end - 1)
      BY ONLY <3>4, <3>5, PartOfBytes
    <3> QED  BY ONLY <3>2, <3>3, <3>6
  <2>5. from + (over + 1) - 1 = kept + more + gone + over + 1
    BY <1>4, <1>5, <1>8, <1>22, <2>1
  <2> QED  BY ONLY <2>2, <2>4, <2>5
<1>24. PICK after : after = Take(capped, chunk)
  OBVIOUS
<1>25. Len(first) = more
  BY <1>4, <1>8, <1>11 DEF AreBytes
<1>26. after = [capped EXCEPT !.head = @ - more, !.file = file,
                              !.tail = tail, !.dropped = @ + over]
  BY <1>1, <1>4, <1>7, <1>9, <1>10, <1>13, <1>14, <1>19, <1>21, <1>24, <1>25
     DEF Take
<1>27. /\ after.cap = capped.cap /\ after.finished = capped.finished
       /\ after.head = capped.head - more /\ after.file = file
       /\ after.tail = tail /\ after.dropped = capped.dropped + over
  BY <1>26 DEF LogState
<1>28. /\ kept + more = Kept(capped.cap, taken + size)
       /\ gone + over = Gone(capped.cap, taken + size)
  <2>1. kept + more = Kept(capped.cap, taken + size)
    BY ONLY <1>1, <1>15 DEF Kept
  <2> QED  BY <1>31, <2>1
<1>29. after \in LogState
  <2>1. capped.head - more \in Nat /\ capped.dropped + over \in Nat
    <3>1. more \in Nat /\ more <= capped.head
      BY ONLY <1>4, <1>8
    <3>2. over \in Nat
      BY <1>22
    <3> QED  BY ONLY <1>4, <3>1, <3>2
  <2>2. tail \in Seq(Nat) /\ file \in Seq(Int)
    BY <1>16, <1>23, IntsToo DEF AreBytes
  <2> QED  BY <1>26, <2>1, <2>2 DEF LogState
<1>30. HasTaken(after, taken + size)
  <2>1. after.head = half - (kept + more) /\ after.dropped = gone + over
    BY <1>4, <1>5, <1>8, <1>27
  <2>2. kept + more + (gone + over) + 1 = kept + more + gone + over + 1
    BY <1>4, <1>5, <1>8, <1>22
  <2> QED  BY <1>1, <1>16, <1>23, <1>27, <1>28, <2>1, <2>2 DEF HasTaken
<1> QED  BY <1>24, <1>27, <1>29, <1>30

\* Once finished, the file is the head, the count if any, and the tail.
LEMMA FinishKeepsBothEnds ==
    ASSUME NEW capped \in LogState, NEW printed \in Nat,
           HasTaken(capped, printed)
    PROVE  /\ Finish(capped) \in LogState
           /\ Finish(capped).cap = capped.cap
           /\ Finish(capped).finished
           /\ Finish(capped).file = BothEnds(printed, capped.cap)
<1>1. PICK half : half = Half(capped.cap)
  OBVIOUS
<1>2. PICK kept : kept = Kept(capped.cap, printed)
  OBVIOUS
<1>3. PICK gone : gone = Gone(capped.cap, printed)
  OBVIOUS
<1>4. /\ capped.cap \in Nat /\ half \in Nat \ {0}
      /\ capped.tail \in Seq(Nat) /\ capped.file \in Seq(Int)
  BY <1>1, HalfIsPositive DEF LogState
<1>5. /\ kept = (IF printed <= half THEN printed ELSE half)
      /\ gone = (IF printed <= 2 * half THEN 0 ELSE printed - 2 * half)
      /\ capped.dropped = gone
      /\ AreBytes(capped.file, 1, kept)
      /\ AreBytes(capped.tail, kept + gone + 1, printed)
  BY <1>1, <1>2, <1>3 DEF Kept, Gone, HasTaken
<1>6. PICK file :
         file = capped.file
                    \o (IF capped.dropped > 0 THEN <<-capped.dropped>> ELSE <<>>)
                    \o capped.tail
  OBVIOUS
<1>7. file \in Seq(Int) /\ file = BothEnds(printed, capped.cap)
  <2>1. CASE printed <= 2 * half
    <3>1. file = capped.file \o capped.tail
      <4>1. capped.file \o <<>> = capped.file
        BY <1>4, ConcatEmptySeq
      <4>2. ~(capped.dropped > 0)
        BY <1>4, <1>5, <2>1
      <4> QED  BY ONLY <1>6, <4>1, <4>2
    <3>2. AreBytes(file, 1, printed)
      <4>1. AreBytes(capped.tail, kept + 1, printed)
        BY <1>4, <1>5, <2>1
      <4>2. /\ 1 \in Nat /\ kept \in Nat /\ 1 <= kept + 1 /\ kept <= printed
        BY <1>4, <1>5
      <4> QED  BY ONLY <1>5, <3>1, <4>1, <4>2, BytesJoin, printed \in Nat
    <3>3. AreBytes([i \in 1..(printed - 1 + 1) |-> 1 + i - 1], 1, printed)
      BY DEF AreBytes
    <3>4. file = [i \in 1..(printed - 1 + 1) |-> 1 + i - 1]
      BY <3>2, <3>3, BytesAreEqual
    <3>5. BothEnds(printed, capped.cap) = [i \in 1..(printed - 1 + 1) |-> 1 + i - 1]
      BY <1>1, <2>1 DEF BothEnds
    <3> QED  BY <3>2, <3>4, <3>5, IntsToo DEF AreBytes
  <2>2. CASE ~(printed <= 2 * half)
    <3>1. /\ kept = half /\ gone = printed - 2 * half /\ gone > 0
          /\ -capped.dropped = 2 * half - printed
          /\ kept + gone + 1 = printed - half + 1
      BY <1>4, <1>5, <2>2
    <3>2. file = capped.file \o <<2 * half - printed>> \o capped.tail
      BY <1>5, <1>6, <3>1
    <3>3. capped.file = [i \in 1..(half - 1 + 1) |-> 1 + i - 1]
      <4>1. AreBytes([i \in 1..(half - 1 + 1) |-> 1 + i - 1], 1, half)
        BY <1>4 DEF AreBytes
      <4> QED  BY <1>4, <1>5, <3>1, <4>1, BytesAreEqual
    <3>4. capped.tail = [i \in 1..(printed - (printed - half + 1) + 1) |->
                             (printed - half + 1) + i - 1]
      <4>1. printed - half + 1 \in Nat
        BY <1>4, <2>2
      <4>2. AreBytes([i \in 1..(printed - (printed - half + 1) + 1) |->
                          (printed - half + 1) + i - 1], printed - half + 1, printed)
        BY <1>4, <2>2, <4>1 DEF AreBytes
      <4> QED  BY <1>4, <1>5, <3>1, <4>1, <4>2, BytesAreEqual
    <3>5. file = BothEnds(printed, capped.cap)
      BY <1>1, <2>2, <3>2, <3>3, <3>4 DEF BothEnds
    <3>6. <<2 * half - printed>> \in Seq(Int) /\ capped.tail \in Seq(Int)
      BY <1>4, IntsToo
    <3>7. file \in Seq(Int)
      BY ONLY <1>4, <3>2, <3>6, ConcatProperties
    <3> QED  BY <3>5, <3>7
  <2> QED  BY <2>1, <2>2
<1>8. Finish(capped) = [capped EXCEPT !.file = file, !.finished = TRUE]
  BY <1>6 DEF Finish, LogState
<1> QED  BY <1>7, <1>8 DEF LogState

\* While the gate runs, the log has taken what was printed and is not still in
\* the pipe; when it is finished, it has both ends of all of it.
LogInv ==
    /\ shell \in ShellState /\ shell.unread <= shell.printed
    /\ log \in LogState
    /\ ~log.finished => HasTaken(log, shell.printed - shell.unread)
    /\ log.finished =>
          /\ ~shell.running /\ shell.unread = 0
          /\ log.file = BothEnds(shell.printed, log.cap)

\* Without a gate there is nothing to keep.
LEMMA NoGateHolds ==
    ASSUME shell = NoShell, log = NewLog(1)
    PROVE  LogInv /\ ~log.finished
<1>1. NoShell \in ShellState /\ NoShell.printed = 0 /\ NoShell.unread = 0
  <2>1. 0 \in 0..MaxOutput
    BY GateAssumption
  <2> QED  BY <2>1 DEF NoShell, ShellState, Verdict
<1>2. ~NewLog(1).finished
  BY DEF NewLog
<1>3. NewLog(1) \in LogState /\ HasTaken(NewLog(1), 0)
  BY NewLogHasNothing
<1> QED  BY <1>1, <1>2, <1>3 DEF LogInv

\* The gate starts with a log of its own cap.
LEMMA StartKeepsLog ==
    ASSUME NEW cap \in Nat, StartGate(cap)
    PROVE  LogInv' /\ ~log'.finished
<1>1. PICK bytes \in 0..MaxOutput :
         shell' = [NoShell EXCEPT !.running = TRUE, !.printed = bytes,
                                  !.unread = bytes]
  BY DEF StartGate
<1>2. shell' \in ShellState /\ shell'.printed = bytes /\ shell'.unread = bytes
  <2>1. 0 \in 0..MaxOutput
    BY GateAssumption
  <2> QED  BY <1>1, <2>1 DEF NoShell, ShellState, Verdict
<1>3. log' = NewLog(cap) /\ ~log'.finished
  BY DEF StartGate, NewLog
<1>4. NewLog(cap) \in LogState /\ HasTaken(NewLog(cap), 0)
  BY NewLogHasNothing
<1>5. bytes <= bytes /\ bytes - bytes = 0
  BY GateAssumption
<1> QED  BY <1>2, <1>3, <1>4, <1>5 DEF LogInv

\* The shell may exit before its output is read.
LEMMA ExitKeepsLog ==
    ASSUME LogInv, GateExits
    PROVE  LogInv' /\ log'.finished = log.finished
<1>1. PICK verdict \in {"passed", "failed"} :
         shell' = [shell EXCEPT !.running = FALSE, !.ends = verdict]
  BY DEF GateExits
<1>2. /\ shell' \in ShellState /\ shell'.printed = shell.printed
      /\ shell'.unread = shell.unread /\ ~shell'.running /\ log' = log
  BY <1>1 DEF LogInv, ShellState, GateExits, Verdict
<1> QED  BY <1>2 DEF LogInv

\* A signal ends the shell and leaves the pipe alone.
LEMMA SignalKeepsLog ==
    ASSUME LogInv, GateSignalled
    PROVE  LogInv' /\ log'.finished = log.finished
<1>1. PICK unread \in 0..shell.unread :
         shell' = [shell EXCEPT !.running = FALSE, !.ends = "signalled",
                                !.printed = @ - (shell.unread - unread),
                                !.unread = unread]
  BY DEF GateSignalled
<1>2. PICK printed : printed = shell.printed - (shell.unread - unread)
  OBVIOUS
<1>3. /\ shell.printed \in 0..MaxOutput /\ shell.unread \in 0..MaxOutput
      /\ shell.unread <= shell.printed /\ shell.running
  BY DEF LogInv, ShellState, GateSignalled
<1>4. /\ printed \in 0..MaxOutput /\ unread \in 0..MaxOutput
      /\ unread <= printed
      /\ printed - unread = shell.printed - shell.unread
  BY <1>2, <1>3, GateAssumption
<1>5. shell' = [shell EXCEPT !.running = FALSE, !.ends = "signalled",
                             !.printed = printed, !.unread = unread]
  BY <1>1, <1>2 DEF LogInv, ShellState
<1>6. /\ shell' \in ShellState /\ shell'.printed = printed
      /\ shell'.unread = unread
  BY <1>4, <1>5 DEF LogInv, ShellState, Verdict
<1>7. log' = log /\ ~log.finished
  BY <1>3 DEF GateSignalled, LogInv
<1> QED  BY <1>4, <1>6, <1>7 DEF LogInv

\* A read takes a part of what is in the pipe, in order.
LEMMA ReadKeepsLog ==
    ASSUME LogInv, ReadOutput
    PROVE  LogInv' /\ ~log'.finished
<1>1. PICK from : from = shell.printed - shell.unread
  OBVIOUS
<1>2. PICK size \in 1..Min({shell.unread, MaxChunk}) :
         /\ log' = Take(log, [i \in 1..size |-> from + i])
         /\ shell' = [shell EXCEPT !.unread = @ - size]
  BY <1>1 DEF ReadOutput
<1>3. /\ shell.printed \in 0..MaxOutput /\ shell.unread \in 0..MaxOutput
      /\ shell.unread <= shell.printed /\ MaxOutput \in Nat /\ MaxChunk \in Nat
  BY GateAssumption DEF LogInv, ShellState
<1>4. shell.unread \in Int /\ MaxChunk \in Int
  BY <1>3
<1>5. Min({shell.unread, MaxChunk})
         = IF shell.unread <= MaxChunk THEN shell.unread ELSE MaxChunk
  BY ONLY <1>4, MinOfTwo
<1>6. size \in Nat \ {0} /\ size <= shell.unread
  BY <1>2, <1>3, <1>5
<1>7. PICK unread : unread = shell.unread - size
  OBVIOUS
<1>8. /\ unread \in 0..MaxOutput /\ unread <= shell.printed
      /\ shell.printed - unread = from + size /\ from \in Nat
  BY <1>1, <1>3, <1>6, <1>7
<1>9. PICK chunk : chunk = [i \in 1..size |-> from + i]
  OBVIOUS
<1>10. AreBytes(chunk, from + 1, from + size)
  <2>1. PICK first : first = from + 1
    OBVIOUS
  <2>2. PICK last : last = from + size
    OBVIOUS
  <2>3. last - first + 1 = size /\ size \in Nat /\ first \in Nat
    BY <1>6, <1>8, <2>1, <2>2
  <2>4. chunk \in Seq(Nat) /\ Len(chunk) = size
    BY <1>6, <1>8, <1>9
  <2>5. \A i \in 1..size : chunk[i] = first + i - 1
    BY <1>6, <1>8, <1>9, <2>1
  <2>6. AreBytes(chunk, first, last)
    BY ONLY <2>3, <2>4, <2>5 DEF AreBytes
  <2> QED  BY ONLY <2>1, <2>2, <2>6
<1>11. ~log.finished /\ HasTaken(log, from) /\ log \in LogState
  BY <1>1, <1>3, <1>6 DEF LogInv
<1>12. /\ log' \in LogState /\ ~log'.finished
       /\ HasTaken(log', from + size)
  BY <1>2, <1>6, <1>8, <1>9, <1>10, <1>11, TakeKeepsBothEnds
<1>13. shell' = [shell EXCEPT !.unread = unread]
  BY <1>2, <1>7 DEF LogInv, ShellState
<1>14. /\ shell' \in ShellState /\ shell'.printed = shell.printed
       /\ shell'.unread = unread
  BY <1>8, <1>13 DEF LogInv, ShellState
<1> QED  BY <1>8, <1>12, <1>14 DEF LogInv

\* The log is finished when the shell is gone and the pipe empty.
LEMMA FinishKeepsLog ==
    ASSUME LogInv, ~log.finished, FinishGate
    PROVE  LogInv'
<1>1. /\ ~shell.running /\ shell.unread = 0 /\ shell' = shell
      /\ shell.printed \in Nat /\ shell.printed - shell.unread = shell.printed
  BY GateAssumption DEF FinishGate, LogInv, ShellState
<1>2. HasTaken(log, shell.printed)
  BY <1>1 DEF LogInv
<1> QED  BY <1>1, <1>2, FinishKeepsBothEnds DEF LogInv, FinishGate

-----------------------------------------------------------------------------
(* A hook.                                                                 *)

\* The processes of a hook are bounded together, in its group or out of it.
HookInv == hook \in HookState /\ hook.kids + hook.escaped <= MaxKids

\* No hook, and a hook just spawned, are in order.
LEMMA HookStarts ==
    /\ NoHook \in HookState /\ NoHook.wait = "none"
    /\ NoHook.kids = 0 /\ NoHook.escaped = 0
    /\ Spawned \in HookState /\ Spawned.wait # "none"
    /\ Spawned.kids = 0 /\ Spawned.escaped = 0
<1>1. 0 \in 0..MaxKids /\ 0 \in 0..PipeSize
  BY HookAssumption
<1>2. NoHook \in HookState
  BY <1>1 DEF NoHook, HookState
<1>3. Spawned \in HookState
  BY <1>2 DEF Spawned, HookState
<1>4. /\ NoHook.wait = "none" /\ NoHook.kids = 0 /\ NoHook.escaped = 0
  BY DEF NoHook
<1>5. Spawned.wait # "none" /\ Spawned.kids = 0 /\ Spawned.escaped = 0
  BY DEF Spawned, NoHook
<1> QED  BY <1>2, <1>3, <1>4, <1>5

\* Whatever the hook, its processes and the two threads on it do.
LEMMA HookKeepsTypes ==
    ASSUME HookInv,
           HookActs \/ HookLoop \/ Drain \/ DeadlinePasses \/ Join
    PROVE  HookInv'
<1>1. /\ hook \in HookState /\ hook.kids \in Nat /\ hook.escaped \in Nat
      /\ hook.pipe \in Nat /\ hook.kids <= MaxKids /\ hook.escaped <= MaxKids
      /\ hook.pipe <= PipeSize
      /\ hook.kids + hook.escaped <= MaxKids
      /\ PipeSize \in Nat /\ MaxKids \in Nat
  BY HookAssumption DEF HookInv, HookState
<1>2. CASE HookPrints
  BY <1>1, <1>2 DEF HookPrints, HookInv, HookState
<1>3. CASE HookForks
  BY <1>1, <1>3 DEF HookForks, HookInv, HookState
<1>4. CASE HookDetaches
  <2>1. /\ hook.kids - 1 \in 0..MaxKids /\ hook.escaped + 1 \in 0..MaxKids
        /\ (hook.kids - 1) + (hook.escaped + 1) <= MaxKids
    BY <1>1, <1>4 DEF HookDetaches
  <2>2. hook' = [hook EXCEPT !.kids = hook.kids - 1,
                             !.escaped = hook.escaped + 1]
    BY <1>4 DEF HookDetaches
  <2>3. hook' \in HookState
    BY <1>1, <2>1, <2>2 DEF HookState
  <2>4. hook'.kids = hook.kids - 1 /\ hook'.escaped = hook.escaped + 1
    BY <1>1, <2>2 DEF HookState
  <2> QED  BY <2>1, <2>3, <2>4 DEF HookInv
<1>5. CASE ShellExits \/ DeadlinePasses
  BY <1>1, <1>5 DEF ShellExits, DeadlinePasses, HookInv, HookState
<1>6. CASE KidExits
  BY <1>1, <1>6 DEF KidExits, HookInv, HookState
<1>7. CASE EscapedExits
  BY <1>1, <1>7 DEF EscapedExits, HookInv, HookState
<1>8. CASE Poll
  BY <1>1, <1>8 DEF Poll, HookInv, HookState
<1>9. CASE InTime
  BY <1>1, <1>9 DEF InTime, HookInv, HookState
<1>10. CASE Abandon
  <2>1. hook' \in HookState
    <3>1. 0 \in 0..MaxKids
      BY <1>1
    <3>2. hook' = [hook EXCEPT !.wait = "join", !.shell = "reaped",
                               !.kids = 0, !.killed = TRUE]
      BY <1>10 DEF Abandon
    <3> QED  BY ONLY <1>1, <3>1, <3>2 DEF HookState
  <2>2. hook'.kids = 0 /\ hook'.escaped = hook.escaped
    BY <1>1, <1>10 DEF Abandon, HookState
  <2> QED  BY <1>1, <2>1, <2>2 DEF HookInv
<1>11. CASE Drain
  BY <1>1, <1>11 DEF Drain, HookInv, HookState
<1>12. CASE Join
  BY <1>1, <1>12, HookStarts DEF Join, HookInv
<1> QED
  BY <1>2, <1>3, <1>4, <1>5, <1>6, <1>7, <1>8, <1>9, <1>10, <1>11, <1>12
     DEF HookActs, HookLoop

\* None of its steps starts a hook, and only the join ends one.
LEMMA HookGoesOn ==
    ASSUME HookInv, HookActs \/ HookLoop \/ Drain \/ DeadlinePasses
    PROVE  Hooking /\ Hooking'
  BY DEF HookInv, HookState, Hooking, HookActs, HookLoop, HookPrints, HookForks,
         HookDetaches, ShellExits, KidExits, EscapedExits, Poll, InTime, Abandon,
         Drain, DeadlinePasses

-----------------------------------------------------------------------------
(* The loop and its ticks.                                                 *)

\* A tick is under way exactly while the loop is in one; a hook runs within it,
\* while there are entries to tell of; its gate is not finished before it is
\* judged.
TickInv ==
    /\ loop \in LoopState /\ tick \in TickState /\ past \in PastState
    /\ tick.pc = "none" <=> loop.pc # "ticking"
    /\ Hooking => tick.pc = "hooks" /\ tick.tell > 0
    /\ tick.pc = "gate" => ~log.finished

\* Between ticks there is no outcome.
LEMMA NoTickIsTyped ==
    NoTick \in TickState /\ NoTick.pc = "none" /\ NoTick.outcome = "none"
<1>1. 0 \in 0..MaxQueued
  BY ServiceAssumption
<1> QED  BY <1>1 DEF NoTick, TickState

\* Where to go on, and an outcome, are all that most steps change.
TickPc == {"acquire", "guard", "config", "select", "gate", "judge",
           "hooks", "release", "observe"}

\* Going on leaves the outcome and the entries alone.
LEMMA TickGoesTo ==
    ASSUME tick \in TickState, NEW pc \in TickPc, tick' = [tick EXCEPT !.pc = pc]
    PROVE  /\ tick' \in TickState /\ tick'.pc = pc
           /\ tick'.outcome = tick.outcome /\ tick'.entries = tick.entries
           /\ tick'.tell = tick.tell
  BY DEF TickState, TickPc

\* An outcome is recorded as the tick turns to its end.
LEMMA TickEndsWith ==
    ASSUME tick \in TickState, NEW pc \in TickPc,
           NEW outcome \in TickOutcome \cup {"none", "error"},
           tick' = [tick EXCEPT !.pc = pc, !.outcome = outcome]
    PROVE  tick' \in TickState /\ tick'.pc = pc /\ tick'.outcome = outcome
  BY DEF TickState, TickPc

\* The process starts without a tick.
LEMMA TypedAtFirst == Init => TickInv
<1> SUFFICES ASSUME Init PROVE TickInv
  OBVIOUS
<1>1. PICK name \in BaseName, once \in BOOLEAN :
         loop = [pc |-> "opening", once |-> once, base |-> name,
                 stop |-> FALSE, inARow |-> 0,
                 summary |-> [ticks |-> 0, landed |-> 0, evicted |-> 0,
                              failures |-> 0],
                 repeating |-> FALSE, shown |-> "nothing"]
  BY DEF Init
<1>2. loop \in LoopState /\ loop.pc = "opening"
  BY <1>1 DEF LoopState, Summary, Class
<1>3. tick \in TickState /\ tick.pc = "none"
  BY NoTickIsTyped DEF Init
<1>4. past \in PastState
  BY DEF Init, PastState
<1>5. ~Hooking
  BY DEF Init, HookInit, NoHook, Hooking
<1> QED  BY <1>2, <1>3, <1>4, <1>5 DEF TickInv

\* The loop before and between ticks.
LEMMA OpeningKeepsTypes ==
    ASSUME TickInv, Opens \/ StopsOrTicks \/ Wakes
    PROVE  TickInv'
<1>1. CASE Opens
  <2>1. /\ loop' = [loop EXCEPT !.pc = "check"] /\ loop.pc = "opening"
        /\ tick' = tick /\ past' = past /\ hook' = hook /\ log' = log
    BY <1>1 DEF Opens, NoHooks, NoGate, gateVars
  <2>2. loop' \in LoopState /\ loop'.pc = "check"
    BY <2>1 DEF TickInv, LoopState
  <2> QED  BY <2>1, <2>2 DEF TickInv, Hooking
<1>2. CASE Wakes
  <2>1. /\ loop' = [loop EXCEPT !.pc = "check"] /\ loop.pc = "pausing"
        /\ tick' = tick /\ past' = past /\ hook' = hook /\ log' = log
    BY <1>2 DEF Wakes, NoHooks, NoGate, gateVars
  <2>2. loop' \in LoopState /\ loop'.pc = "check"
    BY <2>1 DEF TickInv, LoopState
  <2> QED  BY <2>1, <2>2 DEF TickInv, Hooking
<1>3. CASE StopsOrTicks
  <2>1. /\ loop.pc = "check" /\ past' = past /\ hook' = hook /\ log' = log
        /\ tick.pc = "none" /\ ~Hooking
    BY <1>3 DEF StopsOrTicks, NoHooks, NoGate, gateVars, TickInv
  <2>2. CASE loop' = [loop EXCEPT !.pc = "returned"] /\ tick' = tick
    <3>1. loop' \in LoopState /\ loop'.pc = "returned"
      BY <2>2 DEF TickInv, LoopState
    <3> QED  BY <2>1, <2>2, <3>1 DEF TickInv, Hooking
  <2>3. CASE /\ loop' = [loop EXCEPT !.pc = "ticking"]
             /\ tick' = [NoTick EXCEPT !.pc = "acquire"]
    <3>1. loop' \in LoopState /\ loop'.pc = "ticking"
      BY <2>3 DEF TickInv, LoopState
    <3>2. tick' \in TickState /\ tick'.pc = "acquire"
      BY <2>3, NoTickIsTyped DEF TickState
    <3> QED  BY <2>1, <3>1, <3>2 DEF TickInv, Hooking
  <2> QED  BY <1>3, <2>2, <2>3 DEF StopsOrTicks
<1> QED  BY <1>1, <1>2, <1>3

\* What is added to the summary is counted.
LEMMA SummariesAreTyped ==
    ASSUME tick \in TickState, NEW summary \in Summary
    PROVE  Recorded(summary) \in Summary /\ Failed(summary) \in Summary
<1>1. PICK landed : landed = IF tick.outcome = "landed" THEN tick.entries ELSE 0
  OBVIOUS
<1>2. PICK evicted : evicted = IF tick.outcome = "evicted" THEN 1 ELSE 0
  OBVIOUS
<1>3. landed \in Nat /\ evicted \in Nat
  BY <1>1, <1>2, ServiceAssumption DEF TickState
<1>4. /\ summary.ticks + 1 \in Nat /\ summary.landed + landed \in Nat
      /\ summary.evicted + evicted \in Nat /\ summary.failures + 1 \in Nat
  BY <1>3 DEF Summary
<1>5. Recorded(summary)
         = [summary EXCEPT !.ticks = summary.ticks + 1,
                           !.landed = summary.landed + landed,
                           !.evicted = summary.evicted + evicted]
  BY <1>1, <1>2 DEF Recorded, Summary
<1>6. Recorded(summary) \in Summary
  BY <1>4, <1>5 DEF Summary
<1>7. Failed(summary) \in Summary
  BY <1>4 DEF Failed, Summary
<1> QED  BY <1>6, <1>7

\* The loop is told of a tick, however it ended.
LEMMA ObservingKeepsTypes ==
    ASSUME TickInv,
           TickedOnce \/ TickSucceeded \/ TickInterrupted \/ TickFailed \/ GivesUp
    PROVE  TickInv'
<1>1. /\ loop \in LoopState /\ loop.summary \in Summary /\ past \in PastState
      /\ tick \in TickState
      /\ tick.pc = "observe" /\ ~Hooking
      /\ tick' = NoTick /\ hook' = hook /\ log' = log
  BY DEF TickedOnce, TickSucceeded, TickInterrupted, TickFailed, GivesUp,
         Observed, NoHooks, NoGate, gateVars, TickInv, LoopState
<1>2. tick' \in TickState /\ tick'.pc = "none" /\ ~Hooking'
  BY <1>1, NoTickIsTyped DEF Hooking
<1>3. ASSUME NEW class \in Class, History(class)
      PROVE  past' \in PastState
  <2>1. PICK classes : classes = Append(past.classes, class)
    OBVIOUS
  <2>2. classes \in Seq(Class)
    BY <1>1, <2>1 DEF PastState
  <2>3. past' = [past EXCEPT !.classes = classes]
    BY <1>1, <1>3, <2>1 DEF History, PastState
  <2> QED  BY <1>1, <2>2, <2>3 DEF PastState
<1>4. CASE TickedOnce
  <2>1. PICK class \in Class :
           /\ loop' = [loop EXCEPT
                 !.pc = IF class = "failed" THEN "errored" ELSE "returned",
                 !.shown = class]
           /\ History(class)
    BY <1>4 DEF TickedOnce
  <2>2. loop' \in LoopState /\ loop'.pc # "ticking"
    BY <1>1, <2>1 DEF LoopState
  <2> QED  BY <1>2, <1>3, <2>1, <2>2 DEF TickInv
<1>5. CASE TickSucceeded
  <2>1. PICK class \in {"progress", "quiet"} :
           /\ loop' = [loop EXCEPT
                 !.pc = PauseAfter(class), !.inARow = 0,
                 !.summary = Recorded(@),
                 !.shown = LastShown(class), !.repeating = class = "quiet"]
           /\ History(class)
    BY <1>5 DEF TickSucceeded
  <2>2. Recorded(loop.summary) \in Summary
    BY <1>1, SummariesAreTyped
  <2>3. /\ PauseAfter(class) \in {"check", "pausing"}
        /\ LastShown(class) \in Class \cup {"nothing"}
    BY <1>1 DEF PauseAfter, LastShown, LoopState, Class
  <2>4. loop' \in LoopState /\ loop'.pc # "ticking"
    BY <1>1, <2>1, <2>2, <2>3 DEF LoopState
  <2>5. class \in Class
    BY DEF Class
  <2> QED  BY <1>2, <1>3, <2>1, <2>4, <2>5 DEF TickInv
<1>6. CASE TickInterrupted
  <2>1. loop' = [loop EXCEPT !.pc = "returned"] /\ past' = past
    BY <1>6 DEF TickInterrupted
  <2>2. loop' \in LoopState /\ loop'.pc # "ticking"
    BY <1>1, <2>1 DEF LoopState
  <2> QED  BY <1>1, <1>2, <2>1, <2>2 DEF TickInv
<1>7. CASE TickFailed
  <2>1. loop' = [loop EXCEPT
           !.pc = "pausing", !.inARow = @ + 1, !.summary = Failed(@),
           !.shown = "failed", !.repeating = FALSE] /\ History("failed")
    BY <1>7 DEF TickFailed
  <2>2. Failed(loop.summary) \in Summary
    BY <1>1, SummariesAreTyped
  <2>5. loop' = [loop EXCEPT
           !.pc = "pausing", !.inARow = loop.inARow + 1,
           !.summary = Failed(loop.summary),
           !.shown = "failed", !.repeating = FALSE]
    BY <1>1, <2>1 DEF LoopState
  <2>6. loop.inARow + 1 \in Nat
    <3>1. loop.inARow \in Nat
      BY ONLY <1>1 DEF LoopState
    <3> QED  BY ONLY <3>1
  <2>3. loop' \in LoopState /\ loop'.pc # "ticking"
    BY ONLY <1>1, <2>2, <2>5, <2>6 DEF LoopState, Class
  <2>4. "failed" \in Class
    BY DEF Class
  <2> QED  BY <1>2, <1>3, <2>1, <2>3, <2>4 DEF TickInv
<1>8. CASE GivesUp
  <2>1. loop' = [loop EXCEPT
           !.pc = "gave up", !.inARow = @ + 1, !.summary = Failed(@)]
        /\ History("failed")
    BY <1>8 DEF GivesUp
  <2>2. Failed(loop.summary) \in Summary
    BY <1>1, SummariesAreTyped
  <2>5. loop' = [loop EXCEPT
           !.pc = "gave up", !.inARow = loop.inARow + 1,
           !.summary = Failed(loop.summary)]
    BY <1>1, <2>1 DEF LoopState
  <2>6. loop.inARow + 1 \in Nat
    <3>1. loop.inARow \in Nat
      BY ONLY <1>1 DEF LoopState
    <3> QED  BY ONLY <3>1
  <2>3. loop' \in LoopState /\ loop'.pc # "ticking"
    BY ONLY <1>1, <2>2, <2>5, <2>6 DEF LoopState
  <2>4. "failed" \in Class
    BY DEF Class
  <2> QED  BY <1>2, <1>3, <2>1, <2>3, <2>4 DEF TickInv
<1> QED  BY <1>4, <1>5, <1>6, <1>7, <1>8

\* The steps of a tick before its outcome is known.
Undecided == {"acquire", "guard", "config", "select", "gate", "judge"}

\* Four ways for a step of a tick to move it: the outcome is as it was,
GoesOn ==
    /\ past' = past /\ tick'.outcome = tick.outcome
    /\ tick'.pc \in Undecided <=> tick.pc \in Undecided
    /\ tick'.pc \in Undecided \/ tick'.entries = tick.entries

\* it ends with nothing landed and nothing evicted,
EndsWithNothing ==
    /\ past' = past
    /\ tick.pc \in Undecided /\ tick'.pc \notin Undecided
    /\ tick'.outcome \notin {"none", "landed", "evicted"}

\* it settles entries, which past counts,
EndsWith(outcome) ==
    /\ tick.pc \in Undecided /\ tick'.pc \notin Undecided
    /\ tick'.outcome = outcome
    /\ past' = CASE outcome = "landed" -> [past EXCEPT !.landed = @ + tick'.entries]
                 [] outcome = "evicted" -> [past EXCEPT !.evicted = @ + 1]

\* or it fails after all, and past says whether anything was settled.
EndsUntold ==
    /\ tick.pc \notin Undecided /\ tick'.pc \notin Undecided
    /\ tick'.outcome = "error"
    /\ past' = [past EXCEPT !.unreported = @ \/ tick.outcome \in {"landed", "evicted"}]

\* What a step of a tick does to the tick and to what is told of it.
TickMoves ==
    /\ loop' = loop
    /\ tick \in TickState /\ tick' \in TickState /\ past' \in PastState
    /\ tick.pc # "none" /\ tick'.pc # "none"
    /\ \/ GoesOn \/ EndsWithNothing
       \/ EndsWith("landed") \/ EndsWith("evicted") \/ EndsUntold

\* A step to the next part of a tick, with an outcome that settles nothing or none.
LEMMA PlainMoves ==
    ASSUME TickInv, loop' = loop, past' = past,
           NEW pc \in {"guard", "judge", "release", "observe"},
           tick.pc # "none",
           \/ /\ tick' = [tick EXCEPT !.pc = pc]
              /\ pc \in Undecided <=> tick.pc \in Undecided
           \/ /\ tick.pc \in Undecided /\ pc \notin Undecided
              /\ \E outcome \in (TickOutcome \ {"landed", "evicted"}) \cup {"error"} :
                    tick' = [tick EXCEPT !.pc = pc, !.outcome = outcome]
    PROVE  TickMoves /\ tick'.pc = pc
<1>1. tick \in TickState /\ past' \in PastState
  BY DEF TickInv
<1>2. CASE /\ tick' = [tick EXCEPT !.pc = pc]
           /\ pc \in Undecided <=> tick.pc \in Undecided
  <2>1. /\ tick' \in TickState /\ tick'.pc = pc /\ tick'.outcome = tick.outcome
        /\ tick'.entries = tick.entries
    BY <1>1, <1>2, TickGoesTo DEF TickPc
  <2> QED  BY <1>1, <1>2, <2>1 DEF TickMoves, GoesOn
<1>3. ASSUME tick.pc \in Undecided, pc \notin Undecided,
             NEW outcome \in (TickOutcome \ {"landed", "evicted"}) \cup {"error"},
             tick' = [tick EXCEPT !.pc = pc, !.outcome = outcome]
      PROVE  TickMoves /\ tick'.pc = pc
  <2>1. outcome \in TickOutcome \cup {"none", "error"} /\ outcome # "none"
    BY <1>3 DEF TickOutcome, Progress
  <2>2. /\ tick' \in TickState /\ tick'.pc = pc /\ tick'.outcome = outcome
    BY <1>1, <1>3, <2>1, TickEndsWith DEF TickPc
  <2> QED  BY <1>1, <1>3, <2>1, <2>2 DEF TickMoves, EndsWithNothing
<1> QED  BY <1>2, <1>3

\* Ending without having settled anything.
LEMMA EndsMove ==
    ASSUME TickInv, loop' = loop, past' = past,
           tick.pc \in Undecided,
           NEW outcome \in (TickOutcome \ {"landed", "evicted"}) \cup {"error"},
           Ends(outcome)
    PROVE  TickMoves /\ tick'.pc = "release"
<1>1. /\ tick.pc # "none" /\ "release" \notin Undecided
      /\ tick' = [tick EXCEPT !.pc = "release", !.outcome = outcome]
  BY DEF Undecided, Ends
<1> QED  BY <1>1, PlainMoves

\* Landing a batch, or evicting an entry.
LEMMA SettlingMoves ==
    ASSUME TickInv, loop' = loop, tick.pc \in Undecided,
           \/ Settles("landed", tick.entries)
                 /\ past' = [past EXCEPT !.landed = @ + tick.entries]
           \/ Evicts
    PROVE  TickMoves /\ tick'.pc = "hooks"
<1>1. /\ tick \in TickState /\ past \in PastState /\ tick.pc # "none"
      /\ tick.entries \in 0..MaxQueued /\ 1 \in 0..MaxQueued /\ 0 \in 0..MaxQueued
      /\ tick.entries \in Nat
  BY ServiceAssumption DEF TickInv, TickState, Undecided
<1>2. CASE /\ Settles("landed", tick.entries)
           /\ past' = [past EXCEPT !.landed = @ + tick.entries]
  <2>1. PICK tell : tell = IF tick.hooked THEN tick.entries ELSE 0
    OBVIOUS
  <2>2. tell \in 0..MaxQueued
    BY <1>1, <2>1
  <2>3. tick' = [tick EXCEPT !.pc = "hooks", !.outcome = "landed",
                             !.entries = tick.entries, !.tell = tell]
    BY <1>2, <2>1 DEF Settles
  <2>4. /\ tick' \in TickState /\ tick'.pc = "hooks" /\ tick'.outcome = "landed"
        /\ tick'.entries = tick.entries
    BY <1>1, <2>2, <2>3 DEF TickState, TickOutcome, Progress
  <2>5. past' \in PastState
    <3>1. past.landed \in Nat
      BY <1>1 DEF PastState
    <3>2. past.landed + tick.entries \in Nat
      BY ONLY <1>1, <3>1
    <3> QED  BY <1>1, <1>2, <3>2 DEF PastState
  <2>6. EndsWith("landed")
    BY <1>2, <2>4 DEF EndsWith, Undecided
  <2> QED  BY <1>1, <2>4, <2>5, <2>6 DEF TickMoves
<1>3. CASE Evicts
  <2>1. PICK tell : tell = IF tick.hooked THEN 1 ELSE 0
    OBVIOUS
  <2>2. tell \in 0..MaxQueued
    BY <1>1, <2>1
  <2>3. /\ tick' = [tick EXCEPT !.pc = "hooks", !.outcome = "evicted",
                                !.entries = 1, !.tell = tell]
        /\ past' = [past EXCEPT !.evicted = @ + 1]
    BY <1>3, <2>1 DEF Evicts, Settles
  <2>4. /\ tick' \in TickState /\ tick'.pc = "hooks" /\ tick'.outcome = "evicted"
    BY <1>1, <2>2, <2>3 DEF TickState, TickOutcome, Progress
  <2>5. past' \in PastState
    <3>1. past.evicted \in Nat
      BY <1>1 DEF PastState
    <3>2. past.evicted + 1 \in Nat
      BY ONLY <3>1
    <3> QED  BY <1>1, <2>3, <3>2 DEF PastState
  <2>6. EndsWith("evicted")
    BY <2>3, <2>4 DEF EndsWith, Undecided
  <2> QED  BY <1>1, <2>4, <2>5, <2>6 DEF TickMoves
<1> QED  BY <1>2, <1>3

\* A step of a gate or a hook is none of the tick.
LEMMA StayingMoves ==
    ASSUME TickInv, loop' = loop, past' = past, tick' = tick, tick.pc # "none"
    PROVE  TickMoves
  BY DEF TickInv, TickMoves, GoesOn

\* One entry fewer is left to tell of.
LEMMA TellingMoves ==
    ASSUME TickInv, loop' = loop, past' = past,
           tick.pc = "hooks", tick.tell > 0,
           tick' = [tick EXCEPT !.tell = @ - 1]
    PROVE  TickMoves /\ tick'.pc = "hooks"
<1>1. tick \in TickState /\ past' \in PastState
  BY DEF TickInv
<1>2. tick.tell - 1 \in 0..MaxQueued
  BY <1>1, ServiceAssumption DEF TickState
<1>3. /\ tick' \in TickState /\ tick'.pc = tick.pc
      /\ tick'.outcome = tick.outcome /\ tick'.entries = tick.entries
  BY <1>1, <1>2 DEF TickState
<1> QED  BY <1>1, <1>3 DEF TickMoves, GoesOn

\* A usable configuration has a cap and a batch size that are numbers.
LEMMA ConfigIsTyped ==
    ASSUME NEW source \in Source, Usable(Config(source))
    PROVE  /\ Config(source).max_log_size \in Nat
           /\ Min({Config(source).max_batch, MaxQueued}) \in 0..MaxQueued
<1>1. PICK config : config = Config(source)
  OBVIOUS
<1>2. /\ config.max_log_size = SizeOf(source.max_log_size, DefaultLogSize)
      /\ config.max_batch = OrElse(source.max_batch, DefaultBatch)
      /\ Refused \notin {config.log_budget, config.max_log_size}
  BY <1>1 DEF Config, Usable
<1>3. Size \subseteq Nat
  BY SizeAssumption DEF Size
<1>4. config.max_log_size \in Nat
  <2>1. \A written : Parsed(written) \in Size \cup {Refused}
    BY DEF Parsed
  <2>2. SizeOf(source.max_log_size, DefaultLogSize) \in Size \cup {Refused}
    BY <2>1, DefaultsAssumption DEF SizeOf
  <2> QED  BY <1>2, <1>3, <2>2
<1>5. config.max_batch \in Nat
  <2>1. CASE source.max_batch = {}
    BY <1>2, <2>1, DefaultsAssumption DEF OrElse
  <2>2. CASE source.max_batch # {}
    <3>1. PICK batch \in source.max_batch :
             batch \in Nat /\ source.max_batch = {batch}
      BY <2>2, SourceAssumption
    <3>2. Max(source.max_batch) \in source.max_batch
      BY <3>1 DEF Max
    <3> QED  BY <1>2, <2>2, <3>1, <3>2 DEF OrElse
  <2> QED  BY <2>1, <2>2
<1>6. Min({config.max_batch, MaxQueued}) \in 0..MaxQueued
  <2>1. config.max_batch \in Int /\ MaxQueued \in Int
    BY <1>5, ServiceAssumption
  <2>2. Min({config.max_batch, MaxQueued})
           = IF config.max_batch <= MaxQueued THEN config.max_batch ELSE MaxQueued
    BY ONLY <2>1, MinOfTwo
  <2> QED  BY <1>5, <2>2, ServiceAssumption
<1> QED  BY <1>1, <1>4, <1>6

\* Looking at the checkouts, the configuration and the queue.
LEMMA ReadingMoves ==
    ASSUME TickInv, Guards \/ ReadsConfig \/ Gates
    PROVE  /\ TickMoves
           /\ tick'.pc \in {"config", "release", "select", "gate"}
           /\ tick'.pc = "gate" => StartGate(tick.cap)
<1>1. /\ tick \in TickState /\ past' = past /\ loop' = loop
      /\ past' \in PastState
  BY DEF TickInv, Guards, ReadsConfig, Gates, NoLoop
<1>2. CASE Guards
  <2>1. PICK layout \in Layout :
           tick' = IF Holding(layout, loop.base) = {}
                   THEN [tick EXCEPT !.pc = "config", !.guarded = layout]
                   ELSE [tick EXCEPT !.pc = "release", !.outcome = "checked out"]
    BY <1>2 DEF Guards
  <2>2. tick.pc = "guard"
    BY <1>2 DEF Guards
  <2>3. CASE tick' = [tick EXCEPT !.pc = "config", !.guarded = layout]
    <3>1. layout \in Seq([path : Seq(STRING), branch : Seq(STRING)])
      <4>1. PICK Given, Typed :
               /\ Given = [path : Seq(STRING) \ {<<>>}, branch : Seq(STRING)]
               /\ Typed = [path : Seq(STRING), branch : Seq(STRING)]
        OBVIOUS
      <4>2. Given \subseteq Typed
        BY <4>1
      <4>3. layout \in Seq(Given)
        BY <4>1, LayoutAssumption
      <4>4. layout \in Seq(Typed)
        BY ONLY <4>2, <4>3
      <4> QED  BY <4>1, <4>4
    <3>2. /\ tick' \in TickState /\ tick'.pc = "config"
          /\ tick'.outcome = tick.outcome
      BY <1>1, <2>3, <3>1 DEF TickState
    <3> QED  BY <1>1, <2>2, <3>2 DEF TickMoves, GoesOn, Undecided
  <2>4. CASE tick' = [tick EXCEPT !.pc = "release", !.outcome = "checked out"]
    <3>1. Ends("checked out") /\ tick.pc \in Undecided
          /\ "checked out" \in TickOutcome \ {"landed", "evicted"}
      BY <2>2, <2>4 DEF Ends, Undecided, TickOutcome, Progress
    <3> QED  BY <1>1, <3>1, EndsMove
  <2> QED  BY <2>1, <2>3, <2>4
<1>3. CASE ReadsConfig
  <2>1. PICK source \in Source :
           /\ Usable(Config(source))
           /\ tick' = [tick EXCEPT !.pc = "select",
                                   !.cap = Config(source).max_log_size,
                                   !.most = Min({Config(source).max_batch, MaxQueued}),
                                   !.hooked = source.on_settle # {}]
    BY <1>3 DEF ReadsConfig
  <2>2. PICK cap : cap = Config(source).max_log_size
    OBVIOUS
  <2>3. PICK most : most = Min({Config(source).max_batch, MaxQueued})
    OBVIOUS
  <2>4. PICK hooked : hooked = (source.on_settle # {})
    OBVIOUS
  <2>5. cap \in Nat /\ most \in 0..MaxQueued /\ hooked \in BOOLEAN
    BY <2>1, <2>2, <2>3, <2>4, ConfigIsTyped
  <2>6. tick' = [tick EXCEPT !.pc = "select", !.cap = cap, !.most = most,
                             !.hooked = hooked]
    BY <2>1, <2>2, <2>3, <2>4
  <2>7. /\ tick' \in TickState /\ tick'.pc = "select"
        /\ tick'.outcome = tick.outcome /\ tick'.entries = tick.entries
    BY ONLY <1>1, <2>5, <2>6 DEF TickState
  <2>8. tick.pc = "config"
    BY <1>3 DEF ReadsConfig
  <2> QED  BY <1>1, <2>7, <2>8 DEF TickMoves, GoesOn, Undecided
<1>4. CASE Gates
  <2>1. PICK entries \in 1..tick.most :
           tick' = [tick EXCEPT !.pc = "gate", !.entries = entries]
    BY <1>4 DEF Gates
  <2>2. entries \in 0..MaxQueued
    <3>1. tick.most \in 0..MaxQueued
      BY <1>1 DEF TickState
    <3> QED  BY <2>1, <3>1, ServiceAssumption
  <2>3. /\ tick' \in TickState /\ tick'.pc = "gate"
        /\ tick'.outcome = tick.outcome
    BY <1>1, <2>1, <2>2 DEF TickState
  <2>4. tick.pc = "select" /\ StartGate(tick.cap)
    BY <1>4 DEF Gates
  <2> QED  BY <1>1, <2>3, <2>4 DEF TickMoves, GoesOn, Undecided
<1> QED  BY <1>2, <1>3, <1>4

\* The lease cannot be released, and the tick fails whatever it did.
LEMMA ReleaseFailing ==
    ASSUME TickInv, ReleaseFails
    PROVE  TickMoves /\ tick'.pc = "observe"
<1>1. /\ tick \in TickState /\ past \in PastState /\ loop' = loop
      /\ tick.pc = "release"
      /\ tick' = [tick EXCEPT !.pc = "observe", !.outcome = "error"]
      /\ past' = [past EXCEPT
            !.unreported = @ \/ tick.outcome \in {"landed", "evicted"}]
  BY DEF TickInv, ReleaseFails
<1>2. tick' \in TickState /\ tick'.pc = "observe" /\ tick'.outcome = "error"
  BY <1>1, TickEndsWith DEF TickPc
<1>3. past' \in PastState
  BY <1>1 DEF PastState
<1> QED  BY <1>1, <1>2, <1>3 DEF TickMoves, EndsUntold, Undecided

\* Every step of a tick, one by one; a hook is started and joined only while
\* the tick is telling.
LEMMA TickDoes ==
    ASSUME TickInv, Ticks
    PROVE  /\ TickMoves
           /\ Hooking' => tick'.pc = "hooks" /\ tick'.tell > 0
           /\ tick'.pc = "gate" => StartGate(tick.cap) \/ (GateStep /\ tick.pc = "gate")
<1> DEFINE Goal == /\ TickMoves
                   /\ Hooking' => tick'.pc = "hooks" /\ tick'.tell > 0
                   /\ tick'.pc = "gate" =>
                         StartGate(tick.cap) \/ (GateStep /\ tick.pc = "gate")
<1>1. /\ Hooking => tick.pc = "hooks" /\ tick.tell > 0
      /\ tick \in TickState
  BY DEF TickInv
<1>2. hook' = hook => Hooking' = Hooking
  BY DEF Hooking
<1>3. ASSUME hook' = hook, TickMoves, tick'.pc # "gate",
             tick.pc # "hooks" \/ tick.tell = 0
      PROVE  Goal
  <2>1. ~Hooking
    BY <1>1, <1>3
  <2> QED  BY <1>2, <1>3, <2>1
<1>4. CASE FindsHeld
  <2>1. /\ tick' = [tick EXCEPT !.pc = "observe", !.outcome = "held"]
        /\ loop' = loop /\ past' = past /\ hook' = hook /\ tick.pc = "acquire"
    BY <1>4 DEF FindsHeld, NoLoop, NoHooks
  <2>2. "held" \in TickOutcome \ {"landed", "evicted"}
    BY DEF TickOutcome, Progress
  <2>3. TickMoves /\ tick'.pc = "observe"
    BY <2>1, <2>2, PlainMoves DEF Undecided
  <2> QED  BY <1>3, <2>1, <2>3
<1>5. CASE Acquires
  <2>1. /\ tick' = [tick EXCEPT !.pc = "guard"]
        /\ loop' = loop /\ past' = past /\ hook' = hook /\ tick.pc = "acquire"
    BY <1>5 DEF Acquires, NoLoop, NoHooks, Go
  <2>2. TickMoves /\ tick'.pc = "guard"
    BY <2>1, PlainMoves DEF Undecided
  <2> QED  BY <1>3, <2>1, <2>2
<1>6. CASE Guards \/ ReadsConfig \/ Gates
  <2>1. /\ TickMoves /\ tick'.pc \in {"config", "release", "select", "gate"}
        /\ tick'.pc = "gate" => StartGate(tick.cap)
    BY <1>6, ReadingMoves
  <2>2. hook' = hook /\ tick.pc # "hooks"
    BY <1>6 DEF Guards, ReadsConfig, Gates, NoHooks
  <2> QED  BY <1>1, <1>2, <2>1, <2>2
<1>7. CASE FindsNoBase \/ FindsNoConfig \/ RefusesConfig \/ CannotMove
  <2>1. /\ Ends("error") /\ tick.pc \in {"config", "judge"}
        /\ loop' = loop /\ past' = past /\ hook' = hook
    BY <1>7 DEF FindsNoBase, FindsNoConfig, RefusesConfig, CannotMove, NoLoop, NoHooks
  <2>2. TickMoves /\ tick'.pc = "release"
    BY <2>1, EndsMove DEF Undecided
  <2> QED  BY <1>3, <2>1, <2>2
<1>8. CASE HasNothingToGate \/ FindsStale \/ VoidsVerdict \/ Splits
  <2>1. /\ \E outcome \in {"idle", "abandoned", "split"} : Ends(outcome)
        /\ tick.pc \in {"select", "judge"}
        /\ loop' = loop /\ past' = past /\ hook' = hook
    BY <1>8 DEF HasNothingToGate, FindsStale, VoidsVerdict, Splits, NoLoop, NoHooks
  <2>2. {"idle", "abandoned", "split"} \subseteq TickOutcome \ {"landed", "evicted"}
    BY DEF TickOutcome, Progress
  <2>3. TickMoves /\ tick'.pc = "release"
    BY <2>1, <2>2, EndsMove DEF Undecided
  <2> QED  BY <1>3, <2>1, <2>3
<1>9. CASE Conflicts \/ Blames
  <2>1. /\ Evicts \/ Requeues
        /\ tick.pc \in {"select", "judge"} /\ loop' = loop /\ hook' = hook
    BY <1>9 DEF Conflicts, Blames, NoHooks
  <2>2. CASE Evicts
    <3>1. TickMoves /\ tick'.pc = "hooks"
      BY <2>1, <2>2, SettlingMoves DEF Undecided
    <3> QED  BY <1>3, <2>1, <3>1
  <2>3. CASE Requeues
    <3>1. Ends("requeued") /\ past' = past
      BY <2>3 DEF Requeues
    <3>2. "requeued" \in TickOutcome \ {"landed", "evicted"}
      BY DEF TickOutcome, Progress
    <3>3. TickMoves /\ tick'.pc = "release"
      BY <2>1, <3>1, <3>2, EndsMove DEF Undecided
    <3> QED  BY <1>3, <2>1, <3>3
  <2> QED  BY <2>1, <2>2, <2>3
<1>10. CASE GateStep
  <2>1. /\ tick' = tick /\ loop' = loop /\ past' = past /\ hook' = hook
        /\ tick.pc = "gate"
    BY <1>10 DEF GateStep, NoLoop, NoHooks
  <2>2. TickMoves
    BY <2>1, StayingMoves
  <2> QED  BY <1>1, <1>2, <1>10, <2>1, <2>2
<1>11. CASE Judges
  <2>1. /\ tick' = [tick EXCEPT !.pc = "judge"]
        /\ loop' = loop /\ past' = past /\ hook' = hook /\ tick.pc = "gate"
    BY <1>11 DEF Judges, NoLoop, NoHooks, Go
  <2>2. TickMoves /\ tick'.pc = "judge"
    BY <2>1, PlainMoves DEF Undecided
  <2> QED  BY <1>3, <2>1, <2>2
<1>12. CASE Lands
  <2>1. /\ Settles("landed", tick.entries) /\ tick.pc = "judge"
        /\ past' = [past EXCEPT !.landed = @ + tick.entries]
        /\ loop' = loop /\ hook' = hook
    BY <1>12 DEF Lands, NoHooks
  <2>2. TickMoves /\ tick'.pc = "hooks"
    BY <2>1, SettlingMoves DEF Undecided
  <2> QED  BY <1>3, <2>1, <2>2
<1>13. CASE RunsHook
  <2>1. /\ tick' = tick /\ loop' = loop /\ past' = past
        /\ tick.pc = "hooks" /\ tick.tell > 0
    BY <1>13 DEF RunsHook, NoLoop
  <2>2. TickMoves
    BY <2>1, StayingMoves
  <2> QED  BY <2>1, <2>2
<1>14. CASE HookUnrunnable \/ HookDone
  <2>1. /\ tick.pc = "hooks" /\ tick.tell > 0 /\ ~Hooking'
        /\ tick' = [tick EXCEPT !.tell = @ - 1]
        /\ loop' = loop /\ past' = past
    <3>1. CASE HookUnrunnable
      BY <1>2, <3>1 DEF HookUnrunnable, NoLoop, NoHooks
    <3>2. CASE HookDone
      <4>1. Hooking /\ hook' = NoHook
        BY <3>2 DEF HookDone, Join, Hooking
      <4>2. ~Hooking'
        BY <4>1 DEF Hooking, NoHook
      <4> QED  BY <1>1, <3>2, <4>1, <4>2 DEF HookDone, NoLoop
    <3> QED  BY <1>14, <3>1, <3>2
  <2>2. TickMoves /\ tick'.pc = "hooks"
    BY <2>1, TellingMoves
  <2> QED  BY <2>1, <2>2
<1>15. CASE AllTold
  <2>1. /\ tick' = [tick EXCEPT !.pc = "release"] /\ tick.tell = 0
        /\ loop' = loop /\ past' = past /\ hook' = hook /\ tick.pc = "hooks"
    BY <1>15 DEF AllTold, NoLoop, NoHooks, Go
  <2>2. TickMoves /\ tick'.pc = "release"
    BY <2>1, PlainMoves DEF Undecided
  <2> QED  BY <1>3, <2>1, <2>2
<1>16. CASE Releases
  <2>1. /\ tick' = [tick EXCEPT !.pc = "observe"]
        /\ loop' = loop /\ past' = past /\ hook' = hook /\ tick.pc = "release"
    BY <1>16 DEF Releases, NoLoop, NoHooks, Go
  <2>2. TickMoves /\ tick'.pc = "observe"
    BY <2>1, PlainMoves DEF Undecided
  <2> QED  BY <1>3, <2>1, <2>2
<1>17. CASE ReleaseFails
  <2>1. TickMoves /\ tick'.pc = "observe"
    BY <1>17, ReleaseFailing
  <2>2. hook' = hook /\ tick.pc = "release"
    BY <1>17 DEF ReleaseFails, NoHooks
  <2> QED  BY <1>3, <2>1, <2>2
<1>18. CASE StepFails
  <2>1. PICK pc \in {"observe", "release"} :
           tick' = [tick EXCEPT !.pc = pc, !.outcome = "error"]
    <3>1. tick' = [tick EXCEPT !.outcome = "error",
                       !.pc = IF tick.pc = "acquire" THEN "observe" ELSE "release"]
      BY <1>18 DEF StepFails
    <3>2. CASE tick.pc = "acquire"
      BY <1>1, <3>1, <3>2 DEF TickState
    <3>3. CASE tick.pc # "acquire"
      BY <1>1, <3>1, <3>3 DEF TickState
    <3> QED  BY <3>2, <3>3
  <2>2. /\ loop' = loop /\ past' = past /\ hook' = hook
        /\ tick.pc \in Undecided
    BY <1>18 DEF StepFails, NoLoop, NoHooks, Undecided
  <2>3. TickMoves /\ tick'.pc = pc
    BY <2>1, <2>2, PlainMoves DEF Undecided
  <2> QED  BY <1>3, <2>2, <2>3 DEF Undecided
<1> QED
  BY <1>4, <1>5, <1>6, <1>7, <1>8, <1>9, <1>10, <1>11, <1>12, <1>13, <1>14,
     <1>15, <1>16, <1>17, <1>18 DEF Ticks

\* The gate runs within a tick, and its log is put away when the tick leaves it.
LEMMA GateMoves ==
    ASSUME Next
    PROVE  \/ UNCHANGED gateVars
           \/ Forgotten
           \/ tick.pc = "select" /\ StartGate(tick.cap)
           \/ tick.pc = "gate" /\ (GateExits \/ ReadOutput \/ FinishGate)
           \/ GateSignalled
<1>1. ASSUME Loops
      PROVE  UNCHANGED gateVars
  BY <1>1 DEF Loops, Opens, StopsOrTicks, Wakes, TickedOnce, TickSucceeded,
              TickInterrupted, TickFailed, GivesUp, Observed, NoGate
<1>2. ASSUME \/ FindsHeld \/ Acquires \/ Guards
             \/ FindsNoBase \/ FindsNoConfig \/ ReadsConfig \/ RefusesConfig
             \/ HasNothingToGate \/ Conflicts
             \/ RunsHook \/ HookUnrunnable \/ HookDone \/ AllTold
             \/ Releases \/ ReleaseFails
      PROVE  UNCHANGED gateVars
  BY <1>2 DEF FindsHeld, Acquires, Guards, FindsNoBase, FindsNoConfig, ReadsConfig,
              RefusesConfig, HasNothingToGate, Conflicts, RunsHook, HookUnrunnable,
              HookDone, AllTold, Releases, ReleaseFails, NoGate
<1>3. ASSUME \/ Lands \/ CannotMove \/ FindsStale \/ VoidsVerdict \/ Splits
             \/ Blames \/ StepFails
      PROVE  Forgotten
  BY <1>3 DEF Lands, CannotMove, FindsStale, VoidsVerdict, Splits, Blames, StepFails
<1>4. ASSUME Gates
      PROVE  tick.pc = "select" /\ StartGate(tick.cap)
  BY <1>4 DEF Gates
<1>5. ASSUME GateStep \/ Judges
      PROVE  tick.pc = "gate" /\ (GateExits \/ ReadOutput \/ FinishGate)
  BY <1>5 DEF GateStep, Judges
<1>6. ASSUME HookStep \/ OpeningStep \/ StartsAgain
      PROVE  UNCHANGED gateVars
  BY <1>6 DEF HookStep, OpeningStep, StartsAgain, NoGate
<1>7. ASSUME Signal
      PROVE  UNCHANGED gateVars \/ GateSignalled
  BY <1>7 DEF Signal
<1> QED
  BY <1>1, <1>2, <1>3, <1>4, <1>5, <1>6, <1>7 DEF Next, Ticks

\* No step of the service disturbs the log.
LEMMA LogStep ==
    ASSUME LogInv, TickInv, [Next]_serviceVars
    PROVE  LogInv'
<1>1. CASE UNCHANGED gateVars
  BY <1>1 DEF gateVars, LogInv
<1>2. CASE Forgotten
  <2>1. shell' = NoShell /\ log' = NewLog(1)
    BY <1>2 DEF Forgotten
  <2>2. (NoShell \in ShellState /\ NoShell.unread <= NoShell.printed)
    BY NoGateHolds, GateAssumption DEF NoShell, ShellState, Verdict
  <2>3. NoShell.printed - NoShell.unread = 0
    BY DEF NoShell
  <2>4. NewLog(1) \in LogState /\ HasTaken(NewLog(1), 0) /\ ~NewLog(1).finished
    BY NewLogHasNothing DEF NewLog
  <2> QED  BY <2>1, <2>2, <2>3, <2>4 DEF LogInv
<1>3. CASE tick.pc = "select" /\ StartGate(tick.cap)
  <2>1. tick.cap \in Nat
    BY DEF TickInv, TickState
  <2> QED  BY <1>3, <2>1, StartKeepsLog
<1>4. CASE tick.pc = "gate" /\ (GateExits \/ ReadOutput \/ FinishGate)
  <2>1. ~log.finished
    BY <1>4 DEF TickInv
  <2> QED  BY <1>4, <2>1, ExitKeepsLog, ReadKeepsLog, FinishKeepsLog
<1>5. CASE GateSignalled
  BY <1>5, SignalKeepsLog
<1> QED
  BY <1>1, <1>2, <1>3, <1>4, <1>5, GateMoves DEF serviceVars, gateVars

\* A hook moves by itself, or when the tick spawns and joins it.
LEMMA HookMoves ==
    ASSUME Next
    PROVE  \/ UNCHANGED hook
           \/ hook' = Spawned
           \/ HookActs \/ HookLoop \/ Drain \/ DeadlinePasses \/ Join
<1>1. ASSUME \/ Loops \/ OpeningStep \/ StartsAgain \/ Signal
      PROVE  UNCHANGED hook
  BY <1>1 DEF Loops, Opens, StopsOrTicks, Wakes, TickedOnce, TickSucceeded,
              TickInterrupted, TickFailed, GivesUp, Observed, OpeningStep,
              StartsAgain, Signal, NoHooks
<1>2. ASSUME \/ FindsHeld \/ Acquires \/ Guards
             \/ FindsNoBase \/ FindsNoConfig \/ ReadsConfig \/ RefusesConfig
             \/ HasNothingToGate \/ Conflicts \/ Gates \/ GateStep \/ Judges
             \/ HookUnrunnable \/ AllTold
             \/ Releases \/ ReleaseFails
      PROVE  UNCHANGED hook
  BY <1>2 DEF FindsHeld, Acquires, Guards, FindsNoBase, FindsNoConfig, ReadsConfig,
              RefusesConfig, HasNothingToGate, Conflicts, Gates, GateStep, Judges,
              HookUnrunnable, AllTold, Releases, ReleaseFails, NoHooks
<1>3. ASSUME \/ Lands \/ CannotMove \/ FindsStale \/ VoidsVerdict \/ Splits
             \/ Blames \/ StepFails
      PROVE  UNCHANGED hook
  BY <1>3 DEF Lands, CannotMove, FindsStale, VoidsVerdict, Splits, Blames,
              StepFails, NoHooks
<1>4. ASSUME RunsHook PROVE hook' = Spawned
  BY <1>4 DEF RunsHook
<1>5. ASSUME HookDone PROVE Join
  BY <1>5 DEF HookDone
<1>6. ASSUME HookStep PROVE HookActs \/ HookLoop \/ Drain \/ DeadlinePasses
  BY <1>6 DEF HookStep
<1> QED
  BY <1>1, <1>2, <1>3, <1>4, <1>5, <1>6 DEF Next, Ticks

\* No step of the service disturbs the hook.
LEMMA HookInvStep ==
    ASSUME HookInv, [Next]_serviceVars
    PROVE  HookInv'
<1>1. CASE UNCHANGED hook
  BY <1>1 DEF HookInv
<1>2. CASE hook' = Spawned
  BY <1>2, HookStarts, HookAssumption DEF HookInv
<1>3. CASE HookActs \/ HookLoop \/ Drain \/ DeadlinePasses \/ Join
  BY <1>3, HookKeepsTypes
<1> QED  BY <1>1, <1>2, <1>3, HookMoves DEF serviceVars

\* A signal, and starting again, change what the loop was asked, and no more.
LEMMA AskedLoop ==
    ASSUME loop \in LoopState, NEW stop \in BOOLEAN,
           loop' = [loop EXCEPT !.stop = stop]
    PROVE  /\ loop' \in LoopState
           /\ loop'.pc = loop.pc /\ loop'.once = loop.once
           /\ loop'.base = loop.base
           /\ loop'.inARow = loop.inARow /\ loop'.summary = loop.summary
           /\ loop'.repeating = loop.repeating /\ loop'.shown = loop.shown
  BY DEF LoopState

\* Every step keeps the loop, the tick and its gate and hook in order.
LEMMA TypesStep ==
    ASSUME TickInv, LogInv, HookInv, [Next]_serviceVars
    PROVE  TickInv'
<1>1. CASE Loops
  BY <1>1, OpeningKeepsTypes, ObservingKeepsTypes DEF Loops
<1>2. CASE Ticks
  <2>1. /\ TickMoves
        /\ Hooking' => tick'.pc = "hooks" /\ tick'.tell > 0
        /\ tick'.pc = "gate" => StartGate(tick.cap) \/ (GateStep /\ tick.pc = "gate")
    BY <1>2, TickDoes
  <2>2. tick'.pc = "gate" => ~log'.finished
    <3>1. tick.cap \in Nat
      BY DEF TickInv, TickState
    <3>2. StartGate(tick.cap) => ~log'.finished
      BY <3>1, StartKeepsLog
    <3>3. GateStep /\ tick.pc = "gate" => ~log'.finished
      BY ExitKeepsLog, ReadKeepsLog DEF GateStep, TickInv
    <3> QED  BY <2>1, <3>2, <3>3
  <2>3. /\ loop' = loop /\ loop.pc = "ticking" /\ tick'.pc # "none"
        /\ tick' \in TickState /\ past' \in PastState
    BY <2>1 DEF TickMoves, TickInv
  <2> QED  BY <2>1, <2>2, <2>3 DEF TickInv
<1>3. CASE HookStep
  <2>1. Hooking /\ Hooking'
    BY <1>3, HookGoesOn DEF HookStep
  <2>2. tick' = tick /\ loop' = loop /\ past' = past /\ log' = log
    BY <1>3 DEF HookStep, NoLoop, NoGate, gateVars
  <2> QED  BY <2>1, <2>2 DEF TickInv
<1>4. CASE Signal \/ StartsAgain
  <2>1. /\ \E stop \in BOOLEAN : loop' = [loop EXCEPT !.stop = stop]
        /\ tick' = tick /\ past' = past /\ hook' = hook /\ log' = log
    BY <1>4 DEF Signal, StartsAgain, GateSignalled, NoHooks, NoGate, gateVars
  <2>2. loop' \in LoopState /\ loop'.pc = loop.pc
    BY <2>1, AskedLoop DEF TickInv
  <2> QED  BY <2>1, <2>2 DEF TickInv, Hooking
<1>5. CASE OpeningStep \/ UNCHANGED serviceVars
  <2>1. /\ loop' = loop /\ tick' = tick /\ past' = past /\ hook' = hook
        /\ log' = log
    BY <1>5 DEF OpeningStep, serviceVars, NoLoop, NoHooks, NoGate, gateVars
  <2> QED  BY <2>1 DEF TickInv, Hooking
<1> QED  BY <1>1, <1>2, <1>3, <1>4, <1>5 DEF Next

-----------------------------------------------------------------------------
(* What the loop counts and says.                                          *)

\* How many failures in a row the loop takes: zero counts as one.
Patience == IF GiveUpAfter >= 1 THEN GiveUpAfter ELSE 1

\* The last n ticks failed, and the one before them did not.
FailedLast(n) ==
    /\ n \in Nat /\ n <= Len(past.classes)
    /\ \A i \in (Len(past.classes) - n + 1)..Len(past.classes) :
          past.classes[i] = "failed"
    /\ n < Len(past.classes) => past.classes[Len(past.classes) - n] # "failed"

\* What the tick under way has done that the summary does not have yet.
Landing == IF tick.outcome = "landed" THEN tick.entries ELSE 0
Evicting == IF tick.outcome = "evicted" THEN 1 ELSE 0

\* The failures in a row are those that past ends in, no fewer and no more, and
\* the loop has given up exactly when they are as many as it takes.
Counts ==
    ~loop.once /\ loop.pc \notin {"returned", "errored"} =>
        /\ FailedLast(loop.inARow)
        /\ loop.pc = "gave up" <=> loop.inARow >= Patience

\* The last line printed is about the last tick; one that gave up prints its
\* error elsewhere.
Shows ==
    /\ loop.repeating /\ ~loop.once => loop.shown = "quiet"
    /\ loop.pc # "gave up" /\ past.classes # <<>> =>
          loop.shown = Last(past.classes)

\* The summary lacks what the tick under way has done, and nothing else.
Sums ==
    ~past.unreported /\ ~loop.once =>
        /\ past.landed = loop.summary.landed + Landing
        /\ past.evicted = loop.summary.evicted + Evicting

\* A tick has no outcome before it is decided.
CountInv ==
    /\ tick.pc \in Undecided \cup {"none"} => tick.outcome = "none"
    /\ Counts /\ Shows /\ Sums

\* A tick failed if and only if it ended in an error.
LEMMA ClassesAre ==
    ASSUME NEW outcome, NEW class, ClassOf(outcome) = class
    PROVE  /\ class = "failed" <=> outcome = "error"
           /\ class \in {"failed", "progress", "quiet"}
  BY DEF ClassOf, Progress

\* One more tick is recorded at the end of the past.
LEMMA OneMoreClass ==
    ASSUME past \in PastState, NEW class \in Class, History(class)
    PROVE  /\ past'.classes = Append(past.classes, class)
           /\ past'.classes # <<>> /\ Last(past'.classes) = class
           /\ Len(past'.classes) = Len(past.classes) + 1
           /\ Len(past.classes) \in Nat
           /\ past'.classes[Len(past'.classes)] = class
           /\ \A i \in 1..Len(past.classes) : past'.classes[i] = past.classes[i]
           /\ past'.landed = past.landed /\ past'.evicted = past.evicted
           /\ past'.unreported = past.unreported
<1>1. PICK classes : classes = past.classes
  OBVIOUS
<1>2. PICK more : more = Append(classes, class)
  OBVIOUS
<1>3. classes \in Seq(Class)
  BY <1>1 DEF PastState
<1>4. past' = [past EXCEPT !.classes = more]
  BY <1>1, <1>2 DEF History, PastState
<1>5. /\ past'.classes = more
      /\ past'.landed = past.landed /\ past'.evicted = past.evicted
      /\ past'.unreported = past.unreported
  BY <1>4 DEF PastState
<1>6. /\ Len(classes) \in Nat /\ Len(more) = Len(classes) + 1
      /\ more[Len(more)] = class
      /\ \A i \in 1..Len(classes) : more[i] = classes[i]
      /\ more \in Seq(Class)
  BY ONLY <1>2, <1>3, class \in Class
<1>7. more # <<>> /\ Last(more) = class
  BY <1>6 DEF Last
<1> QED  BY <1>1, <1>2, <1>5, <1>6, <1>7

\* After another failure, one more of the last ticks failed.
LEMMA OneMoreFailure ==
    ASSUME past \in PastState, History("failed"), NEW n, FailedLast(n)
    PROVE  FailedLast(n + 1)'
<1>1. "failed" \in Class
  BY DEF Class
<1>2. PICK len : len = Len(past.classes)
  OBVIOUS
<1>3. /\ len \in Nat /\ Len(past'.classes) = len + 1
      /\ past'.classes[len + 1] = "failed"
      /\ \A i \in 1..len : past'.classes[i] = past.classes[i]
  BY <1>1, <1>2, OneMoreClass
<1>4. /\ n \in Nat /\ n <= len
      /\ \A i \in (len - n + 1)..len : past.classes[i] = "failed"
      /\ n < len => past.classes[len - n] # "failed"
  BY <1>2 DEF FailedLast
<1>5. \A i \in (len + 1 - (n + 1) + 1)..(len + 1) : past'.classes[i] = "failed"
  <2> TAKE i \in (len + 1 - (n + 1) + 1)..(len + 1)
  <2>1. CASE i = len + 1
    BY <1>3, <2>1
  <2>2. CASE i # len + 1
    <3>1. i \in (len - n + 1)..len /\ i \in 1..len
      BY <1>3, <1>4, <2>2
    <3> QED  BY <1>3, <1>4, <3>1
  <2> QED  BY <2>1, <2>2
<1>6. n + 1 < len + 1 => past'.classes[len + 1 - (n + 1)] # "failed"
  <2> SUFFICES ASSUME n + 1 < len + 1
               PROVE  past'.classes[len + 1 - (n + 1)] # "failed"
    OBVIOUS
  <2>1. len + 1 - (n + 1) = len - n /\ len - n \in 1..len /\ n < len
    BY <1>3, <1>4
  <2> QED  BY <1>3, <1>4, <2>1
<1>7. n + 1 \in Nat /\ n + 1 <= len + 1
  BY <1>3, <1>4
<1> QED  BY <1>3, <1>5, <1>6, <1>7 DEF FailedLast

\* After anything else, none did.
LEMMA NoFailureYet ==
    ASSUME past \in PastState, NEW class \in Class \ {"failed"}, History(class)
    PROVE  FailedLast(0)'
<1>1. PICK len : len = Len(past'.classes)
  OBVIOUS
<1>2. len \in Nat /\ past'.classes[len] # "failed"
  BY <1>1, OneMoreClass
<1>3. (len - 0 + 1)..len = {} /\ len - 0 = len
  BY <1>2
<1> QED  BY <1>1, <1>2, <1>3 DEF FailedLast

-----------------------------------------------------------------------------
(* What a step counts.                                                     *)

\* Nothing has happened when the process starts.
LEMMA CountsAtFirst == Init => CountInv
<1> SUFFICES ASSUME Init PROVE CountInv
  OBVIOUS
<1>1. PICK name \in BaseName, once \in BOOLEAN :
         loop = [pc |-> "opening", once |-> once, base |-> name,
                 stop |-> FALSE, inARow |-> 0,
                 summary |-> [ticks |-> 0, landed |-> 0, evicted |-> 0,
                              failures |-> 0],
                 repeating |-> FALSE, shown |-> "nothing"]
  BY DEF Init
<1>2. /\ loop.pc = "opening" /\ loop.inARow = 0 /\ ~loop.repeating
      /\ loop.summary.landed = 0 /\ loop.summary.evicted = 0
  BY <1>1
<1>3. past.classes = <<>> /\ past.landed = 0 /\ past.evicted = 0
  BY DEF Init
<1>4. tick.outcome = "none"
  BY NoTickIsTyped DEF Init
<1>5. FailedLast(0)
  <2>1. Len(past.classes) = 0 /\ (0 - 0 + 1)..0 = {} /\ 0 \in Nat /\ ~(0 < 0)
    BY <1>3
  <2> QED  BY <2>1 DEF FailedLast
<1>6. ~(0 >= Patience)
  BY ServiceAssumption DEF Patience
<1>7. Counts
  BY <1>2, <1>5, <1>6 DEF Counts
<1>8. Shows
  BY <1>2, <1>3 DEF Shows
<1>9. Sums
  BY <1>2, <1>3, <1>4 DEF Sums, Landing, Evicting
<1> QED  BY <1>4, <1>7, <1>8, <1>9 DEF CountInv

\* What the loop counts is about the classes of past ticks alone.
LEMMA FailuresStay ==
    ASSUME NEW n, past'.classes = past.classes
    PROVE  FailedLast(n)' <=> FailedLast(n)
  BY DEF FailedLast

\* A step that moves the loop between two ticks, and counts nothing.
LEMMA CountsStay ==
    ASSUME CountInv, past' = past,
           tick'.pc = "none" \/ tick'.pc \in Undecided => tick'.outcome = "none",
           Landing' = Landing, Evicting' = Evicting,
           loop'.once = loop.once, loop'.inARow = loop.inARow,
           loop'.summary = loop.summary, loop'.repeating = loop.repeating,
           loop'.shown = loop.shown,
           loop'.pc = "gave up" <=> loop.pc = "gave up",
           loop.pc \in {"returned", "errored"} =>
               loop'.pc \in {"returned", "errored"}
    PROVE  CountInv'
<1>1. Counts'
  BY FailuresStay DEF CountInv, Counts, Patience
<1>2. Shows'
  BY DEF CountInv, Shows
<1>3. Sums'
  BY DEF CountInv, Sums
<1> QED  BY <1>1, <1>2, <1>3 DEF CountInv

\* Nothing is counted before and between ticks.
LEMMA OpeningCounts ==
    ASSUME TickInv, CountInv, Opens \/ StopsOrTicks \/ Wakes
    PROVE  CountInv'
<1>1. loop \in LoopState
  BY DEF TickInv
<1>2. PICK pc \in {"check", "returned", "ticking"} :
         loop' = [loop EXCEPT !.pc = pc]
  BY DEF Opens, StopsOrTicks, Wakes
<1>3. /\ loop'.pc = pc
      /\ loop'.once = loop.once /\ loop'.inARow = loop.inARow
      /\ loop'.summary = loop.summary /\ loop'.repeating = loop.repeating
      /\ loop'.shown = loop.shown
  BY <1>1, <1>2 DEF LoopState
<1>4. /\ past' = past /\ tick.pc = "none"
      /\ loop.pc \notin {"gave up", "returned", "errored"}
      /\ tick' = tick \/ tick' = [NoTick EXCEPT !.pc = "acquire"]
  BY DEF Opens, StopsOrTicks, Wakes, TickInv
<1>5. tick.outcome = "none"
  BY <1>4 DEF CountInv
<1>6. tick'.outcome = "none"
  BY <1>4, <1>5, NoTickIsTyped DEF TickState
<1>7. Landing' = Landing /\ Evicting' = Evicting
  BY <1>5, <1>6 DEF Landing, Evicting
<1> QED  BY <1>3, <1>4, <1>6, <1>7, CountsStay

\* What is true whenever the loop is told of a tick.
LEMMA ObservingEnds ==
    ASSUME TickInv, NEW class \in Class, Observed(class)
    PROVE  /\ loop \in LoopState /\ tick \in TickState /\ past \in PastState
           /\ loop.pc = "ticking"
           /\ tick'.outcome = "none" /\ tick'.pc = "none"
           /\ Landing' = 0 /\ Evicting' = 0
           /\ class = "failed" => Landing = 0 /\ Evicting = 0
           /\ class = "failed" <=> tick.outcome = "error"
           /\ loop.inARow \in Nat
<1>1. tick.pc = "observe" /\ ClassOf(tick.outcome) = class /\ tick' = NoTick
  BY DEF Observed
<1>2. tick'.outcome = "none" /\ tick'.pc = "none"
  BY <1>1, NoTickIsTyped
<1>3. Landing' = 0 /\ Evicting' = 0
  BY <1>2 DEF Landing, Evicting
<1>4. class = "failed" <=> tick.outcome = "error"
  BY <1>1, ClassesAre
<1>5. class = "failed" => Landing = 0 /\ Evicting = 0
  BY <1>4 DEF Landing, Evicting
<1>6. loop \in LoopState /\ tick \in TickState /\ past \in PastState
      /\ loop.pc = "ticking"
  BY <1>1 DEF TickInv
<1>7. loop.inARow \in Nat
  BY ONLY <1>6 DEF LoopState
<1> QED  BY <1>2, <1>3, <1>4, <1>5, <1>6, <1>7

\* sasse tick prints its only outcome.
LEMMA OnceCounts ==
    ASSUME TickInv, CountInv, TickedOnce
    PROVE  CountInv'
<1>1. PICK class \in Class :
         /\ loop.once /\ Observed(class) /\ History(class)
         /\ loop' = [loop EXCEPT
               !.pc = IF class = "failed" THEN "errored" ELSE "returned",
               !.shown = class]
  BY DEF TickedOnce
<1>2. loop \in LoopState /\ past \in PastState /\ tick'.outcome = "none"
  BY <1>1, ObservingEnds
<1>3. loop'.once /\ loop'.shown = class /\ loop'.pc \in {"returned", "errored"}
  BY <1>1, <1>2 DEF LoopState
<1>4. Last(past'.classes) = class
  BY <1>1, <1>2, OneMoreClass
<1> QED  BY <1>2, <1>3, <1>4 DEF CountInv, Counts, Shows, Sums

\* A tick that did not fail starts the count of failures again.
LEMMA SuccessCounts ==
    ASSUME TickInv, CountInv, TickSucceeded
    PROVE  CountInv'
<1>1. PICK class \in {"progress", "quiet"} :
         /\ ~loop.once /\ Observed(class) /\ History(class)
         /\ loop' = [loop EXCEPT
               !.pc = PauseAfter(class), !.inARow = 0,
               !.summary = Recorded(@),
               !.shown = LastShown(class), !.repeating = class = "quiet"]
  BY DEF TickSucceeded
<1>2. class \in Class /\ class \in Class \ {"failed"}
  BY DEF Class
<1>3. /\ loop \in LoopState /\ past \in PastState /\ loop.pc = "ticking"
      /\ tick'.outcome = "none" /\ Landing' = 0 /\ Evicting' = 0
      /\ tick.outcome # "error"
  BY <1>1, <1>2, ObservingEnds
<1>4. /\ loop'.pc = PauseAfter(class) /\ loop'.once = loop.once
      /\ loop'.inARow = 0 /\ loop'.summary = Recorded(loop.summary)
      /\ loop'.shown = LastShown(class) /\ loop'.repeating = (class = "quiet")
  BY <1>1, <1>3 DEF LoopState
<1>5. /\ past'.classes # <<>> /\ Last(past'.classes) = class
      /\ past'.landed = past.landed /\ past'.evicted = past.evicted
      /\ past'.unreported = past.unreported
  BY <1>1, <1>2, <1>3, OneMoreClass
<1>6. FailedLast(0)'
  BY <1>1, <1>2, <1>3, NoFailureYet
<1>7. ~(0 >= Patience)
  BY ServiceAssumption DEF Patience
<1>8. PauseAfter(class) # "gave up"
  BY DEF PauseAfter
<1>9. Counts'
  BY <1>4, <1>6, <1>7, <1>8 DEF Counts, Patience
<1>10. loop'.shown = class
  BY <1>1, <1>4 DEF LastShown, CountInv, Shows
<1>11. Shows'
  BY <1>4, <1>5, <1>10 DEF Shows
<1>12. /\ Recorded(loop.summary).landed = loop.summary.landed + Landing
       /\ Recorded(loop.summary).evicted = loop.summary.evicted + Evicting
  BY <1>3 DEF Recorded, Landing, Evicting, LoopState, Summary
<1>13. /\ past.landed \in Nat /\ past.evicted \in Nat
  BY <1>3 DEF PastState
<1>14. Sums'
  BY <1>3, <1>4, <1>5, <1>12, <1>13 DEF CountInv, Sums
<1> QED  BY <1>3, <1>9, <1>11, <1>14 DEF CountInv

\* A tick that failed under a stop is not counted.
LEMMA InterruptionCounts ==
    ASSUME TickInv, CountInv, TickInterrupted
    PROVE  CountInv'
<1>1. /\ ~loop.once /\ Observed("failed") /\ past' = past
      /\ loop' = [loop EXCEPT !.pc = "returned"]
  BY DEF TickInterrupted
<1>2. "failed" \in Class
  BY DEF Class
<1>3. /\ loop \in LoopState /\ loop.pc = "ticking" /\ tick'.outcome = "none"
      /\ Landing' = Landing /\ Evicting' = Evicting
  BY <1>1, <1>2, ObservingEnds
<1>4. /\ loop'.pc = "returned" /\ loop'.once = loop.once
      /\ loop'.inARow = loop.inARow /\ loop'.summary = loop.summary
      /\ loop'.repeating = loop.repeating /\ loop'.shown = loop.shown
  BY <1>1, <1>3 DEF LoopState
<1> QED  BY <1>1, <1>3, <1>4, CountsStay

\* A failure is counted, and is the last one or is not.
LEMMA FailureCounts ==
    ASSUME TickInv, CountInv, TickFailed \/ GivesUp
    PROVE  CountInv'
<1>1. ~loop.once /\ Observed("failed") /\ History("failed")
  BY DEF TickFailed, GivesUp
<1>2. "failed" \in Class
  BY DEF Class
<1>3. /\ loop \in LoopState /\ past \in PastState /\ loop.pc = "ticking"
      /\ tick'.outcome = "none"
      /\ Landing' = 0 /\ Evicting' = 0 /\ Landing = 0 /\ Evicting = 0
      /\ loop.inARow \in Nat
  BY <1>1, <1>2, ObservingEnds
<1>4. /\ past'.classes # <<>> /\ Last(past'.classes) = "failed"
      /\ past'.landed = past.landed /\ past'.evicted = past.evicted
      /\ past'.unreported = past.unreported
  BY <1>1, <1>2, <1>3, OneMoreClass
<1>5. FailedLast(loop.inARow)
  BY <1>1, <1>3 DEF CountInv, Counts
<1>6. PICK n : n = loop.inARow + 1
  OBVIOUS
<1>7. FailedLast(n)'
  BY <1>1, <1>3, <1>5, <1>6, OneMoreFailure
<1>8. PICK summary : summary = Failed(loop.summary)
  OBVIOUS
<1>9. /\ summary.landed = loop.summary.landed
      /\ summary.evicted = loop.summary.evicted
  BY <1>3, <1>8 DEF Failed, LoopState, Summary
<1>10. CASE TickFailed
  <2>1. loop' = [loop EXCEPT
           !.pc = "pausing", !.inARow = n, !.summary = summary,
           !.shown = "failed", !.repeating = FALSE]
    BY <1>3, <1>6, <1>8, <1>10 DEF TickFailed
  <2>2. /\ loop'.pc = "pausing" /\ loop'.inARow = n /\ loop'.summary = summary
        /\ loop'.shown = "failed" /\ ~loop'.repeating /\ loop'.once = loop.once
    BY ONLY <1>3, <2>1 DEF LoopState
  <2>3. ~(n >= Patience)
    BY <1>3, <1>6, <1>10, ServiceAssumption DEF Patience, TickFailed
  <2>4. Counts'
    BY <1>7, <2>2, <2>3 DEF Counts, Patience
  <2>5. Shows'
    BY <1>4, <2>2 DEF Shows
  <2>6. Sums'
    BY <1>3, <1>4, <1>9, <2>2 DEF CountInv, Sums
  <2> QED  BY <1>3, <2>4, <2>5, <2>6 DEF CountInv
<1>11. CASE GivesUp
  <2>1. loop' = [loop EXCEPT
           !.pc = "gave up", !.inARow = n, !.summary = summary]
    BY <1>3, <1>6, <1>8, <1>11 DEF GivesUp
  <2>2. /\ loop'.pc = "gave up" /\ loop'.inARow = n /\ loop'.summary = summary
        /\ loop'.shown = loop.shown /\ loop'.repeating = loop.repeating
        /\ loop'.once = loop.once
    BY ONLY <1>3, <2>1 DEF LoopState
  <2>3. n >= Patience
    BY <1>3, <1>6, <1>11, ServiceAssumption DEF Patience, GivesUp
  <2>4. Counts'
    BY <1>7, <2>2, <2>3 DEF Counts, Patience
  <2>5. Shows'
    BY <2>2 DEF CountInv, Shows
  <2>6. Sums'
    BY <1>3, <1>4, <1>9, <2>2 DEF CountInv, Sums
  <2> QED  BY <1>3, <2>4, <2>5, <2>6 DEF CountInv
<1> QED  BY <1>10, <1>11

\* While a tick is under way, what it settles is what the summary will lack.
LEMMA TickCounts ==
    ASSUME CountInv, TickInv, TickMoves, loop.pc = "ticking"
    PROVE  CountInv'
<1>1. /\ loop' = loop /\ loop \in LoopState
      /\ tick \in TickState /\ tick' \in TickState
      /\ past \in PastState /\ past' \in PastState
      /\ tick.pc # "none" /\ tick'.pc # "none"
  BY DEF TickMoves, TickInv
<1>2. /\ past.landed \in Nat /\ past.evicted \in Nat
      /\ tick.entries \in Nat /\ tick'.entries \in Nat
  BY <1>1, ServiceAssumption DEF PastState, TickState
<1>3. loop.summary.landed \in Nat /\ loop.summary.evicted \in Nat
  BY <1>1 DEF LoopState, Summary
<1>4. tick.pc \in Undecided =>
         tick.outcome = "none" /\ Landing = 0 /\ Evicting = 0
  BY DEF CountInv, Landing, Evicting
<1>5. CASE GoesOn
  <2>1. Landing' = Landing /\ Evicting' = Evicting
    BY <1>4, <1>5 DEF GoesOn, Landing, Evicting
  <2>2. tick'.pc \in Undecided => tick'.outcome = "none"
    BY <1>4, <1>5 DEF GoesOn
  <2> QED  BY <1>1, <1>5, <2>1, <2>2, CountsStay DEF GoesOn
<1>6. CASE EndsWithNothing
  <2>1. Landing' = Landing /\ Evicting' = Evicting
    BY <1>4, <1>6 DEF EndsWithNothing, Landing, Evicting
  <2> QED  BY <1>1, <1>6, <2>1, CountsStay DEF EndsWithNothing
<1>7. ASSUME past'.classes = past.classes, tick'.pc \notin Undecided, Sums'
      PROVE  CountInv'
  <2>1. Counts'
    BY <1>1, <1>7, FailuresStay DEF CountInv, Counts, Patience
  <2>2. Shows'
    BY <1>1, <1>7 DEF CountInv, Shows
  <2> QED  BY <1>1, <1>7, <2>1, <2>2 DEF CountInv
<1>8. CASE EndsWith("landed")
  <2>1. /\ tick.pc \in Undecided /\ tick'.pc \notin Undecided
        /\ tick'.outcome = "landed"
        /\ past' = [past EXCEPT !.landed = @ + tick'.entries]
    BY <1>8 DEF EndsWith
  <2>2. /\ past'.classes = past.classes /\ past'.unreported = past.unreported
        /\ past'.landed = past.landed + tick'.entries
        /\ past'.evicted = past.evicted
    BY <1>1, <2>1 DEF PastState
  <2>3. Landing' = tick'.entries /\ Evicting' = 0
    BY <2>1 DEF Landing, Evicting
  <2>4. Sums'
    BY <1>1, <1>2, <1>3, <1>4, <2>1, <2>2, <2>3 DEF CountInv, Sums
  <2> QED  BY <1>7, <2>1, <2>2, <2>4
<1>9. CASE EndsWith("evicted")
  <2>1. /\ tick.pc \in Undecided /\ tick'.pc \notin Undecided
        /\ tick'.outcome = "evicted"
        /\ past' = [past EXCEPT !.evicted = @ + 1]
    BY <1>9 DEF EndsWith
  <2>2. /\ past'.classes = past.classes /\ past'.unreported = past.unreported
        /\ past'.landed = past.landed /\ past'.evicted = past.evicted + 1
    BY <1>1, <2>1 DEF PastState
  <2>3. Landing' = 0 /\ Evicting' = 1
    BY <2>1 DEF Landing, Evicting
  <2>4. Sums'
    BY <1>1, <1>2, <1>3, <1>4, <2>1, <2>2, <2>3 DEF CountInv, Sums
  <2> QED  BY <1>7, <2>1, <2>2, <2>4
<1>10. CASE EndsUntold
  <2>1. /\ tick'.pc \notin Undecided /\ tick'.outcome = "error"
        /\ past' = [past EXCEPT
              !.unreported = @ \/ tick.outcome \in {"landed", "evicted"}]
    BY <1>10 DEF EndsUntold
  <2>2. /\ past'.classes = past.classes
        /\ past'.landed = past.landed /\ past'.evicted = past.evicted
        /\ past'.unreported
              <=> past.unreported \/ tick.outcome \in {"landed", "evicted"}
    BY <1>1, <2>1 DEF PastState
  <2>3. Landing' = 0 /\ Evicting' = 0
    BY <2>1 DEF Landing, Evicting
  <2>4. ~past'.unreported => Landing = 0 /\ Evicting = 0
    BY <2>2 DEF Landing, Evicting
  <2>5. Sums'
    BY <1>1, <1>2, <1>3, <2>2, <2>3, <2>4 DEF CountInv, Sums
  <2> QED  BY <1>7, <2>1, <2>2, <2>5
<1> QED  BY <1>5, <1>6, <1>8, <1>9, <1>10 DEF TickMoves

\* Every step keeps the counts.
LEMMA CountsStep ==
    ASSUME TickInv, CountInv, [Next]_serviceVars
    PROVE  CountInv'
<1>1. CASE Loops
  BY <1>1, OpeningCounts, OnceCounts, SuccessCounts, InterruptionCounts,
     FailureCounts DEF Loops
<1>2. CASE Ticks
  <2>1. TickMoves
    BY <1>2, TickDoes
  <2>2. loop.pc = "ticking"
    BY <2>1 DEF TickMoves, TickInv
  <2> QED  BY <2>1, <2>2, TickCounts
<1>3. CASE Signal \/ StartsAgain
  <2>1. /\ \E stop \in BOOLEAN : loop' = [loop EXCEPT !.stop = stop]
        /\ tick' = tick /\ past' = past
    BY <1>3 DEF Signal, StartsAgain
  <2>2. /\ loop'.pc = loop.pc /\ loop'.once = loop.once
        /\ loop'.inARow = loop.inARow /\ loop'.summary = loop.summary
        /\ loop'.repeating = loop.repeating /\ loop'.shown = loop.shown
    BY <2>1, AskedLoop DEF TickInv
  <2>3. Landing' = Landing /\ Evicting' = Evicting
    BY <2>1 DEF Landing, Evicting
  <2>4. tick'.pc = "none" \/ tick'.pc \in Undecided => tick'.outcome = "none"
    BY <2>1 DEF CountInv
  <2> QED  BY <2>1, <2>2, <2>3, <2>4, CountsStay
<1>4. CASE HookStep \/ OpeningStep \/ UNCHANGED serviceVars
  <2>1. loop' = loop /\ tick' = tick /\ past' = past
    BY <1>4 DEF HookStep, OpeningStep, serviceVars, NoLoop
  <2>2. Landing' = Landing /\ Evicting' = Evicting
    BY <2>1 DEF Landing, Evicting
  <2>3. tick'.pc = "none" \/ tick'.pc \in Undecided => tick'.outcome = "none"
    BY <2>1 DEF CountInv
  <2> QED  BY <2>1, <2>2, <2>3, CountsStay
<1> QED  BY <1>1, <1>2, <1>3, <1>4 DEF Next

-----------------------------------------------------------------------------
(* All of it together.                                                     *)

\* Opening is the only time the database is touched.
LEMMA DatabaseMoves ==
    ASSUME Next
    PROVE  \/ UNCHANGED databaseVars
           \/ \E p \in Opener : OpenStep(p) \/ OpenFails(p) \/ OpenAgain(p)
           \/ Opens
<1>1. ASSUME StopsOrTicks \/ Wakes \/ TickedOnce \/ TickSucceeded
             \/ TickInterrupted \/ TickFailed \/ GivesUp
      PROVE  UNCHANGED databaseVars
  BY <1>1 DEF StopsOrTicks, Wakes, TickedOnce, TickSucceeded, TickInterrupted,
              TickFailed, GivesUp, Observed, NoDatabase
<1>2. ASSUME \/ FindsHeld \/ Acquires \/ Guards
             \/ FindsNoBase \/ FindsNoConfig \/ ReadsConfig \/ RefusesConfig
             \/ HasNothingToGate \/ Conflicts \/ Gates \/ GateStep \/ Judges
             \/ RunsHook \/ HookUnrunnable \/ HookDone \/ AllTold
             \/ Releases \/ ReleaseFails
      PROVE  UNCHANGED databaseVars
  BY <1>2 DEF FindsHeld, Acquires, Guards, FindsNoBase, FindsNoConfig, ReadsConfig,
              RefusesConfig, HasNothingToGate, Conflicts, Gates, GateStep, Judges,
              RunsHook, HookUnrunnable, HookDone, AllTold, Releases, ReleaseFails,
              NoDatabase
<1>3. ASSUME \/ Lands \/ CannotMove \/ FindsStale \/ VoidsVerdict \/ Splits
             \/ Blames \/ StepFails \/ HookStep \/ Signal
      PROVE  UNCHANGED databaseVars
  BY <1>3 DEF Lands, CannotMove, FindsStale, VoidsVerdict, Splits, Blames,
              StepFails, HookStep, Signal, NoDatabase
<1>4. ASSUME OpeningStep \/ StartsAgain
      PROVE  \E p \in Opener : OpenStep(p) \/ OpenFails(p) \/ OpenAgain(p)
  BY <1>4, ServiceAssumption DEF OpeningStep, StartsAgain
<1> QED  BY <1>1, <1>2, <1>3, <1>4 DEF Next, Loops, Ticks

\* Every step keeps the database.
LEMMA DatabaseStep ==
    ASSUME DatabaseInv, [Next]_serviceVars
    PROVE  DatabaseInv'
<1>1. CASE UNCHANGED databaseVars
  BY <1>1 DEF databaseVars, DatabaseInv, Drafting
<1>2. ASSUME NEW p \in Opener, OpenStep(p) \/ OpenFails(p) \/ OpenAgain(p)
      PROVE  DatabaseInv'
  <2>1. CASE ReadVersion(p) \/ Lock(p) \/ ApplyNext(p) \/ Commit(p)
    BY <2>1, ReadKeepsDatabase, LockKeepsDatabase, ScriptKeepsDatabase,
       CommitKeepsDatabase
  <2>2. CASE Clash(p) \/ OpenFails(p)
    <3>1. opening' = [opening EXCEPT ![p] = At("failed")] /\ schema' = schema
      BY <2>2 DEF Clash, OpenFails
    <3> QED  BY <3>1, LeavingKeepsDatabase
  <2>3. CASE OpenAgain(p)
    <3>1. opening' = [opening EXCEPT ![p] = At("start")] /\ schema' = schema
      BY <2>3 DEF OpenAgain
    <3> QED  BY <3>1, LeavingKeepsDatabase
  <2> QED  BY <1>2, <2>1, <2>2, <2>3 DEF OpenStep
<1>3. CASE Opens
  <2>1. /\ schema' = schema /\ opening[Self].pc = "open"
        /\ opening' = [p \in Opener |-> IF p = Self THEN opening[p] ELSE At("closed")]
    BY <1>3 DEF Opens, Ready
  <2> QED  BY <2>1, ServiceAssumption, AllClosedKeepDatabase
<1> QED  BY <1>1, <1>2, <1>3, DatabaseMoves DEF serviceVars, databaseVars

\* The inductive invariant: one part for each part of the service.
ServiceInv == DatabaseInv /\ HookInv /\ LogInv /\ TickInv /\ CountInv

\* It holds of every state the service reaches.
LEMMA ServiceHolds == Spec => []ServiceInv
<1>1. Init => ServiceInv
  <2> SUFFICES ASSUME Init PROVE ServiceInv
    OBVIOUS
  <2>1. TickInv /\ CountInv
    BY TypedAtFirst, CountsAtFirst
  <2>2. DatabaseInv
    BY DatabaseInit0 DEF Init
  <2>3. HookInv
    BY HookStarts, HookAssumption DEF Init, HookInit, HookInv
  <2>4. LogInv
    BY NoGateHolds DEF Init, GateInit
  <2> QED  BY <2>1, <2>2, <2>3, <2>4 DEF ServiceInv
<1>2. ServiceInv /\ [Next]_serviceVars => ServiceInv'
  BY DatabaseStep, HookInvStep, LogStep, TypesStep, CountsStep DEF ServiceInv
<1> QED  BY <1>1, <1>2, PTL DEF Spec

\* Every variable of the service keeps its type, whatever the settings, the
\* layouts of the checkouts and the other commands opening the database.
THEOREM ServiceTypes == Spec => []TypeOK
<1>1. ServiceInv => TypeOK
  BY DEF ServiceInv, DatabaseInv, HookInv, LogInv, TickInv, TypeOK
<1> QED  BY <1>1, ServiceHolds, PTL

\* Any number of commands may open a database of any age at once (src/db.rs):
\* no script is run twice or skipped, and nobody goes on without all of them.
THEOREM SchemaStaysWhole == Spec => []SchemaIsWhole
<1>1. ServiceInv => SchemaIsWhole
  BY DEF ServiceInv, DatabaseInv, SchemaIsWhole, Ready
<1> QED  BY <1>1, ServiceHolds, PTL

\* The log of a finished gate (src/gate.rs) is the first and the last bytes of
\* its output, and the count of the rest, for every cap and every cutting up of
\* the output into reads.
THEOREM LogsKeepBothEnds == Spec => []LogKeepsBothEnds
<1>1. ServiceInv => LogKeepsBothEnds
  BY DEF ServiceInv, LogInv, LogKeepsBothEnds
<1> QED  BY <1>1, ServiceHolds, PTL

\* Every size the program can print (src/bytes.rs) reads back as itself.
THEOREM EverySizeIsReadBack == Spec => []SizesReadBack
<1>1. SizesReadBack
  BY EverySizeReadsBack DEF SizesReadBack
<1> QED  BY <1>1, PTL

\* The same number as the property says it.
LEMMA PatienceIsTheMax == Max({GiveUpAfter, 1}) = Patience
  BY MaxOfTwo, ServiceAssumption DEF Patience

\* The loop of src/worker.rs gives up after exactly --give-up-after failures in
\* a row, whatever that number is, zero taken as one.
THEOREM LoopGivesUpInTime == Spec => []GivesUpInTime
<1>1. ServiceInv => GivesUpInTime
  <2> SUFFICES ASSUME ServiceInv, ~loop.once,
                      loop.pc \in {"check", "pausing", "gave up"}
               PROVE  loop.pc = "gave up" <=> EndsInFailures(Patience)
    BY PatienceIsTheMax DEF GivesUpInTime
  <2>1. PICK n : n = loop.inARow
    OBVIOUS
  <2>2. PICK len : len = Len(past.classes)
    OBVIOUS
  <2>3. PICK enough : enough = Patience
    OBVIOUS
  <2>4. FailedLast(n) /\ (loop.pc = "gave up" <=> n >= enough)
    BY <2>1, <2>3 DEF ServiceInv, CountInv, Counts
  <2>5. /\ n \in Nat /\ n <= len
        /\ \A i \in (len - n + 1)..len : past.classes[i] = "failed"
        /\ n < len => past.classes[len - n] # "failed"
    BY <2>2, <2>4 DEF FailedLast
  <2>6. len \in Nat
    <3>1. past.classes \in Seq(Class)
      BY DEF ServiceInv, TickInv, PastState
    <3> QED  BY ONLY <2>2, <3>1
  <2>7. enough \in Nat \ {0}
    BY ONLY <2>3, ServiceAssumption DEF Patience
  <2>8. CASE n >= enough
    <3>1. len >= enough
      BY ONLY <2>5, <2>6, <2>7, <2>8
    <3>2. \A i \in (len - enough + 1)..len : past.classes[i] = "failed"
      <4> TAKE i \in (len - enough + 1)..len
      <4>1. i \in (len - n + 1)..len
        BY ONLY <2>5, <2>6, <2>7, <2>8, i \in (len - enough + 1)..len
      <4> QED  BY <2>5, <4>1
    <3> QED  BY <2>2, <2>3, <2>4, <2>8, <3>1, <3>2 DEF EndsInFailures
  <2>9. CASE ~(n >= enough)
    <3> SUFFICES ASSUME EndsInFailures(enough) PROVE FALSE
      BY <2>3, <2>4, <2>9
    <3>1. /\ len >= enough
          /\ \A i \in (len - enough + 1)..len : past.classes[i] = "failed"
      BY <2>2 DEF EndsInFailures
    <3>2. n < len /\ len - n \in (len - enough + 1)..len
      BY ONLY <2>5, <2>6, <2>7, <2>9, <3>1
    <3> QED  BY <2>5, <3>1, <3>2
  <2> QED  BY <2>8, <2>9
<1> QED  BY <1>1, ServiceHolds, PTL

\* What sasse work says it did, in its summary and on its last line, is what
\* it did, for every number of ticks.
THEOREM LoopSaysWhatHappened == Spec => []SaysWhatHappened
<1>1. ServiceInv => SaysWhatHappened
  <2> SUFFICES ASSUME ServiceInv, BetweenTicks
               PROVE  /\ ~past.unreported /\ ~loop.once =>
                            /\ loop.summary.landed = past.landed
                            /\ loop.summary.evicted = past.evicted
                      /\ past.classes # <<>> => loop.shown = Last(past.classes)
    BY DEF SaysWhatHappened
  <2>1. tick.pc = "none" /\ loop.pc # "gave up"
    BY DEF BetweenTicks, ServiceInv, TickInv
  <2>2. Landing = 0 /\ Evicting = 0
    BY <2>1 DEF ServiceInv, CountInv, Landing, Evicting
  <2>3. /\ Sums /\ Shows
        /\ loop.summary \in Summary
    BY DEF ServiceInv, CountInv, TickInv, LoopState
  <2>4. /\ loop.summary.landed + 0 = loop.summary.landed
        /\ loop.summary.evicted + 0 = loop.summary.evicted
    BY <2>3 DEF Summary
  <2> QED  BY <2>1, <2>2, <2>3, <2>4 DEF Sums, Shows
<1> QED  BY <1>1, ServiceHolds, PTL

-----------------------------------------------------------------------------
(* The checkouts, and the branch that moves.                               *)

\* A worktree as the guard knows it, and a line that git prints of one.
Listed == [path : Seq(STRING) \ {<<>>}, branch : Seq(STRING)]
Printed == [key : {"worktree", "HEAD", "branch", "detached"}, value : Seq(STRING)]

\* Three lines are printed of every worktree.
LEMMA LinesAreThree ==
    ASSUME NEW checkout \in Listed
    PROVE  /\ Lines(checkout) \in Seq(Printed) /\ Len(Lines(checkout)) = 3
           /\ Lines(checkout)[1] = [key |-> "worktree", value |-> checkout.path]
           /\ Lines(checkout)[2].key = "HEAD"
           /\ Lines(checkout)[3] = IF checkout.branch = <<>>
                                   THEN [key |-> "detached", value |-> <<>>]
                                   ELSE [key |-> "branch", value |-> checkout.branch]
<1>1. checkout.path \in Seq(STRING) /\ checkout.branch \in Seq(STRING)
  BY DEF Listed
<1>2. PICK on : on = IF checkout.branch = <<>>
                     THEN [key |-> "detached", value |-> <<>>]
                     ELSE [key |-> "branch", value |-> checkout.branch]
  OBVIOUS
<1>3. on \in Printed
  BY <1>1, <1>2 DEF Printed
<1>4. PICK path : path = [key |-> "worktree", value |-> checkout.path]
  OBVIOUS
<1>5. path \in Printed
  BY <1>1, <1>4 DEF Printed
<1>6. PICK sha : sha = [key |-> "HEAD", value |-> <<>>]
  OBVIOUS
<1>7. sha \in Printed /\ sha.key = "HEAD"
  BY <1>6 DEF Printed
<1>8. Lines(checkout) = <<path, sha, on>>
  BY <1>2, <1>4, <1>6 DEF Lines
<1> QED  BY ONLY <1>2, <1>3, <1>4, <1>5, <1>7, <1>8

\* What is printed of the first few worktrees.
PrintsFirst(lines, checkouts, i) ==
    /\ lines \in Seq(Printed) /\ Len(lines) = 3 * i
    /\ \A j \in 1..i :
          /\ lines[3 * j - 2] = Lines(checkouts[j])[1]
          /\ lines[3 * j - 1] = Lines(checkouts[j])[2]
          /\ lines[3 * j] = Lines(checkouts[j])[3]

\* The elements of two lists, one after the other.
LEMMA OneAfterAnother ==
    ASSUME NEW T, NEW s \in Seq(T), NEW next \in Seq(T)
    PROVE  /\ s \o next \in Seq(T) /\ Len(s \o next) = Len(s) + Len(next)
           /\ \A k \in 1..Len(s) : (s \o next)[k] = s[k]
           /\ \A k \in 1..Len(next) : (s \o next)[Len(s) + k] = next[k]
<1>1. /\ s \o next \in Seq(T) /\ Len(s \o next) = Len(s) + Len(next)
      /\ \A k \in 1..(Len(s) + Len(next)) :
            (s \o next)[k] = IF k <= Len(s) THEN s[k] ELSE next[k - Len(s)]
  BY ConcatProperties
<1>2. PICK all : all = s \o next
  OBVIOUS
<1>3. PICK m, n : m = Len(s) /\ n = Len(next)
  OBVIOUS
<1>4. m \in Nat /\ n \in Nat
  BY <1>3
<1>5. \A k \in 1..(m + n) : all[k] = IF k <= m THEN s[k] ELSE next[k - m]
  BY <1>1, <1>2, <1>3
<1>6. \A k \in 1..m : all[k] = s[k]
  BY ONLY <1>4, <1>5
<1>7. \A k \in 1..n : all[m + k] = next[k]
  <2>1. ASSUME NEW k \in 1..n
        PROVE  m + k \in 1..(m + n) /\ ~(m + k <= m) /\ (m + k) - m = k
    BY ONLY <1>4
  <2> QED  BY ONLY <1>5, <2>1
<1> QED  BY <1>1, <1>2, <1>3, <1>6, <1>7

\* The next worktree is printed after those before it.
LEMMA PrintsNext ==
    ASSUME NEW checkouts \in Seq(Listed), NEW i \in 1..Len(checkouts), NEW lines,
           PrintsFirst(lines, checkouts, i - 1)
    PROVE  PrintsFirst(lines \o Lines(checkouts[i]), checkouts, i)
<1>1. checkouts[i] \in Listed /\ i \in Nat
  OBVIOUS
<1>2. PICK next : next = Lines(checkouts[i])
  OBVIOUS
<1>3. next \in Seq(Printed) /\ Len(next) = 3
  BY <1>1, <1>2, LinesAreThree
<1>4. PICK more : more = lines \o next
  OBVIOUS
<1>5. lines \in Seq(Printed) /\ Len(lines) = 3 * (i - 1)
  BY DEF PrintsFirst
<1>6. /\ more \in Seq(Printed) /\ Len(more) = Len(lines) + 3
      /\ \A k \in 1..Len(lines) : more[k] = lines[k]
      /\ \A k \in 1..3 : more[Len(lines) + k] = next[k]
  <2>1. next \in Seq(Printed) /\ lines \in Seq(Printed)
    BY <1>3, <1>5
  <2>2. /\ lines \o next \in Seq(Printed)
        /\ Len(lines \o next) = Len(lines) + Len(next)
        /\ \A k \in 1..Len(lines) : (lines \o next)[k] = lines[k]
        /\ \A k \in 1..Len(next) : (lines \o next)[Len(lines) + k] = next[k]
    BY ONLY <2>1, OneAfterAnother
  <2> QED  BY <1>3, <1>4, <2>2
<1>7. PICK m : m = 3 * (i - 1)
  OBVIOUS
<1>8. /\ m + 3 = 3 * i /\ m + 2 = 3 * i - 1 /\ m + 1 = 3 * i - 2 /\ Len(lines) = m
      /\ \A k \in 1..m : more[k] = lines[k]
      /\ more[3 * i - 2] = next[1] /\ more[3 * i - 1] = next[2] /\ more[3 * i] = next[3]
  <2>1. m + 3 = 3 * i /\ m + 2 = 3 * i - 1 /\ m + 1 = 3 * i - 2
    BY ONLY <1>1, <1>7
  <2>2. 1 \in 1..3 /\ 2 \in 1..3 /\ 3 \in 1..3
    OBVIOUS
  <2> QED  BY <1>5, <1>6, <1>7, <2>1, <2>2
<1>9. ASSUME NEW j \in 1..i
      PROVE  /\ more[3 * j - 2] = Lines(checkouts[j])[1]
             /\ more[3 * j - 1] = Lines(checkouts[j])[2]
             /\ more[3 * j] = Lines(checkouts[j])[3]
  <2>1. CASE j = i
    BY <1>2, <1>8, <2>1
  <2>2. CASE j # i
    <3>1. /\ j \in 1..(i - 1)
          /\ 3 * j - 2 \in 1..m /\ 3 * j - 1 \in 1..m /\ 3 * j \in 1..m
      BY ONLY <1>1, <1>7, <2>2, j \in 1..i
    <3> QED  BY <1>8, <3>1 DEF PrintsFirst
  <2> QED  BY <2>1, <2>2
<1> QED  BY <1>2, <1>4, <1>6, <1>8, <1>9 DEF PrintsFirst

\* All of them are printed, in order.
LEMMA PorcelainPrints ==
    ASSUME NEW checkouts \in Seq(Listed)
    PROVE  PrintsFirst(Porcelain(checkouts), checkouts, Len(checkouts))
<1> DEFINE seqs == [i \in DOMAIN checkouts |-> Lines(checkouts[i])]
<1>1. PICK n : n = Len(checkouts)
  OBVIOUS
<1>2. /\ n \in Nat /\ DOMAIN checkouts = 1..n
      /\ \A i \in 1..n : checkouts[i] \in Listed
  BY <1>1
<1>3. \A i \in 1..n : Lines(checkouts[i]) \in Seq(Printed)
  BY <1>2, LinesAreThree
<1>4. PICK parts : parts = seqs
  OBVIOUS
<1>5. /\ parts \in Seq(Seq(Printed)) /\ Len(parts) = n
      /\ \A i \in 1..n : parts[i] = Lines(checkouts[i])
  <2>1. parts \in [1..n -> Seq(Printed)]
    BY <1>2, <1>3, <1>4
  <2> QED  BY <1>2, <1>4, <2>1
<1>6. Porcelain(checkouts) = FlattenSeq(parts)
  BY <1>4 DEF Porcelain
<1> HIDE DEF seqs
<1>7. CASE n = 0
  <2>1. FlattenSeq(parts) = parts
    BY <1>5, <1>7 DEF FlattenSeq
  <2>2. parts = <<>>
    BY <1>5, <1>7
  <2>3. parts \in Seq(Printed) /\ Len(parts) = 3 * 0
    BY <2>2
  <2> QED  BY <1>1, <1>6, <1>7, <2>1, <2>3 DEF PrintsFirst
<1>8. CASE n # 0
  <2> DEFINE T == Seq(Printed)
             step == [p \in T \X (1..n) |-> p[1] \o parts[p[2]]]
             Is(f) == f = [i \in 1..n |-> IF i = 1 THEN parts[i] ELSE f[i - 1] \o parts[i]]
             flat == CHOOSE f : Is(f)
  <2>1. /\ \A s \in T, i \in 1..n : s \o parts[i] \in T
        /\ \A s \in T, i \in 1..n : step[<<s, i>>] = s \o parts[i]
    <3>1. \A i \in 1..n : parts[i] \in T
      BY <1>3, <1>5
    <3>2. \A s \in T, i \in 1..n : s \o parts[i] \in T
      BY ONLY <3>1
    <3>3. \A s \in T, i \in 1..n : step[<<s, i>>] = s \o parts[i]
      <4> HIDE DEF T
      <4> QED  OBVIOUS
    <3> QED  BY <3>2, <3>3
  <2>2. step \in [T \X (1..n) -> T]
    <3> HIDE DEF T
    <3> QED  BY <2>1
  <2>3. <<>> \in T
    OBVIOUS
  <2>4. PICK g : GoesBy(g, T, n, <<>>, step)
    <3> HIDE DEF T, step
    <3> QED  BY ONLY <1>2, <2>2, <2>3, RecursionExists
  <2>5. PICK f : f = [i \in 1..n |-> g[i]]
    OBVIOUS
  <2>6. Is(f)
    <3>1. /\ \A i \in 1..n : f[i] = g[i] /\ g[i] = g[i - 1] \o parts[i]
          /\ \A i \in 0..n : g[i] \in T
          /\ g[0] = <<>>
      <4>1. \A i \in 1..n : i - 1 \in 0..n
        BY <1>2
      <4> HIDE DEF T, step
      <4> QED  BY <2>1, <2>4, <2>5, <4>1 DEF GoesBy
    <3>2. \A i \in 1..n : i = 1 \/ i - 1 \in 1..n
      BY <1>2
    <3>3. 1 \in 1..n /\ 1 - 1 = 0
      BY <1>2, <1>8
    <3>4. f[1] = parts[1]
      <4>1. f[1] = <<>> \o parts[1] /\ parts[1] \in Seq(Printed)
        BY ONLY <1>3, <1>5, <3>1, <3>3
      <4> QED  BY <4>1
    <3>5. \A i \in 1..n : f[i] = IF i = 1 THEN parts[i] ELSE f[i - 1] \o parts[i]
      BY ONLY <3>1, <3>2, <3>4
    <3>6. f = [i \in 1..n |-> f[i]]
      BY ONLY <2>5
    <3> QED  BY ONLY <3>5, <3>6
  <2>7. Is(flat)
    <3> HIDE DEF Is
    <3> QED  BY <2>6
  <2>8. PICK t : t = flat
    OBVIOUS
  <2>9. FlattenSeq(parts) = t[n]
    BY <1>5, <1>8, <2>8 DEF FlattenSeq
  <2>10. t = [i \in 1..n |-> IF i = 1 THEN parts[i] ELSE t[i - 1] \o parts[i]]
    <3> HIDE DEF flat
    <3> QED  BY <2>7, <2>8
  <2> HIDE DEF Is, flat, step, T
  <2>11. /\ t[1] = parts[1]
         /\ \A i \in 1..n : i # 1 => t[i] = t[i - 1] \o parts[i]
    <3>1. 1 \in 1..n
      BY <1>2, <1>8
    <3> QED  BY ONLY <2>10, <3>1
  <2> DEFINE S == {i \in 0..n : i = 0 \/ PrintsFirst(t[i], checkouts, i)}
  <2>12. 0 \in S
    BY <1>2
  <2>13. ASSUME NEW i \in 1..n, i - 1 \in S PROVE i \in S
    <3>1. i \in 0..n /\ i \in 1..Len(checkouts)
      BY <1>1, <1>2
    <3>2. CASE i = 1
      <4>1. PrintsFirst(<<>>, checkouts, i - 1)
        <5>1. <<>> \in Seq(Printed) /\ Len(<<>>) = 3 * (i - 1) /\ 1..(i - 1) = {}
          BY <3>2
        <5> QED  BY <5>1 DEF PrintsFirst
      <4>2. PrintsFirst(<<>> \o Lines(checkouts[i]), checkouts, i)
        BY ONLY <3>1, <4>1, PrintsNext, checkouts \in Seq(Listed)
      <4>3. <<>> \o Lines(checkouts[i]) = Lines(checkouts[i])
        BY <1>3
      <4> QED  BY <1>5, <2>11, <3>1, <3>2, <4>2, <4>3
    <3>3. CASE i # 1
      <4>1. PrintsFirst(t[i - 1], checkouts, i - 1)
        BY <2>13, <3>3
      <4>2. PrintsFirst(t[i - 1] \o Lines(checkouts[i]), checkouts, i)
        BY ONLY <3>1, <4>1, PrintsNext, checkouts \in Seq(Listed)
      <4> QED  BY <1>5, <2>11, <3>1, <3>3, <4>2
    <3> QED  BY <3>2, <3>3
  <2>14. \A i \in 0..n : i \in S
    <3>1. \A i \in 1..n : i - 1 \in S => i \in S
      BY <2>13
    <3> HIDE DEF S
    <3> QED  BY ONLY <1>2, <2>12, <3>1, UpTo
  <2>15. PrintsFirst(t[n], checkouts, n)
    <3>1. n \in 0..n
      BY <1>2
    <3> QED  BY <1>8, <2>14, <3>1
  <2> QED  BY <1>1, <1>6, <2>9, <2>15
<1> QED  BY <1>7, <1>8

\* What parse_worktrees has read so far.
Parse == [found : Seq(Listed), path : Seq(STRING), branch : Seq(STRING)]

\* A flush completes the record at hand, and loses none.
LEMMA FlushKeeps ==
    ASSUME NEW parse \in Parse
    PROVE  /\ Flushed(parse) \in Parse
           /\ ToSet(parse.found) \subseteq ToSet(Flushed(parse).found)
           /\ parse.path # <<>> =>
                 /\ Flushed(parse).branch = <<>>
                 /\ [path |-> parse.path, branch |-> parse.branch]
                       \in ToSet(Flushed(parse).found)
<1>1. CASE parse.path = <<>>
  BY <1>1 DEF Flushed
<1>2. CASE parse.path # <<>>
  <2>1. PICK record : record = [path |-> parse.path, branch |-> parse.branch]
    OBVIOUS
  <2>2. record \in Listed
    BY <1>2, <2>1 DEF Parse, Listed
  <2>3. PICK found : found = Append(parse.found, record)
    OBVIOUS
  <2>4. PICK old : old = parse.found
    OBVIOUS
  <2>5. old \in Seq(Listed)
    BY <2>4 DEF Parse
  <2>6. /\ found \in Seq(Listed) /\ Len(found) = Len(old) + 1
        /\ \A i \in 1..Len(old) : found[i] = old[i]
        /\ found[Len(old) + 1] = record
    BY ONLY <2>2, <2>3, <2>4, <2>5, AppendProperties
  <2>7. /\ DOMAIN old = 1..Len(old) /\ DOMAIN found = 1..(Len(old) + 1)
        /\ Len(old) \in Nat
    BY ONLY <2>5, <2>6
  <2>8. record \in ToSet(found)
    <3>1. Len(old) + 1 \in DOMAIN found
      BY ONLY <2>7
    <3> QED  BY <2>6, <3>1 DEF ToSet
  <2>9. ToSet(old) \subseteq ToSet(found)
    <3>1. \A i \in DOMAIN old : i \in DOMAIN found /\ found[i] = old[i]
      BY ONLY <2>6, <2>7
    <3> QED  BY <3>1 DEF ToSet
  <2>10. Flushed(parse) = [found |-> found, path |-> <<>>, branch |-> <<>>]
    BY <1>2, <2>1, <2>3 DEF Flushed
  <2>11. Flushed(parse) \in Parse
    BY <2>6, <2>10 DEF Parse
  <2> QED  BY <2>1, <2>4, <2>8, <2>9, <2>10, <2>11
<1> QED  BY <1>1, <1>2

\* A line makes of what was read something of that kind.
LEMMA LineKeeps ==
    ASSUME NEW parse \in Parse, NEW line \in Printed
    PROVE  WithLine(parse, line) \in Parse
<1>1. line.value \in Seq(STRING)
  BY DEF Printed
<1>2. PICK flushed : flushed = Flushed(parse)
  OBVIOUS
<1>3. flushed \in Parse
  BY <1>2, FlushKeeps
<1>4. /\ [flushed EXCEPT !.path = line.value] \in Parse
      /\ [parse EXCEPT !.branch = line.value] \in Parse
  BY <1>1, <1>3 DEF Parse
<1>5. \/ WithLine(parse, line) = [flushed EXCEPT !.path = line.value]
      \/ WithLine(parse, line) = [parse EXCEPT !.branch = line.value]
      \/ WithLine(parse, line) = parse
  BY <1>2 DEF WithLine
<1> QED  BY <1>4, <1>5

\* The first i checkouts are read: a flush would complete the last of them.
HasRead(parse, checkouts, i) ==
    /\ parse \in Parse
    /\ Flushed(parse).branch = <<>>
    /\ \A j \in 1..i : checkouts[j] \in ToSet(Flushed(parse).found)

\* The three lines of the next checkout make its record the one at hand.
LEMMA ReadsNext ==
    ASSUME NEW checkouts \in Seq(Listed), NEW i \in 1..Len(checkouts), NEW parse,
           HasRead(parse, checkouts, i - 1),
           NEW one, one = WithLine(parse, Lines(checkouts[i])[1]),
           NEW two, two = WithLine(one, Lines(checkouts[i])[2]),
           NEW three, three = WithLine(two, Lines(checkouts[i])[3])
    PROVE  HasRead(three, checkouts, i)
<1>1. PICK checkout : checkout = checkouts[i]
  OBVIOUS
<1>2. checkout \in Listed
  BY <1>1
<1>3. /\ checkout.path \in Seq(STRING) /\ checkout.path # <<>>
      /\ checkout.branch \in Seq(STRING)
      /\ checkout = [path |-> checkout.path, branch |-> checkout.branch]
  BY <1>2 DEF Listed
<1>4. PICK flushed : flushed = Flushed(parse)
  OBVIOUS
<1>5. /\ flushed \in Parse /\ flushed.branch = <<>>
      /\ \A j \in 1..(i - 1) : checkouts[j] \in ToSet(flushed.found)
  BY <1>4, FlushKeeps DEF HasRead
<1>6. one = [flushed EXCEPT !.path = checkout.path]
  <2>1. PICK line : line = [key |-> "worktree", value |-> checkout.path]
    OBVIOUS
  <2>2. Lines(checkout)[1] = line
    BY <1>2, <2>1, LinesAreThree
  <2> QED  BY <1>1, <1>4, <2>1, <2>2 DEF WithLine
<1>7. /\ one \in Parse /\ one.path = checkout.path /\ one.branch = <<>>
      /\ one.found = flushed.found
  BY <1>3, <1>5, <1>6 DEF Parse
<1>8. two = one
  <2>1. Lines(checkout)[2].key = "HEAD"
    BY <1>2, LinesAreThree
  <2> QED  BY <1>1, <2>1 DEF WithLine
<1>9. /\ three \in Parse /\ three.path = checkout.path
      /\ three.branch = checkout.branch /\ three.found = flushed.found
  <2>1. CASE checkout.branch = <<>>
    <3>1. Lines(checkout)[3].key = "detached"
      <4>1. PICK line : line = [key |-> "detached", value |-> <<>>]
        OBVIOUS
      <4>2. Lines(checkout)[3] = line
        BY <1>2, <2>1, <4>1, LinesAreThree
      <4> QED  BY <4>1, <4>2
    <3>2. three = two
      BY <1>1, <3>1 DEF WithLine
    <3> QED  BY <1>7, <1>8, <2>1, <3>2
  <2>2. CASE checkout.branch # <<>>
    <3>1. PICK line : line = [key |-> "branch", value |-> checkout.branch]
      OBVIOUS
    <3>2. Lines(checkout)[3] = line
      BY <1>2, <2>2, <3>1, LinesAreThree
    <3>3. three = [one EXCEPT !.branch = checkout.branch]
      <4>1. three = WithLine(one, line)
        BY <1>1, <1>8, <3>2
      <4>2. line.key = "branch" /\ line.value = checkout.branch
        BY ONLY <3>1
      <4>3. WithLine(one, line) = [one EXCEPT !.branch = line.value]
        BY ONLY <4>2 DEF WithLine
      <4> QED  BY ONLY <4>1, <4>2, <4>3
    <3>4. /\ three.path = one.path /\ three.branch = checkout.branch
          /\ three.found = one.found
      BY <1>7, <3>3 DEF Parse
    <3>5. three \in Parse
      BY <1>3, <1>7, <3>3 DEF Parse
    <3> QED  BY <1>7, <3>4, <3>5
  <2> QED  BY <2>1, <2>2
<1>10. /\ Flushed(three).branch = <<>>
       /\ ToSet(flushed.found) \subseteq ToSet(Flushed(three).found)
       /\ checkout \in ToSet(Flushed(three).found)
  <2>1. three.path # <<>>
    BY <1>3, <1>9
  <2>2. [path |-> three.path, branch |-> three.branch] = checkout
    BY <1>3, <1>9
  <2>3. /\ Flushed(three).branch = <<>>
        /\ ToSet(three.found) \subseteq ToSet(Flushed(three).found)
        /\ [path |-> three.path, branch |-> three.branch] \in ToSet(Flushed(three).found)
    BY ONLY <1>9, <2>1, FlushKeeps
  <2> QED  BY <1>9, <2>2, <2>3
<1>11. ASSUME NEW j \in 1..i PROVE checkouts[j] \in ToSet(Flushed(three).found)
  <2>1. j = i \/ j \in 1..(i - 1)
    OBVIOUS
  <2> QED  BY <1>1, <1>5, <1>10, <2>1
<1> QED  BY <1>9, <1>10, <1>11 DEF HasRead

\* Every checkout that git prints is among those the guard looks at.
LEMMA GuardSeesEveryCheckout ==
    ASSUME NEW checkouts \in Seq(Listed), NEW i \in 1..Len(checkouts)
    PROVE  checkouts[i] \in ToSet(Worktrees(Porcelain(checkouts)))
<1>1. PICK lines : lines = Porcelain(checkouts)
  OBVIOUS
<1>2. PICK n : n = Len(checkouts)
  OBVIOUS
<1>3. PICK m : m = 3 * n
  OBVIOUS
<1>4. PrintsFirst(lines, checkouts, n)
  BY <1>1, <1>2, PorcelainPrints
<1>5. /\ n \in Nat /\ m \in Nat /\ lines \in Seq(Printed) /\ Len(lines) = m
      /\ \A k \in 1..m : lines[k] \in Printed
  <2>1. n \in Nat
    BY <1>2
  <2>2. m \in Nat
    BY ONLY <1>3, <2>1
  <2>3. lines \in Seq(Printed) /\ Len(lines) = m
    BY <1>3, <1>4 DEF PrintsFirst
  <2> QED  BY <2>1, <2>2, <2>3
<1> DEFINE start == [found |-> <<>>, path |-> <<>>, branch |-> <<>>]
           step == [p \in Parse \X (1..m) |-> WithLine(p[1], lines[p[2]])]
           Is(f) == f = [k \in 0..m |-> IF k = 0 THEN start
                                        ELSE WithLine(f[k - 1], lines[k])]
           parse == CHOOSE f : Is(f)
<1>6. PICK begin : begin = start
  OBVIOUS
<1>7. /\ begin \in Parse
      /\ Flushed(begin) = begin /\ begin.branch = <<>>
  BY <1>6 DEF Parse, Flushed
<1>8. /\ \A p \in Parse, k \in 1..m : WithLine(p, lines[k]) \in Parse
      /\ \A p \in Parse, k \in 1..m : step[<<p, k>>] = WithLine(p, lines[k])
  <2>1. \A p \in Parse, k \in 1..m : WithLine(p, lines[k]) \in Parse
    BY <1>5, LineKeeps
  <2> QED  BY <2>1
<1>9. step \in [Parse \X (1..m) -> Parse]
  BY <1>8
<1>10. PICK g : GoesBy(g, Parse, m, begin, step)
  <2> HIDE DEF step
  <2> QED  BY ONLY <1>5, <1>7, <1>9, RecursionExists
<1>11. Is(g)
  <2>1. \A k \in 0..m : k # 0 => k \in 1..m /\ k - 1 \in 0..m
    BY <1>5
  <2>2. /\ g \in [0..m -> Parse] /\ g[0] = begin
        /\ \A k \in 1..m : g[k] = step[<<g[k - 1], k>>]
    BY <1>10 DEF GoesBy
  <2> HIDE DEF start
  <2>3. \A k \in 0..m : g[k] = IF k = 0 THEN start ELSE WithLine(g[k - 1], lines[k])
    <3> HIDE DEF step
    <3> QED  BY <1>6, <1>8, <2>1, <2>2
  <2>4. g = [k \in 0..m |-> g[k]]
    BY ONLY <2>2
  <2> QED  BY ONLY <2>3, <2>4
<1>12. Is(parse)
  <2> HIDE DEF Is
  <2> QED  BY <1>11
<1>13. PICK f : f = parse
  OBVIOUS
<1>14. Worktrees(lines) = Flushed(f[m]).found
  BY <1>5, <1>13 DEF Worktrees
<1>15. f = [k \in 0..m |-> IF k = 0 THEN begin ELSE WithLine(f[k - 1], lines[k])]
  <2> HIDE DEF parse
  <2> QED  BY <1>6, <1>12, <1>13
<1> HIDE DEF Is, parse, start, step
<1>16. f[0] = begin
  <2>1. 0 \in 0..m
    BY <1>5
  <2> QED  BY ONLY <1>15, <2>1
<1>17. \A k \in 1..m : f[k] = WithLine(f[k - 1], lines[k])
  <2>1. \A k \in 1..m : k \in 0..m /\ k # 0
    BY <1>5
  <2> QED  BY ONLY <1>15, <2>1
<1> DEFINE S == {k \in 0..n : HasRead(f[3 * k], checkouts, k)}
<1>18. 0 \in S
  <2>1. 3 * 0 = 0 /\ 0 \in 0..n /\ 1..0 = {}
    BY <1>5
  <2>2. HasRead(f[0], checkouts, 0)
    BY <1>7, <1>16, <2>1 DEF HasRead
  <2> QED  BY <2>1, <2>2
<1>19. ASSUME NEW k \in 1..n, k - 1 \in S PROVE k \in S
  <2>1. /\ k \in 0..n /\ k \in 1..Len(checkouts)
        /\ 3 * k - 2 \in 1..m /\ 3 * k - 1 \in 1..m /\ 3 * k \in 1..m
        /\ (3 * k - 2) - 1 = 3 * (k - 1) /\ (3 * k - 1) - 1 = 3 * k - 2
    BY ONLY <1>2, <1>3, <1>5, k \in 1..n
  <2>2. /\ f[3 * k - 2] = WithLine(f[3 * (k - 1)], Lines(checkouts[k])[1])
        /\ f[3 * k - 1] = WithLine(f[3 * k - 2], Lines(checkouts[k])[2])
        /\ f[3 * k] = WithLine(f[3 * k - 1], Lines(checkouts[k])[3])
    BY <1>4, <1>17, <2>1 DEF PrintsFirst
  <2>3. HasRead(f[3 * (k - 1)], checkouts, k - 1)
    BY <1>19
  <2>4. HasRead(f[3 * k], checkouts, k)
    BY ONLY checkouts \in Seq(Listed), <2>1, <2>2, <2>3, ReadsNext
  <2> QED  BY <2>1, <2>4
<1>20. \A k \in 0..n : k \in S
  <2>1. \A k \in 1..n : k - 1 \in S => k \in S
    BY <1>19
  <2> HIDE DEF S
  <2> QED  BY ONLY <1>5, <1>18, <2>1, UpTo
<1>21. HasRead(f[m], checkouts, n)
  <2>1. n \in 0..n
    BY <1>5
  <2> QED  BY <1>3, <1>20, <2>1
<1> QED  BY <1>1, <1>2, <1>14, <1>21 DEF HasRead

\* A name that starts with refs/heads starts with refs.
LEMMA HeadsAreRefs ==
    ASSUME NEW name \in Seq(STRING), IsPrefix(Heads, name)
    PROVE  IsPrefix(<<"refs">>, name) /\ name # <<>>
<1>1. Heads = <<"refs", "heads">> /\ Len(Heads) = 2
  BY DEF Heads
<1>2. /\ Len(name) \in Nat /\ 2 <= Len(name)
      /\ SubSeq(Heads, 1, 2) = SubSeq(name, 1, 2)
  BY <1>1 DEF IsPrefix
<1>3. SubSeq(Heads, 1, 2)[1] = "refs"
  BY <1>1
<1>4. SubSeq(name, 1, 2)[1] = name[1]
  BY ONLY <1>2, name \in Seq(STRING)
<1>5. name[1] = "refs"
  BY <1>2, <1>3, <1>4
<1>6. PICK refs : refs = <<"refs">>
  OBVIOUS
<1>7. SubSeq(name, 1, 1) = SubSeq(refs, 1, 1) /\ Len(refs) = 1
  <2>1. refs \in Seq({"refs"}) /\ Len(refs) = 1 /\ refs[1] = "refs"
    BY <1>6
  <2>2. SubSeq(name, 1, 1) = [k \in 1..1 |-> name[k]]
    BY ONLY <1>2, name \in Seq(STRING)
  <2>3. SubSeq(refs, 1, 1) = [k \in 1..1 |-> refs[k]]
    BY ONLY <2>1
  <2>4. \A k \in 1..1 : name[k] = refs[k]
    BY ONLY <1>5, <2>1
  <2> QED  BY ONLY <2>1, <2>2, <2>3, <2>4
<1>8. name # <<>>
  BY ONLY <1>2
<1>9. Len(refs) <= Len(name)
  BY ONLY <1>2, <1>7
<1>10. IsPrefix(refs, name)
  BY ONLY <1>7, <1>9 DEF IsPrefix
<1> QED  BY ONLY <1>6, <1>8, <1>10

\* What follows refs/heads is the name it was put before.
LEMMA AfterHeads ==
    ASSUME NEW name \in Seq(STRING)
    PROVE  After(Heads, Heads \o name) = name
<1>1. Heads = <<"refs", "heads">> /\ Len(Heads) = 2
  BY DEF Heads
<1>2. PICK full : full = Heads \o name
  OBVIOUS
<1>3. PICK n : n = Len(name)
  OBVIOUS
<1>4. /\ n \in Nat /\ Len(full) = n + 2 /\ name = [k \in 1..n |-> name[k]]
      /\ \A k \in 1..n : full[2 + k] = name[k]
  BY <1>1, <1>2, <1>3
<1>5. SubSeq(full, 3, n + 2) = name
  <2>1. SubSeq(full, 3, n + 2) = [k \in 1..n |-> full[2 + k]]
    BY ONLY <1>4
  <2> QED  BY <1>4, <2>1
<1> QED  BY <1>1, <1>2, <1>4, <1>5 DEF After

\* The guard looks for the very branch that update-ref moves.
LEMMA GuardKnowsTheBranch ==
    ASSUME NEW name \in BaseName, Qualified(name) \in Branch
    PROVE  /\ Qualified(name) # <<>>
           /\ Normalised(Qualified(name)) = Normalised(name)
<1>1. /\ name \in Seq(STRING) /\ Qualified(name) \in Seq(STRING)
      /\ IsStrictPrefix(Heads, Qualified(name))
  BY BranchAssumption
<1>2. Qualified(name) # <<>>
  BY <1>1, HeadsAreRefs DEF IsStrictPrefix
<1>3. CASE IsPrefix(<<"refs">>, name)
  BY <1>2, <1>3 DEF Qualified
<1>4. CASE ~IsPrefix(<<"refs">>, name)
  <2>1. Qualified(name) = Heads \o name
    BY <1>4 DEF Qualified
  <2>2. Normalised(Qualified(name)) = name
    BY <1>1, <2>1, AfterHeads DEF Normalised
  <2>3. Normalised(name) = name
    BY <1>1, <1>4, HeadsAreRefs DEF Normalised, IsStrictPrefix
  <2> QED  BY <1>2, <2>2, <2>3
<1> QED  BY <1>3, <1>4

\* Where the guard finds nobody, nobody is on the branch that is to move.
LEMMA NobodyIsOnTheBranch ==
    ASSUME NEW name \in BaseName, Qualified(name) \in Branch,
           NEW checkouts \in Seq(Listed), Holding(checkouts, name) = {},
           NEW i \in 1..Len(checkouts)
    PROVE  checkouts[i].branch # Qualified(name)
<1> SUFFICES ASSUME checkouts[i].branch = Qualified(name) PROVE FALSE
  OBVIOUS
<1>1. PICK checkout : checkout = checkouts[i]
  OBVIOUS
<1>2. checkout \in ToSet(Worktrees(Porcelain(checkouts)))
  BY <1>1, GuardSeesEveryCheckout
<1>3. checkout.branch # <<>> /\ Normalised(checkout.branch) = Normalised(name)
  BY <1>1, GuardKnowsTheBranch
<1>4. checkout.path \in Holding(checkouts, name)
  BY <1>2, <1>3 DEF Holding
<1> QED  BY <1>4

-----------------------------------------------------------------------------
\* Once the guard was passed, the tick remembers a layout it passed.
GuardInv ==
    tick.guarded # <<>> =>
        tick.guarded \in Layout /\ Holding(tick.guarded, loop.base) = {}

\* Other steps leave what was guarded, and the name of the base, as they are.
GuardStays ==
    /\ loop'.base = loop.base
    /\ tick'.guarded \in {<<>>, tick.guarded}

\* All that a step may do to the past, to what was guarded, and to the name.
LEMMA OnlyLandsCounts ==
    ASSUME TickInv, Next
    PROVE  /\ loop'.base = loop.base
           /\ GuardStays \/ Guards
           /\ Lands \/ past'.landed = past.landed
<1>1. /\ loop \in LoopState /\ tick \in TickState /\ past \in PastState
  BY DEF TickInv
<1>2. NoTick.guarded = <<>>
  BY DEF NoTick
<1>3. CASE Loops
  <2>1. CASE Opens \/ Wakes
    <3>1. loop' = [loop EXCEPT !.pc = "check"] /\ tick' = tick /\ past' = past
      BY <2>1 DEF Opens, Wakes
    <3>2. loop'.base = loop.base
      BY <1>1, <3>1 DEF LoopState
    <3> QED  BY <3>1, <3>2 DEF GuardStays
  <2>2. CASE StopsOrTicks
    <3>1. /\ past' = past
          /\ \/ loop' = [loop EXCEPT !.pc = "returned"] /\ tick' = tick
             \/ /\ loop' = [loop EXCEPT !.pc = "ticking"]
                /\ tick' = [NoTick EXCEPT !.pc = "acquire"]
      BY <2>2 DEF StopsOrTicks
    <3>2. loop'.base = loop.base
      BY <1>1, <3>1 DEF LoopState
    <3>3. tick'.guarded \in {<<>>, tick.guarded}
      BY <3>1 DEF NoTick
    <3> QED  BY <3>1, <3>2, <3>3 DEF GuardStays
  <2>3. ASSUME NEW class \in Class, Observed(class),
               past' = past \/ History(class),
               TickedOnce \/ TickSucceeded \/ TickInterrupted \/ TickFailed \/ GivesUp
        PROVE  GuardStays /\ past'.landed = past.landed
    <3>1. tick'.guarded = <<>>
      BY <1>2, <2>3 DEF Observed
    <3>2. past'.landed = past.landed
      BY <1>1, <2>3 DEF History, PastState
    <3>3. loop'.base = loop.base
      <4>1. CASE TickedOnce
        BY <1>1, <4>1 DEF TickedOnce, LoopState
      <4>2. CASE TickSucceeded
        BY <1>1, <4>2 DEF TickSucceeded, LoopState
      <4>3. CASE TickInterrupted
        BY <1>1, <4>3 DEF TickInterrupted, LoopState
      <4>4. CASE TickFailed
        BY <1>1, <4>4 DEF TickFailed, LoopState
      <4>5. CASE GivesUp
        BY <1>1, <4>5 DEF GivesUp, LoopState
      <4> QED  BY <2>3, <4>1, <4>2, <4>3, <4>4, <4>5
    <3> QED  BY <3>1, <3>2, <3>3 DEF GuardStays
  <2>4. CASE TickedOnce \/ TickSucceeded \/ TickInterrupted \/ TickFailed \/ GivesUp
    <3>1. \E class \in Class : Observed(class) /\ (past' = past \/ History(class))
      BY <2>4 DEF TickedOnce, TickSucceeded, TickInterrupted, TickFailed, GivesUp, Class
    <3> QED  BY <2>3, <2>4, <3>1 DEF GuardStays
  <2> QED  BY <1>3, <2>1, <2>2, <2>4 DEF Loops, GuardStays
<1>4. CASE loop' = loop /\ tick' = tick /\ past' = past
  BY <1>4 DEF GuardStays
<1>5. ASSUME NEW pc, NEW outcome, NEW entries, NEW tell,
             \/ tick' = [tick EXCEPT !.pc = pc]
             \/ tick' = [tick EXCEPT !.pc = pc, !.outcome = outcome]
             \/ tick' = [tick EXCEPT !.outcome = outcome, !.pc = pc]
             \/ tick' = [tick EXCEPT !.pc = pc, !.entries = entries]
             \/ tick' = [tick EXCEPT !.tell = tell]
             \/ tick' = [tick EXCEPT !.pc = pc, !.outcome = outcome,
                                     !.entries = entries, !.tell = tell]
      PROVE  tick'.guarded = tick.guarded
  BY <1>1, <1>5 DEF TickState
<1>6. CASE FindsHeld \/ Acquires \/ FindsNoBase \/ FindsNoConfig \/ RefusesConfig
           \/ HasNothingToGate
  <2>1. loop' = loop /\ past' = past
    BY <1>6 DEF FindsHeld, Acquires, FindsNoBase, FindsNoConfig, RefusesConfig,
       HasNothingToGate, NoLoop
  <2>2. \E pc, outcome :
           \/ tick' = [tick EXCEPT !.pc = pc]
           \/ tick' = [tick EXCEPT !.pc = pc, !.outcome = outcome]
    BY <1>6 DEF FindsHeld, Acquires, FindsNoBase, FindsNoConfig, RefusesConfig,
       HasNothingToGate, Go, Ends
  <2> QED  BY <1>5, <2>1, <2>2 DEF GuardStays
<1>7. CASE ReadsConfig
  <2>1. loop' = loop /\ past' = past
    BY <1>7 DEF ReadsConfig, NoLoop
  <2>2. \E cap, most, hooked :
           tick' = [tick EXCEPT !.pc = "select", !.cap = cap, !.most = most,
                                !.hooked = hooked]
    <3>1. PICK source \in Source :
             tick' = [tick EXCEPT !.pc = "select",
                                  !.cap = Config(source).max_log_size,
                                  !.most = Min({Config(source).max_batch, MaxQueued}),
                                  !.hooked = source.on_settle # {}]
      BY <1>7 DEF ReadsConfig
    <3>2. PICK cap, most, hooked :
             /\ cap = Config(source).max_log_size
             /\ most = Min({Config(source).max_batch, MaxQueued})
             /\ hooked = (source.on_settle # {})
      OBVIOUS
    <3> QED  BY ONLY <3>1, <3>2
  <2>3. tick'.guarded = tick.guarded
    BY ONLY <1>1, <2>2 DEF TickState
  <2> QED  BY <2>1, <2>3 DEF GuardStays
<1>8. CASE Guards
  BY <1>8 DEF Guards, NoLoop
<1>9. ASSUME NEW outcome, NEW entries, Settles(outcome, entries)
      PROVE  tick'.guarded = tick.guarded
  <2>1. PICK tell : tell = IF tick.hooked THEN entries ELSE 0
    OBVIOUS
  <2>2. tick' = [tick EXCEPT !.pc = "hooks", !.outcome = outcome,
                             !.entries = entries, !.tell = tell]
    BY <1>9, <2>1 DEF Settles
  <2> QED  BY <1>5, <2>2
<1>10. Evicts => tick'.guarded = tick.guarded /\ past'.landed = past.landed
  <2>1. Evicts => Settles("evicted", 1)
    BY DEF Evicts
  <2>2. Evicts => past'.landed = past.landed
    BY <1>1 DEF Evicts, PastState
  <2> QED  BY <1>9, <2>1, <2>2
<1>11. Requeues => tick'.guarded = tick.guarded /\ past'.landed = past.landed
  BY <1>5 DEF Requeues, Ends
<1>12. CASE Conflicts \/ Blames
  BY <1>10, <1>11, <1>12 DEF Conflicts, Blames, GuardStays
<1>13. CASE Lands
  BY <1>9, <1>13 DEF Lands, GuardStays
<1>14. CASE Gates \/ Judges \/ CannotMove \/ FindsStale \/ VoidsVerdict \/ Splits
  <2>1. loop' = loop /\ past' = past
    BY <1>14 DEF Gates, Judges, CannotMove, FindsStale, VoidsVerdict, Splits, NoLoop
  <2>2. \E pc, outcome, entries :
           \/ tick' = [tick EXCEPT !.pc = pc]
           \/ tick' = [tick EXCEPT !.pc = pc, !.outcome = outcome]
           \/ tick' = [tick EXCEPT !.pc = pc, !.entries = entries]
    BY <1>14 DEF Gates, Judges, CannotMove, FindsStale, VoidsVerdict, Splits, Go, Ends
  <2> QED  BY <1>5, <2>1, <2>2 DEF GuardStays
<1>15. CASE HookUnrunnable \/ HookDone \/ AllTold \/ Releases
  <2>1. loop' = loop /\ past' = past
    BY <1>15 DEF HookUnrunnable, HookDone, AllTold, Releases, NoLoop
  <2>2. \E pc, tell : \/ tick' = [tick EXCEPT !.pc = pc]
                      \/ tick' = [tick EXCEPT !.tell = tell]
    BY <1>15 DEF HookUnrunnable, HookDone, AllTold, Releases, Go
  <2> QED  BY <1>5, <2>1, <2>2 DEF GuardStays
<1>16. CASE ReleaseFails
  <2>1. loop' = loop /\ tick' = [tick EXCEPT !.pc = "observe", !.outcome = "error"]
    BY <1>16 DEF ReleaseFails
  <2>2. past'.landed = past.landed
    BY <1>1, <1>16 DEF ReleaseFails, PastState
  <2> QED  BY <1>5, <2>1, <2>2 DEF GuardStays
<1>17. CASE StepFails
  <2>1. loop' = loop /\ past' = past
    BY <1>17 DEF StepFails, NoLoop
  <2>2. \E pc : tick' = [tick EXCEPT !.outcome = "error", !.pc = pc]
    BY <1>17 DEF StepFails
  <2> QED  BY <1>5, <2>1, <2>2 DEF GuardStays
<1>18. CASE GateStep \/ RunsHook \/ HookStep \/ OpeningStep
  BY <1>4, <1>18 DEF GateStep, RunsHook, HookStep, OpeningStep, NoLoop
<1>19. CASE Signal \/ StartsAgain
  <2>1. tick' = tick /\ past' = past /\ \E stop : loop' = [loop EXCEPT !.stop = stop]
    BY <1>19 DEF Signal, StartsAgain
  <2>2. loop'.base = loop.base
    BY <1>1, <2>1 DEF LoopState
  <2> QED  BY <2>1, <2>2 DEF GuardStays
<1> QED
  BY <1>3, <1>6, <1>7, <1>8, <1>12, <1>13, <1>14, <1>15, <1>16, <1>17, <1>18, <1>19
  DEF Next, Ticks, GuardStays

\* The guard's finding outlives every step of the tick.
LEMMA GuardStep ==
    ASSUME TickInv, GuardInv, [Next]_serviceVars
    PROVE  GuardInv'
<1>1. CASE UNCHANGED serviceVars
  BY <1>1 DEF serviceVars, GuardInv
<1>2. CASE Next
  <2>1. CASE GuardStays
    BY <2>1 DEF GuardStays, GuardInv
  <2>2. CASE Guards
    <3>1. PICK layout \in Layout :
             tick' = IF Holding(layout, loop.base) = {}
                     THEN [tick EXCEPT !.pc = "config", !.guarded = layout]
                     ELSE [tick EXCEPT !.pc = "release", !.outcome = "checked out"]
      BY <2>2 DEF Guards
    <3>2. loop' = loop /\ tick \in TickState
      BY <2>2 DEF Guards, NoLoop, TickInv
    <3>3. CASE Holding(layout, loop.base) = {}
      <4>1. tick'.guarded = layout
        BY <3>1, <3>2, <3>3 DEF TickState
      <4> QED  BY <3>2, <3>3, <4>1 DEF GuardInv
    <3>4. CASE Holding(layout, loop.base) # {}
      <4>1. tick'.guarded = tick.guarded
        BY <3>1, <3>2, <3>4 DEF TickState
      <4> QED  BY <3>2, <4>1 DEF GuardInv
    <3> QED  BY <3>3, <3>4
  <2> QED  BY <1>2, <2>1, <2>2, OnlyLandsCounts
<1> QED  BY <1>1, <1>2

\* Where the base moves, the guard has found nobody on it.
LEMMA LandingIsGuarded ==
    ASSUME TickInv, GuardInv, Lands, NEW i \in DOMAIN tick.guarded
    PROVE  tick.guarded[i].branch # Qualified(loop.base)
<1>1. loop.base \in BaseName /\ Qualified(loop.base) \in Branch
  BY DEF Lands, TickInv, LoopState
<1>2. CASE tick.guarded = <<>>
  BY <1>2
<1>3. CASE tick.guarded # <<>>
  <2>1. tick.guarded \in Seq(Listed) /\ Holding(tick.guarded, loop.base) = {}
    BY <1>3, LayoutAssumption DEF GuardInv, Listed
  <2>2. i \in 1..Len(tick.guarded)
    BY <2>1
  <2> QED  BY <1>1, <2>1, <2>2, NobodyIsOnTheBranch
<1> QED  BY <1>2, <1>3

\* README.md, "the base branch is checked out nowhere": the branch that
\* update-ref moves is one the guard looked for, however --base spells it, and
\* every checkout that git printed was looked at, whatever the layout.
THEOREM GuardSeesWhatItMoves == Spec => GuardSeesWhatMoves
<1>1. Init => GuardInv
  BY DEF Init, NoTick, GuardInv
<1>2. ASSUME TickInv, GuardInv, [Next]_serviceVars
      PROVE  past'.landed > past.landed =>
                \A i \in DOMAIN tick.guarded :
                    tick.guarded[i].branch # Qualified(loop.base)
  <2> SUFFICES ASSUME past'.landed > past.landed, NEW i \in DOMAIN tick.guarded
               PROVE  tick.guarded[i].branch # Qualified(loop.base)
    OBVIOUS
  <2>1. past.landed \in Nat
    BY <1>2 DEF TickInv, PastState
  <2>2. past'.landed # past.landed
    BY <2>1
  <2>3. Lands
    BY <1>2, <2>2, OnlyLandsCounts DEF serviceVars
  <2> QED  BY <1>2, <2>3, LandingIsGuarded
<1>3. Spec => []GuardInv
  <2>1. ServiceInv => TickInv
    BY DEF ServiceInv
  <2> QED  BY <1>1, <2>1, GuardStep, ServiceHolds, PTL DEF Spec
<1>4. ServiceInv => TickInv
  BY DEF ServiceInv
<1> QED  BY <1>2, <1>3, <1>4, ServiceHolds, PTL DEF Spec, GuardSeesWhatMoves
=============================================================================
