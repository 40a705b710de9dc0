------------------------------ MODULE BaseProof ------------------------------
(***************************************************************************)
(* Proof of what the queue promises about the base branch, for any number  *)
(* of workers, requests, entries, candidates and mishaps: what is on it    *)
(* stays on it, only a commit the gate passed on is put there, the gate    *)
(* passes on what the queue leaves there, what is said to be merged is on  *)
(* it, what is evicted by the gate breaks it, and an entry nothing is      *)
(* wrong with is only ever charged for a merge that was cut short.         *)
(*                                                                         *)
(* None of this rests on the lease: two workers may be at work on the same *)
(* candidate, each in a checkout of its own.  It is the compare-and-set of *)
(* the base, and that assembling a candidate is deterministic, that carry  *)
(* the argument.                                                           *)
(***************************************************************************)
EXTENDS MergeQueueProof, WellFoundedInduction

-----------------------------------------------------------------------------
(* The invariant.                                                          *)

\* The request of the i-th member of candidate c.
Wanted(c, i) == entry[candidate[c].entries[i]].request

\* trail is the commit after each merge, when the first n members of c are
\* merged onto its base one after another.
IsTrail(trail, c, n) ==
    /\ trail \in [0..n -> Commit]
    /\ trail[0] = candidate[c].base
    /\ \A i \in 1..n : trail[i] = Merged(Wanted(c, i), trail[i - 1])

Built(commit, c, n) ==
    \E trail \in [0..n -> Commit] : IsTrail(trail, c, n) /\ trail[n] = commit

\* Places where a candidate is being worked on, where its commit is being
\* assembled in the checkout, and where that commit is complete.  A merge that
\* was cut short may have moved the checkout without the worker knowing.
Working ==
    {"checkout", "merge", "conflict", "cut", "gate", "failed", "ff", "land",
     "moved"}
Assembling == {"merge", "conflict", "gate", "failed", "ff"}
Complete == {"gate", "failed", "ff", "land"}

\* Places where nothing has been merged yet.
Fresh == {"down", "idle", "guard", "look", "select", "open", "checkout"}

WorkerSound(w) ==
    /\ IsPrefix(wk[w].base, base)
    /\ wk[w].pc \in Fresh => wk[w].merged = 0
    /\ wk[w].pc \in Working =>
          /\ candidate[wk[w].cand].state # "absent"
          /\ wk[w].batch = candidate[wk[w].cand].entries
    /\ wk[w].pc \in Assembling \cup {"land"} =>
          /\ wk[w].merged <= Len(wk[w].batch)
          /\ Built(wk[w].tip, wk[w].cand, wk[w].merged)
    /\ wk[w].pc \in Assembling => head[CheckoutOf[w]] = wk[w].tip
    /\ wk[w].pc \in Complete =>
          /\ wk[w].merged = Len(wk[w].batch)
          /\ candidate[wk[w].cand].sha # NoCommit
    /\ wk[w].pc = "conflict" => ~Innocent(entry[NextToMerge(w)].request)
    /\ wk[w].pc = "failed" /\ ~wk[w].stop => GateCanFail(wk[w].tip)
    /\ wk[w].pc = "ff" => wk[w].passed = wk[w].tip /\ GateCanPass(wk[w].tip)
    /\ wk[w].pc = "land" => IsPrefix(wk[w].tip, base)

\* A candidate starts from something that was the base, has entries that
\* exist, and the commit recorded for it is the one its members assemble to.
CandidateSound(c) ==
    /\ IsPrefix(candidate[c].base, base)
    /\ \A e \in Members(c) : entry[e].state # "absent"
    /\ candidate[c].sha # NoCommit =>
          Built(candidate[c].sha, c, Len(candidate[c].entries))
    /\ candidate[c].state = "passed" =>
          candidate[c].sha # NoCommit /\ IsPrefix(candidate[c].sha, base)

EntrySound(e) ==
    /\ entry[e].state = "merged" => Contains(base, entry[e].request)
    /\ entry[e].state = "evicted" /\ entry[e].reason = "gate" =>
          GateCanFail(Append(base, entry[e].request))
    /\ entry[e].state = "absent" => entry[e].attempts = 0

Sound ==
    /\ \A w \in Worker : WorkerSound(w)
    /\ \A c \in CandidateId : CandidateSound(c)
    /\ \A e \in EntryId : EntrySound(e)
    /\ base # <<>> /\ Last(base) \in Request => GateCanPass(base)

\* The inductive invariant.
BaseInv == Apart => Sound

-----------------------------------------------------------------------------
(* Commits: what IsPrefix, Contains and the gate say about a longer one.   *)

\* A prefix agrees with the whole wherever it is defined.
LEMMA PrefixIs ==
    ASSUME NEW S, NEW s \in Seq(S), NEW t \in Seq(S)
    PROVE  IsPrefix(s, t) <=> /\ Len(s) <= Len(t)
                              /\ \A i \in 1..Len(s) : s[i] = t[i]
  <1>1. Len(s) \in Nat /\ Len(t) \in Nat
    BY LenProperties
  <1>2. SubSeq(s, 1, Len(s)) = s
    BY SubSeqFull
  <1>3. CASE Len(s) <= Len(t)
    <2>1. \A i \in 1..Len(s) : t[i] \in S
      BY <1>1, <1>3, ElementOfSeq
    <2>2. /\ SubSeq(t, 1, Len(s)) \in Seq(S)
          /\ Len(SubSeq(t, 1, Len(s))) = Len(s)
          /\ \A i \in 1..Len(s) : SubSeq(t, 1, Len(s))[i] = t[i]
      <3>1. /\ SubSeq(t, 1, Len(s)) \in Seq(S)
            /\ Len(SubSeq(t, 1, Len(s))) = IF 1 <= Len(s) THEN Len(s) - 1 + 1 ELSE 0
            /\ \A i \in 1..(Len(s) - 1 + 1) : SubSeq(t, 1, Len(s))[i] = t[1 + i - 1]
        BY <1>1, <2>1, SubSeqProperties
      <3>2. Len(s) - 1 + 1 = Len(s) /\ \A i \in 1..Len(s) : 1 + i - 1 = i
        BY <1>1
      <3> QED BY <1>1, <3>1, <3>2
    <2>3. s = SubSeq(t, 1, Len(s)) <=> \A i \in 1..Len(s) : s[i] = t[i]
      BY <2>2, SeqEqual
    <2> QED BY <1>2, <1>3, <2>3 DEF IsPrefix
  <1>4. CASE ~(Len(s) <= Len(t))
    BY <1>4 DEF IsPrefix
  <1> QED BY <1>3, <1>4

\* Every commit is a prefix of itself and of what is merged onto it, and
\* prefixes compose.
LEMMA PrefixSelf ==
    ASSUME NEW s \in Commit
    PROVE  IsPrefix(s, s)
  <1>1. Len(s) \in Nat
    BY LenProperties DEF Commit
  <1> QED BY <1>1, PrefixIs DEF Commit

LEMMA PrefixEmpty ==
    ASSUME NEW t \in Commit
    PROVE  IsPrefix(<<>>, t)
  <1> DEFINE s == <<>>
  <1>1. s \in Seq(Change) /\ Len(s) = 0
    OBVIOUS
  <1>2. Len(t) \in Nat
    BY LenProperties DEF Commit
  <1> HIDE DEF s
  <1>3. Len(s) <= Len(t) /\ \A i \in 1..Len(s) : s[i] = t[i]
    BY <1>1, <1>2
  <1>4. IsPrefix(s, t)
    BY <1>1, <1>3, PrefixIs DEF Commit
  <1> QED BY <1>4 DEF s

LEMMA PrefixTrans ==
    ASSUME NEW s \in Commit, NEW t \in Commit, NEW u \in Commit,
           IsPrefix(s, t), IsPrefix(t, u)
    PROVE  IsPrefix(s, u)
  <1>1. Len(s) \in Nat /\ Len(t) \in Nat /\ Len(u) \in Nat
    BY LenProperties DEF Commit
  <1>2. /\ Len(s) <= Len(t) /\ \A i \in 1..Len(s) : s[i] = t[i]
        /\ Len(t) <= Len(u) /\ \A i \in 1..Len(t) : t[i] = u[i]
    BY PrefixIs DEF Commit
  <1> QED BY <1>1, <1>2, PrefixIs DEF Commit

LEMMA PrefixAppend ==
    ASSUME NEW s \in Commit, NEW change \in Change
    PROVE  Append(s, change) \in Commit /\ IsPrefix(s, Append(s, change))
  <1> DEFINE t == Append(s, change)
  <1>1. /\ t \in Seq(Change)
        /\ Len(t) = Len(s) + 1
        /\ \A i \in 1..Len(s) : t[i] = s[i]
    BY DEF Commit
  <1>2. Len(s) \in Nat
    BY LenProperties DEF Commit
  <1>3. Len(s) <= Len(t)
    BY <1>1, <1>2
  <1> HIDE DEF t
  <1>4. IsPrefix(s, t)
    BY <1>1, <1>3, PrefixIs DEF Commit
  <1> QED BY <1>1, <1>4 DEF t, Commit

\* What a commit contains, every longer one contains.
LEMMA PrefixHolds ==
    ASSUME NEW s \in Commit, NEW t \in Commit, IsPrefix(s, t)
    PROVE  /\ ToSet(s) \subseteq ToSet(t)
           /\ \A change : Contains(s, change) => Contains(t, change)
  <1>1. /\ Len(s) \in Nat /\ DOMAIN s = 1..Len(s)
        /\ Len(t) \in Nat /\ DOMAIN t = 1..Len(t)
    BY LenProperties DEF Commit
  <1>2. Len(s) <= Len(t) /\ \A i \in 1..Len(s) : s[i] = t[i]
    BY PrefixIs DEF Commit
  <1>3. \A i \in 1..Len(s) : i \in 1..Len(t)
    BY <1>1, <1>2
  <1>4. ToSet(s) \subseteq ToSet(t)
    BY <1>1, <1>2, <1>3 DEF ToSet
  <1>5. \A change : Contains(s, change) => Contains(t, change)
    BY <1>2, <1>3 DEF Contains
  <1> QED BY <1>4, <1>5

\* A gate that can fail on a commit can fail on every one with more in it.
LEMMA GateMonotone ==
    ASSUME NEW s, NEW t, ToSet(s) \subseteq ToSet(t), GateCanFail(s)
    PROVE  GateCanFail(t)
  BY DEF GateCanFail, GateCanPass

\* Merging puts the change on top, or changes nothing.
LEMMA MergedGrows ==
    ASSUME NEW s \in Commit, NEW change \in Change
    PROVE  /\ Merged(change, s) \in Commit
           /\ IsPrefix(s, Merged(change, s))
           /\ Contains(Merged(change, s), change)
  <1>1. CASE Contains(s, change)
    BY <1>1, PrefixSelf DEF Merged
  <1>2. CASE ~Contains(s, change)
    <2>1. Merged(change, s) = Append(s, change)
      BY <1>2 DEF Merged
    <2>2. Len(s) \in Nat
      BY LenProperties DEF Commit
    <2>3. /\ Len(Append(s, change)) = Len(s) + 1
          /\ Append(s, change)[Len(s) + 1] = change
      BY DEF Commit
    <2>4. Contains(Append(s, change), change)
      BY <2>2, <2>3 DEF Contains
    <2> QED BY <2>1, <2>4, PrefixAppend
  <1> QED BY <1>1, <1>2

-----------------------------------------------------------------------------
(* Assembling is deterministic, and loses nothing.                         *)

\* What holds at the start of a trail and is kept by each merge holds all
\* along it.
LEMMA AlongTheTrail ==
    ASSUME NEW n \in Nat, NEW S, 0 \in S,
           \A i \in 1..n : i - 1 \in S => i \in S
    PROVE  \A i \in 0..n : i \in S
  <1> SUFFICES ASSUME (0..n) \ S # {} PROVE FALSE
    OBVIOUS
  <1>1. (0..n) \ S \subseteq Nat
    OBVIOUS
  <1>2. PICK x \in (0..n) \ S :
           \A y \in (0..n) \ S : ~(<<y, x>> \in OpToRel(<, Nat))
    BY <1>1, WFMin, NatLessThanWellFounded
  <1>3. x \in 1..n /\ x - 1 \in 0..n
    <2>1. x \in 0..n /\ x # 0
      BY <1>2
    <2> QED BY <2>1
  <1>5. x - 1 \notin S
    BY <1>2, <1>3
  <1>4. <<x - 1, x>> \in OpToRel(<, Nat)
    BY <1>3 DEF OpToRel
  <1> QED BY <1>2, <1>3, <1>4, <1>5

\* What assembling needs to know of a candidate.
Buildable(c, n) ==
    /\ candidate[c].base \in Commit
    /\ \A i \in 1..n : Wanted(c, i) \in Change

\* Nothing merged yet.
LEMMA BuildStart ==
    ASSUME NEW c, Buildable(c, 0)
    PROVE  Built(candidate[c].base, c, 0)
  <1> DEFINE trail == [i \in 0..0 |-> candidate[c].base]
  <1>1. trail \in [0..0 -> Commit] /\ trail[0] = candidate[c].base
    BY DEF Buildable
  <1>2. IsTrail(trail, c, 0)
    BY <1>1 DEF IsTrail
  <1> QED BY <1>1, <1>2 DEF Built

\* One more merge.
LEMMA BuildNext ==
    ASSUME NEW c, NEW n \in Nat, NEW commit, Buildable(c, n + 1),
           Built(commit, c, n)
    PROVE  Built(Merged(Wanted(c, n + 1), commit), c, n + 1)
  <1>1. PICK trail \in [0..n -> Commit] : IsTrail(trail, c, n) /\ trail[n] = commit
    BY DEF Built
  <1> DEFINE result == Merged(Wanted(c, n + 1), commit)
             longer == [i \in 0..(n + 1) |-> IF i = n + 1 THEN result ELSE trail[i]]
  <1>2. result \in Commit
    BY <1>1, MergedIsCommit DEF Buildable
  <1> HIDE DEF result
  <1>3. /\ longer \in [0..(n + 1) -> Commit]
        /\ longer[n + 1] = result
        /\ \A i \in 0..n : longer[i] = trail[i]
    BY <1>1, <1>2
  <1> HIDE DEF longer
  <1>4. \A i \in 1..(n + 1) : longer[i] = Merged(Wanted(c, i), longer[i - 1])
    <2> TAKE i \in 1..(n + 1)
    <2>1. CASE i = n + 1
      <3>1. longer[i - 1] = commit /\ longer[i] = result
        BY <1>1, <1>3, <2>1
      <3> QED BY <2>1, <3>1 DEF result
    <2>2. CASE i # n + 1
      <3>1. i \in 1..n /\ i - 1 \in 0..n /\ i \in 0..n
        BY <2>2
      <3> QED BY <1>1, <1>3, <3>1 DEF IsTrail
    <2> QED BY <2>1, <2>2
  <1>5. IsTrail(longer, c, n + 1)
    BY <1>1, <1>3, <1>4 DEF IsTrail
  <1> QED BY <1>3, <1>5 DEF Built, result

\* What was merged is in it, on top of the base it was merged onto.
LEMMA BuildKeeps ==
    ASSUME NEW c, NEW n \in Nat, NEW commit, Buildable(c, n),
           Built(commit, c, n)
    PROVE  /\ commit \in Commit
           /\ IsPrefix(candidate[c].base, commit)
           /\ \A i \in 1..n : Contains(commit, Wanted(c, i))
  <1>1. PICK trail \in [0..n -> Commit] : IsTrail(trail, c, n) /\ trail[n] = commit
    BY DEF Built
  <1>2. \A i \in 1..n : /\ trail[i - 1] \in Commit /\ trail[i] \in Commit
                        /\ IsPrefix(trail[i - 1], trail[i])
                        /\ Contains(trail[i], Wanted(c, i))
    BY <1>1, MergedGrows DEF IsTrail, Buildable
  <1>3. \A i \in 0..n : IsPrefix(candidate[c].base, trail[i])
    <2> DEFINE S == {i \in 0..n : IsPrefix(candidate[c].base, trail[i])}
    <2>1. 0 \in S
      BY <1>1, PrefixSelf DEF Buildable, IsTrail
    <2>2. ASSUME NEW i \in 1..n, i - 1 \in S
          PROVE  i \in S
      <3>1. IsPrefix(candidate[c].base, trail[i - 1])
        BY <2>2
      <3>2. IsPrefix(candidate[c].base, trail[i])
        BY <1>2, <3>1, PrefixTrans DEF Buildable
      <3> QED BY <3>2
    <2> HIDE DEF S
    <2>3. \A i \in 0..n : i \in S
      BY <2>1, <2>2, AlongTheTrail
    <2> QED BY <2>3 DEF S
  <1>4. ASSUME NEW j \in 1..n
        PROVE  Contains(commit, Wanted(c, j))
    <2> DEFINE S == {i \in 0..n : j <= i => Contains(trail[i], Wanted(c, j))}
    <2>1. 0 \in S
      OBVIOUS
    <2>2. ASSUME NEW i \in 1..n, i - 1 \in S
          PROVE  i \in S
      <3>1. CASE j = i
        BY <1>2, <3>1
      <3>2. CASE j <= i - 1
        <4>1. Contains(trail[i - 1], Wanted(c, j))
          BY <2>2, <3>2
        <4>2. Contains(trail[i], Wanted(c, j))
          BY <1>2, <4>1, PrefixHolds
        <4> QED BY <4>2
      <3>3. CASE ~(j <= i)
        BY <3>3
      <3> QED BY <3>1, <3>2, <3>3
    <2> HIDE DEF S
    <2>3. \A i \in 0..n : i \in S
      BY <2>1, <2>2, AlongTheTrail
    <2>4. n \in 0..n /\ j <= n
      OBVIOUS
    <2> QED BY <1>1, <2>3, <2>4 DEF S
  <1>5. n \in 0..n
    OBVIOUS
  <1> QED BY <1>1, <1>3, <1>4, <1>5

\* Two workers that assemble the same candidate assemble the same commit.
LEMMA BuildIsUnique ==
    ASSUME NEW c, NEW n \in Nat, NEW one, NEW other,
           Built(one, c, n), Built(other, c, n)
    PROVE  one = other
  <1>1. PICK s \in [0..n -> Commit] : IsTrail(s, c, n) /\ s[n] = one
    BY DEF Built
  <1>2. PICK t \in [0..n -> Commit] : IsTrail(t, c, n) /\ t[n] = other
    BY DEF Built
  <1> DEFINE S == {i \in 0..n : s[i] = t[i]}
  <1>3. 0 \in S
    BY <1>1, <1>2 DEF IsTrail
  <1>4. ASSUME NEW i \in 1..n, i - 1 \in S
        PROVE  i \in S
    <2>1. s[i - 1] = t[i - 1]
      BY <1>4
    <2>2. s[i] = t[i]
      BY <1>1, <1>2, <2>1 DEF IsTrail
    <2> QED BY <2>2
  <1> HIDE DEF S
  <1>5. \A i \in 0..n : i \in S
    BY <1>3, <1>4, AlongTheTrail
  <1>6. n \in 0..n
    OBVIOUS
  <1> QED BY <1>1, <1>2, <1>5, <1>6 DEF S

\* A commit stays what was assembled as long as the candidate and the
\* requests of its members stay.
LEMMA BuildStays ==
    ASSUME NEW c, NEW n \in Nat, NEW commit, Built(commit, c, n),
           candidate'[c].base = candidate[c].base,
           \A i \in 1..n : Wanted(c, i)' = Wanted(c, i)
    PROVE  Built(commit, c, n)'
  <1>1. PICK trail \in [0..n -> Commit] : IsTrail(trail, c, n) /\ trail[n] = commit
    BY DEF Built
  <1>2. IsTrail(trail, c, n)'
    BY <1>1 DEF IsTrail
  <1> QED BY <1>1, <1>2 DEF Built

-----------------------------------------------------------------------------
(* What no step does, and what follows for everyone it does not concern.   *)

\* The base only grows; an entry keeps its request and a candidate its base
\* and members once they are there.
Steady ==
    /\ IsPrefix(base, base')
    /\ \A e \in EntryId : entry[e].state # "absent" =>
          /\ entry'[e].state # "absent"
          /\ entry'[e].request = entry[e].request
    /\ \A c \in CandidateId : candidate[c].state # "absent" =>
          /\ candidate'[c].state # "absent"
          /\ candidate'[c].base = candidate[c].base
          /\ candidate'[c].entries = candidate[c].entries
          /\ candidate[c].sha # NoCommit => candidate'[c].sha # NoCommit

\* Every event is counted up.
LEMMA SpendCounts ==
    ASSUME TypeInv, NEW event \in Event, Spend(event)
    PROVE  NoOverrun' => NoOverrun
  <1>1. "overrun" \in Event
    BY DEF Event
  <1>2. spent["overrun"] \in Nat /\ spent[event] \in Nat
    BY <1>1 DEF TypeInv, AuxOK
  <1>3. spent' = [spent EXCEPT ![event] = spent[event] + 1]
    BY DEF Spend
  <1>4. spent'["overrun"] = IF event = "overrun" THEN spent["overrun"] + 1
                            ELSE spent["overrun"]
    BY <1>1, <1>3 DEF TypeInv, AuxOK
  <1> QED BY <1>2, <1>4 DEF NoOverrun

\* A step counts one event at most.
LEMMA OneEvent ==
    ASSUME [Next]_vars
    PROVE  UNCHANGED spent \/ \E event \in Event : Spend(event)
  <1>1. ASSUME NEW w \in Worker, TickStep(w) \/ Start(w) \/ Exit(w)
        PROVE  UNCHANGED spent
    <2>1. TickFrame
      BY <1>1
      DEF TickStep, AcquireFree, AcquireReclaim, FindBaseCheckedOut,
          ReadBase, ResumeCandidate, FindNothingUnfinished, SelectBatch,
          Open, OpenRefused, CheckOutDetached, MergeNext, MergeConflicts,
          StartTesting, GatePasses, GateFails, FastForward, FindBaseMoved,
          RecordLanding, Announce, BlameConflict, BlameLone, Blame,
          BlameRefused, AbandonInterrupted, AbandonMoved, Split, ReopenHalf,
          Release, Start, Exit
    <2> QED BY <2>1 DEF TickFrame
  <1>2. ASSUME NEW w \in Worker, Mishap(w)
        PROVE  UNCHANGED spent \/ \E event \in Event : Spend(event)
    BY <1>2 DEF Mishap, MergeCutShort, FastForwardKilled, StepFails, GitFails,
                ReleaseFails, Signal, Crash, TickFrame, Event
  <1>3. CASE LeaseLapses \/ Developer
    BY <1>3 DEF LeaseLapses, Developer, Event
  <1>4. CASE Operator
    BY <1>4 DEF Operator, Enqueue, CheckCommand, DequeueWrite, PromoteWrite,
                TickFrame, Event
  <1>5. CASE UNCHANGED vars
    BY <1>5 DEF vars
  <1> QED BY <1>1, <1>2, <1>3, <1>4, <1>5 DEF Next

\* Once a tick has been overrun, one has.
LEMMA ApartBefore ==
    ASSUME TypeInv, [Next]_vars
    PROVE  /\ NoOverrun' => NoOverrun
           /\ Apart' => Apart
  <1>1. UNCHANGED spent \/ \E event \in Event : Spend(event)
    BY OneEvent
  <1>2. NoOverrun' => NoOverrun
    BY <1>1, SpendCounts DEF NoOverrun
  <1> QED BY <1>2 DEF Apart, OwnCheckouts

\* The members of a candidate are entries, and want something.
LEMMA MembersWant ==
    ASSUME TypeInv, Sound, NEW c \in CandidateId,
           NEW i \in 1..Len(candidate[c].entries)
    PROVE  /\ candidate[c].entries[i] \in EntryId
           /\ candidate[c].entries[i] \in Members(c)
           /\ entry[candidate[c].entries[i]].state # "absent"
           /\ Wanted(c, i) \in Change
  <1>1. candidate[c].entries \in Seq(EntryId)
    BY DEF TypeInv, StoreTypeOK, CandidateRow
  <1>2. /\ candidate[c].entries[i] \in EntryId
        /\ i \in DOMAIN candidate[c].entries
    BY <1>1, ElementOfSeq, LenProperties
  <1>3. candidate[c].entries[i] \in Members(c)
    BY <1>2 DEF Members, ToSet
  <1>4. entry[candidate[c].entries[i]].state # "absent"
    BY <1>3 DEF Sound, CandidateSound
  <1>5. Wanted(c, i) \in Change
    BY <1>2 DEF Wanted, TypeInv, StoreTypeOK, EntryRow, Change
  <1> QED BY <1>2, <1>3, <1>4, <1>5

\* So any part of a candidate can be assembled.
LEMMA CanBuild ==
    ASSUME TypeInv, Sound, NEW c \in CandidateId,
           NEW n \in Nat, n <= Len(candidate[c].entries)
    PROVE  Buildable(c, n)
  <1>1. Len(candidate[c].entries) \in Nat
    BY LenProperties DEF TypeInv, StoreTypeOK, CandidateRow
  <1>2. \A i \in 1..n : i \in 1..Len(candidate[c].entries)
    BY <1>1
  <1>3. candidate[c].base \in Commit
    BY DEF TypeInv, StoreTypeOK, CandidateRow
  <1> QED BY <1>2, <1>3, MembersWant DEF Buildable

\* What has been assembled of a candidate stays assembled.
LEMMA BuiltOn ==
    ASSUME TypeInv, Sound, Steady, NEW c \in CandidateId,
           candidate'[c].base = candidate[c].base,
           candidate'[c].entries = candidate[c].entries,
           NEW n \in Nat, n <= Len(candidate[c].entries),
           NEW commit, Built(commit, c, n)
    PROVE  Built(commit, c, n)'
  <1>1. Len(candidate[c].entries) \in Nat
    BY LenProperties DEF TypeInv, StoreTypeOK, CandidateRow
  <1>2. \A i \in 1..n : i \in 1..Len(candidate[c].entries)
    BY <1>1
  <1>3. \A i \in 1..n : Wanted(c, i)' = Wanted(c, i)
    BY <1>2, MembersWant DEF Wanted, Steady
  <1> QED BY <1>3, BuildStays

\* A worker keeps what it holds, and nobody touches its checkout.
Unmoved(v) ==
    /\ wk'[v].pc = wk[v].pc /\ wk'[v].base = wk[v].base
    /\ wk'[v].cand = wk[v].cand /\ wk'[v].batch = wk[v].batch
    /\ wk'[v].merged = wk[v].merged /\ wk'[v].tip = wk[v].tip
    /\ wk'[v].passed = wk[v].passed
    /\ wk[v].stop => wk'[v].stop
    /\ wk[v].pc \in Assembling => head'[CheckoutOf[v]] = head[CheckoutOf[v]]

\* The facts about types a worker at work needs.
LEMMA WorkerTypes ==
    ASSUME TypeInv, NEW w \in Worker
    PROVE  /\ wk[w].base \in Commit /\ wk[w].tip \in Commit
           /\ wk[w].batch \in Seq(EntryId) /\ wk[w].merged \in Nat
           /\ Len(wk[w].batch) \in Nat
           /\ CheckoutOf[w] \in Checkout
           /\ head[CheckoutOf[w]] \in Commit
           /\ wk[w].stop \in BOOLEAN
           /\ wk[w].pc \in Engaged => wk[w].cand \in CandidateId
           /\ Working \subseteq Engaged
           /\ Assembling \subseteq Working /\ Complete \subseteq Working
  <1>1. wk[w].batch \in Seq(EntryId)
    BY DEF TypeInv, WorkersOK, WorkerState
  <1>2. Len(wk[w].batch) \in Nat
    BY <1>1, LenProperties
  <1>3. CheckoutOf[w] \in Checkout
    BY QueueAssumption
  <1>4. head[CheckoutOf[w]] \in Commit
    BY <1>3 DEF TypeInv, GitTypeOK
  <1>5. /\ wk[w].base \in Commit /\ wk[w].tip \in Commit
        /\ wk[w].merged \in Nat /\ wk[w].stop \in BOOLEAN
        /\ wk[w].pc \in Engaged => wk[w].cand \in CandidateId
    BY DEF TypeInv, WorkersOK, WorkerState, WorkerOK
  <1>6. /\ Working \subseteq Engaged
        /\ Assembling \subseteq Working /\ Complete \subseteq Working
    BY DEF Working, Assembling, Complete, Engaged, InTick
  <1> QED BY <1>1, <1>2, <1>3, <1>4, <1>5, <1>6

\* A worker that is at work on a candidate goes on holding what it holds of
\* it, whatever happens around it.
LEMMA HoldsOn ==
    ASSUME TypeInv, Sound, Steady, NEW v \in Worker, wk[v].pc \in Working,
           wk'[v].cand = wk[v].cand, wk'[v].batch = wk[v].batch,
           wk'[v].merged = wk[v].merged, wk'[v].tip = wk[v].tip
    PROVE  /\ candidate'[wk'[v].cand].state # "absent"
           /\ wk'[v].batch = candidate'[wk'[v].cand].entries
           /\ candidate[wk[v].cand].sha # NoCommit =>
                 candidate'[wk'[v].cand].sha # NoCommit
           /\ wk[v].pc \in Assembling \cup {"land"} =>
                 /\ wk'[v].merged <= Len(wk'[v].batch)
                 /\ Built(wk[v].tip, wk[v].cand, wk[v].merged)'
  <1>1. WorkerSound(v)
    BY DEF Sound
  <1>2. PICK c \in CandidateId : c = wk[v].cand
    BY WorkerTypes
  <1>3. /\ candidate[c].state # "absent" /\ candidate'[c].state # "absent"
        /\ candidate'[c].base = candidate[c].base
        /\ candidate'[c].entries = candidate[c].entries
        /\ candidate[c].sha # NoCommit => candidate'[c].sha # NoCommit
        /\ wk[v].batch = candidate[c].entries
    BY <1>1, <1>2 DEF WorkerSound, Steady
  <1>4. ASSUME wk[v].pc \in Assembling \cup {"land"}
        PROVE  /\ wk'[v].merged <= Len(wk'[v].batch)
               /\ Built(wk[v].tip, wk[v].cand, wk[v].merged)'
    <2>1. PICK n \in Nat, tip \in Commit : n = wk[v].merged /\ tip = wk[v].tip
      BY WorkerTypes
    <2>2. n <= Len(candidate[c].entries) /\ Built(tip, c, n)
      BY <1>1, <1>2, <1>3, <1>4, <2>1 DEF WorkerSound
    <2>3. Built(tip, c, n)'
      BY <1>3, <2>2, BuiltOn
    <2>4. wk'[v].tip = tip /\ wk'[v].cand = c /\ wk'[v].merged = n
      BY <1>2, <2>1
    <2> QED BY <1>3, <2>2, <2>3, <2>4
  <1> QED BY <1>2, <1>3, <1>4

\* A worker that is left alone stays sound.
LEMMA WorkerStays ==
    ASSUME TypeInv, TypeInv', Sound, Steady, NEW v \in Worker, Unmoved(v)
    PROVE  WorkerSound(v)'
  <1>1. WorkerSound(v)
    BY DEF Sound
  <1>2. base \in Commit /\ base' \in Commit
    BY DEF TypeInv, GitTypeOK
  <1>3. /\ IsPrefix(wk[v].base, base')
        /\ wk[v].pc = "land" => IsPrefix(wk[v].tip, base')
    BY <1>1, <1>2, WorkerTypes, PrefixTrans DEF WorkerSound, Steady
  <1>4. CASE wk[v].pc \notin Working
    <2>1. wk[v].pc \notin Assembling \cup Complete \cup {"land", "conflict", "failed", "ff"}
      BY <1>4 DEF Working, Assembling, Complete
    <2> QED BY <1>1, <1>3, <1>4, <2>1 DEF WorkerSound, Unmoved
  <1>5. CASE wk[v].pc \in Working
    <2>1. /\ candidate'[wk'[v].cand].state # "absent"
          /\ wk'[v].batch = candidate'[wk'[v].cand].entries
          /\ candidate[wk[v].cand].sha # NoCommit =>
                candidate'[wk'[v].cand].sha # NoCommit
          /\ wk[v].pc \in Assembling \cup {"land"} =>
                /\ wk'[v].merged <= Len(wk'[v].batch)
                /\ Built(wk[v].tip, wk[v].cand, wk[v].merged)'
      BY <1>5, HoldsOn DEF Unmoved
    <2>2. ASSUME wk[v].pc = "conflict"
          PROVE  ~Innocent(entry[NextToMerge(v)].request)'
      <3>1. PICK c \in CandidateId : c = wk[v].cand
        BY <1>5, WorkerTypes
      <3>2. wk[v].merged < Len(wk[v].batch) /\ wk[v].batch = candidate[c].entries
        BY <1>1, <1>5, <2>2, <3>1
        DEF TypeInv, WorkersOK, WorkerOK, WorkerSound, Conflicting
      <3>3. PICK i \in 1..Len(candidate[c].entries) : i = wk[v].merged + 1
        BY <3>2, WorkerTypes
      <3>4. PICK e \in EntryId : e = candidate[c].entries[i]
        BY MembersWant
      <3>5. NextToMerge(v) = e /\ NextToMerge(v)' = e
        BY <3>2, <3>3, <3>4 DEF NextToMerge, Unmoved
      <3>6. entry'[e].request = entry[e].request
        BY <3>4, MembersWant DEF Steady
      <3>7. ~Innocent(entry[e].request)
        BY <1>1, <2>2, <3>5 DEF WorkerSound
      <3> QED BY <3>5, <3>6, <3>7
    <2> QED BY <1>1, <1>3, <1>5, <2>1, <2>2 DEF WorkerSound, Unmoved
  <1> QED BY <1>4, <1>5

\* Nothing happens to the base, and to what is there already.
LEMMA SteadyBase ==
    ASSUME TypeInv, UNCHANGED <<entry, candidate>>, IsPrefix(base, base')
    PROVE  Steady
  BY DEF Steady

LEMMA BaseKept ==
    ASSUME TypeInv, UNCHANGED base
    PROVE  IsPrefix(base, base')
  BY PrefixSelf DEF TypeInv, GitTypeOK

\* A candidate nobody writes to stays sound.
LEMMA CandidateStays ==
    ASSUME TypeInv, TypeInv', Sound, Steady, NEW c \in CandidateId,
           candidate'[c].base = candidate[c].base,
           candidate'[c].entries = candidate[c].entries,
           candidate'[c].sha = candidate[c].sha,
           candidate'[c].state = "passed" => candidate[c].state = "passed"
    PROVE  CandidateSound(c)'
  <1>1. CandidateSound(c)
    BY DEF Sound
  <1>2. /\ base \in Commit /\ base' \in Commit /\ candidate[c].base \in Commit
        /\ candidate[c].sha \in Commit \cup {NoCommit}
        /\ Members(c) \subseteq EntryId
    <2>1. candidate[c].entries \in Seq(EntryId)
      BY DEF TypeInv, StoreTypeOK, CandidateRow
    <2>2. Members(c) \subseteq EntryId
      BY <2>1 DEF Members, ToSet
    <2> QED BY <2>2 DEF TypeInv, GitTypeOK, StoreTypeOK, CandidateRow
  <1>3. IsPrefix(candidate[c].base, base')
    BY <1>1, <1>2, PrefixTrans DEF CandidateSound, Steady
  <1>4. \A e \in Members(c) : entry'[e].state # "absent"
    BY <1>1, <1>2 DEF CandidateSound, Steady
  <1>5. ASSUME candidate[c].sha # NoCommit
        PROVE  Built(candidate[c].sha, c, Len(candidate[c].entries))'
    <2>1. PICK n \in Nat, sha \in Commit :
             n = Len(candidate[c].entries) /\ sha = candidate[c].sha
      <3>1. Len(candidate[c].entries) \in Nat
        BY LenProperties DEF TypeInv, StoreTypeOK, CandidateRow
      <3> QED BY <1>2, <1>5, <3>1
    <2>2. Built(sha, c, n)
      BY <1>1, <1>5, <2>1 DEF CandidateSound
    <2>3. Built(sha, c, n)'
      BY <2>1, <2>2, BuiltOn
    <2> QED BY <2>1, <2>3
  <1>6. candidate[c].state = "passed" =>
           candidate[c].sha # NoCommit /\ IsPrefix(candidate[c].sha, base')
    BY <1>1, <1>2, PrefixTrans DEF CandidateSound, Steady
  <1> QED BY <1>3, <1>4, <1>5, <1>6 DEF CandidateSound, Members

\* What a change adds to a commit.
LEMMA AppendAdds ==
    ASSUME NEW s \in Commit, NEW change \in Change
    PROVE  ToSet(Append(s, change)) = ToSet(s) \cup {change}
  <1> DEFINE t == Append(s, change)
  <1>1. /\ Len(s) \in Nat /\ DOMAIN s = 1..Len(s)
        /\ t \in Seq(Change) /\ Len(t) = Len(s) + 1
        /\ \A i \in 1..Len(s) : t[i] = s[i]
        /\ t[Len(s) + 1] = change
    BY LenProperties DEF Commit
  <1>2. DOMAIN t = 1..(Len(s) + 1)
    BY <1>1, LenProperties
  <1> HIDE DEF t
  <1>3. ToSet(t) \subseteq ToSet(s) \cup {change}
    BY <1>1, <1>2 DEF ToSet
  <1>4. ToSet(s) \subseteq ToSet(t)
    BY <1>1, <1>2 DEF ToSet
  <1>5. change \in ToSet(t)
    BY <1>1, <1>2 DEF ToSet
  <1> QED BY <1>3, <1>4, <1>5 DEF t

\* A gate that can fail on the base with a change added can fail on any
\* later base with it added.
LEMMA FailsLater ==
    ASSUME NEW s \in Commit, NEW t \in Commit, NEW change \in Change,
           IsPrefix(s, t), GateCanFail(Append(s, change))
    PROVE  GateCanFail(Append(t, change))
  <1>1. ToSet(Append(s, change)) \subseteq ToSet(Append(t, change))
    BY AppendAdds, PrefixHolds
  <1> QED BY <1>1, GateMonotone

\* An entry nobody settles stays sound.
LEMMA EntryStays ==
    ASSUME TypeInv, TypeInv', Sound, Steady, NEW e \in EntryId,
           entry'[e].request = entry[e].request,
           entry'[e].attempts = entry[e].attempts,
           \/ entry'[e].state \notin {"merged", "evicted"}
           \/ entry'[e].state = entry[e].state /\ entry'[e].reason = entry[e].reason
           \/ ByHand(entry'[e])
    PROVE  EntrySound(e)'
  <1>1. EntrySound(e)
    BY DEF Sound
  <1>2. base \in Commit /\ base' \in Commit /\ entry[e].request \in Change
    BY DEF TypeInv, GitTypeOK, StoreTypeOK, EntryRow, Change
  <1>3. IsPrefix(base, base')
    BY DEF Steady
  <1>4. entry'[e].state = "merged" => Contains(base', entry'[e].request)
    BY <1>1, <1>2, <1>3, PrefixHolds DEF EntrySound, ByHand
  <1>5. entry'[e].state = "evicted" /\ entry'[e].reason = "gate" =>
           GateCanFail(Append(base', entry'[e].request))
    BY <1>1, <1>2, <1>3, FailsLater DEF EntrySound, ByHand
  <1>6. entry'[e].state = "absent" => entry'[e].attempts = 0
    BY <1>1 DEF EntrySound, Steady
  <1> QED BY <1>4, <1>5, <1>6 DEF EntrySound, GateCanFail, GateCanPass

\* Tables nobody writes to stay sound.
LEMMA StoreStays ==
    ASSUME TypeInv, TypeInv', Sound, Steady, UNCHANGED <<entry, candidate>>
    PROVE  /\ \A c \in CandidateId : CandidateSound(c)'
           /\ \A e \in EntryId : EntrySound(e)'
  <1>1. ASSUME NEW c \in CandidateId PROVE CandidateSound(c)'
    BY CandidateStays
  <1>2. ASSUME NEW e \in EntryId PROVE EntrySound(e)'
    BY EntryStays
  <1> QED BY <1>1, <1>2

\* Workers that keep their record, and whose checkout is left alone.
Alone(w) ==
    \A v \in Worker \ {w} :
        /\ wk'[v] = wk[v]
        /\ wk[v].pc \in Assembling => head'[CheckoutOf[v]] = head[CheckoutOf[v]]

LEMMA OthersStay ==
    ASSUME TypeInv, TypeInv', Sound, Steady, NEW w \in Worker, Alone(w)
    PROVE  \A v \in Worker \ {w} : WorkerSound(v)'
  <1> SUFFICES ASSUME NEW v \in Worker \ {w} PROVE WorkerSound(v)'
    OBVIOUS
  <1>1. Unmoved(v)
    BY DEF Alone, Unmoved
  <1> QED BY <1>1, WorkerStays

\* A step that changes nothing but one worker's record.
LEMMA QuietStep ==
    ASSUME TypeInv, TypeInv', Sound, NEW w \in Worker,
           \A v \in Worker \ {w} : wk'[v] = wk[v],
           NoStore, UNCHANGED <<base, head>>,
           WorkerSound(w)'
    PROVE  Sound'
  <1>1. Steady
    BY SteadyBase, BaseKept DEF NoStore
  <1>2. Alone(w)
    BY DEF Alone
  <1>3. /\ \A v \in Worker : WorkerSound(v)'
        /\ \A c \in CandidateId : CandidateSound(c)'
        /\ \A e \in EntryId : EntrySound(e)'
    BY <1>1, <1>2, OthersStay, StoreStays DEF NoStore
  <1>4. (base # <<>> /\ Last(base) \in Request => GateCanPass(base))'
    BY DEF Sound, GateCanPass
  <1> QED BY <1>3, <1>4 DEF Sound

-----------------------------------------------------------------------------
(* The steps that change one worker's record and nothing else.             *)

\* A worker that moves on keeps what it holds.
LEMMA GotoKeeps ==
    ASSUME TypeInv, NEW w \in Worker, NEW pc, Goto(w, pc)
    PROVE  /\ \A v \in Worker \ {w} : wk'[v] = wk[v]
           /\ wk'[w].pc = pc /\ wk'[w].base = wk[w].base
           /\ wk'[w].cand = wk[w].cand /\ wk'[w].batch = wk[w].batch
           /\ wk'[w].merged = wk[w].merged /\ wk'[w].tip = wk[w].tip
           /\ wk'[w].passed = wk[w].passed /\ wk'[w].stop = wk[w].stop
           /\ wk'[w].tell = wk[w].tell
  BY DEF TypeInv, WorkersOK, WorkerState, Goto

\* A step is one worker's, or nobody's.
LEMMA OneWorkerSteps ==
    ASSUME TypeInv, NEW v \in Worker, TickStep(v) \/ Start(v) \/ Exit(v) \/ Mishap(v),
           NEW w \in Worker, w # v
    PROVE  wk'[w] = wk[w]
  <1>1. wk \in [Worker -> WorkerState]
    BY DEF TypeInv, WorkersOK
  <1>2. \E row : wk' = [wk EXCEPT ![v] = row]
    <2>1. CASE Start(v) \/ Exit(v) \/ Mishap(v)
      BY <1>1, <2>1 DEF Start, Exit, Mishap, FastForwardKilled, StepFails,
                        MergeCutShort, ReleaseFails, Signal, Crash, Goto
    <2>2. CASE \/ AcquireFree(v) \/ AcquireReclaim(v) \/ FindBaseCheckedOut(v)
               \/ ReadBase(v) \/ ResumeCandidate(v) \/ FindNothingUnfinished(v)
               \/ SelectBatch(v) \/ Open(v) \/ OpenRefused(v)
      BY <1>1, <2>2 DEF AcquireFree, AcquireReclaim, Acquired,
         FindBaseCheckedOut, ReadBase, ResumeCandidate, FindNothingUnfinished,
         SelectBatch, Open, OpenRefused, Goto
    <2>3. CASE \/ CheckOutDetached(v) \/ MergeNext(v) \/ MergeConflicts(v)
               \/ StartTesting(v) \/ GatePasses(v) \/ GateFails(v)
               \/ FastForward(v) \/ FindBaseMoved(v) \/ RecordLanding(v)
               \/ Announce(v)
      BY <1>1, <2>3 DEF CheckOutDetached, MergeNext, MergeConflicts,
         StartTesting, GatePasses, GateFails, FastForward, FindBaseMoved,
         RecordLanding, Announce, Goto
    <2>4. CASE BlameConflict(v) \/ BlameLone(v)
      BY <1>1, <2>4 DEF BlameConflict, BlameLone, Blame
    <2>5. CASE \/ BlameRefused(v) \/ AbandonInterrupted(v) \/ AbandonMoved(v)
               \/ Split(v) \/ ReopenHalf(v) \/ Release(v)
      BY <1>1, <2>5 DEF BlameRefused, AbandonInterrupted, AbandonMoved, Split,
         ReopenHalf, Release, Goto
    <2> QED BY <2>1, <2>2, <2>3, <2>4, <2>5 DEF TickStep
  <1> QED BY <1>1, <1>2

\* A worker that has let go of its candidate.
LEMMA LetGo ==
    ASSUME TypeInv, Sound, NEW w \in Worker,
           wk'[w].pc \in {"guard", "look", "select", "open", "announce",
                         "release", "reopen"},
           wk'[w].base = wk[w].base, IsPrefix(base, base'), TypeInv',
           wk'[w].pc \in Fresh =>
              wk[w].pc \in Fresh /\ wk'[w].merged = wk[w].merged
    PROVE  WorkerSound(w)'
  <1>1. base \in Commit /\ base' \in Commit /\ wk[w].base \in Commit
    BY WorkerTypes DEF TypeInv, GitTypeOK
  <1>2. IsPrefix(wk[w].base, base')
    BY <1>1, PrefixTrans DEF Sound, WorkerSound
  <1> QED BY <1>2 DEF Sound, WorkerSound, Working, Assembling, Complete, Fresh

\* A worker at rest.
LEMMA AtRest ==
    ASSUME TypeInv', NEW w \in Worker, NEW pc \in {"idle", "down"}, NEW stop,
           wk'[w] = Resting(w, pc, stop)
    PROVE  WorkerSound(w)'
  <1>1. wk'[w].pc = pc /\ wk'[w].merged = 0 /\ wk'[w].base = <<>>
    BY DEF Resting
  <1>2. IsPrefix(<<>>, base')
    BY PrefixEmpty DEF TypeInv, GitTypeOK
  <1> QED BY <1>1, <1>2 DEF WorkerSound, Working, Assembling, Complete

LEMMA RestingSound ==
    ASSUME TypeInv, TypeInv', Sound, NEW w \in Worker,
           Release(w) \/ ReleaseFails(w) \/ Start(w) \/ Exit(w) \/ Crash(w)
    PROVE  Sound'
  <1>1. PICK pc \in {"idle", "down"}, stop \in BOOLEAN :
           wk' = [wk EXCEPT ![w] = Resting(w, pc, stop)]
    BY WorkerTypes DEF Release, ReleaseFails, Start, Exit, Crash
  <1>2. wk'[w] = Resting(w, pc, stop) /\ \A v \in Worker \ {w} : wk'[v] = wk[v]
    BY <1>1 DEF TypeInv, WorkersOK
  <1>3. NoStore /\ UNCHANGED <<base, head>>
    BY DEF Release, ReleaseFails, Start, Exit, Crash, NoGit
  <1>4. WorkerSound(w)'
    BY <1>2, AtRest
  <1> QED BY <1>2, <1>3, <1>4, QuietStep

\* A signal only marks the worker as stopping.
LEMMA SignalSound ==
    ASSUME TypeInv, TypeInv', Sound, NEW w \in Worker, Signal(w)
    PROVE  Sound'
  <1>1. NoStore /\ UNCHANGED <<base, head>>
    BY DEF Signal, NoGit
  <1>2. Unmoved(w) /\ \A v \in Worker \ {w} : wk'[v] = wk[v]
    BY <1>1 DEF Signal, Unmoved, TypeInv, WorkersOK, WorkerState
  <1>3. Steady
    BY <1>1, SteadyBase, BaseKept DEF NoStore
  <1>4. WorkerSound(w)'
    BY <1>2, <1>3, WorkerStays
  <1> QED BY <1>1, <1>2, <1>4, QuietStep

\* The steps that end in nothing held.
LEMMA GivingUpSound ==
    ASSUME TypeInv, TypeInv', Sound, NEW w \in Worker,
           \/ FindBaseCheckedOut(w) \/ FindNothingUnfinished(w)
           \/ OpenRefused(w) \/ BlameRefused(w) \/ StepFails(w)
    PROVE  Sound'
  <1>1. NoStore /\ UNCHANGED <<base, head>>
    BY DEF FindBaseCheckedOut, FindNothingUnfinished, OpenRefused,
           BlameRefused, StepFails, NoGit
  <1>2. PICK pc : /\ Goto(w, pc)
                  /\ \/ pc = "release"
                     \/ pc = "select" /\ wk[w].pc = "look"
    BY DEF FindBaseCheckedOut, FindNothingUnfinished, OpenRefused,
           BlameRefused, StepFails
  <1>3. /\ wk'[w].pc = pc /\ wk'[w].base = wk[w].base
        /\ wk'[w].merged = wk[w].merged
        /\ \A v \in Worker \ {w} : wk'[v] = wk[v]
    BY <1>2, GotoKeeps
  <1>4. WorkerSound(w)'
    BY <1>1, <1>2, <1>3, BaseKept, LetGo DEF Fresh
  <1> QED BY <1>1, <1>3, <1>4, QuietStep

\* Reading the base, or the batch at the front of the queue.
LEMMA ReadingSound ==
    ASSUME TypeInv, TypeInv', Sound, NEW w \in Worker,
           ReadBase(w) \/ SelectBatch(w) \/ Announce(w)
    PROVE  Sound'
  <1>1. NoStore /\ UNCHANGED <<base, head>>
    BY DEF ReadBase, SelectBatch, Announce, NoGit
  <1>2. \A v \in Worker \ {w} : wk'[v] = wk[v]
    BY DEF ReadBase, SelectBatch, Announce, TypeInv, WorkersOK
  <1>3. CASE ReadBase(w)
    <2>1. wk'[w].pc = "look" /\ wk'[w].base = base /\ wk'[w].merged = wk[w].merged
      BY <1>3 DEF ReadBase, TypeInv, WorkersOK, WorkerState
    <2>2. IsPrefix(base, base')
      BY <1>1, BaseKept
    <2>3. wk[w].merged = 0
      BY <1>3 DEF ReadBase, Sound, WorkerSound, Fresh
    <2>4. WorkerSound(w)'
      BY <2>1, <2>2, <2>3 DEF WorkerSound, Working, Assembling, Complete
    <2> QED BY <1>1, <1>2, <2>4, QuietStep
  <1>4. CASE SelectBatch(w)
    <2>1. PICK batch \in Batches(MaxBatch) :
             wk' = [wk EXCEPT ![w].batch = batch,
                      ![w].pc = IF batch = <<>> THEN "release" ELSE "open"]
      BY <1>4 DEF SelectBatch
    <2>2. /\ wk'[w].pc \in {"release", "open"} /\ wk'[w].base = wk[w].base
          /\ wk'[w].merged = wk[w].merged
      BY <2>1 DEF TypeInv, WorkersOK, WorkerState
    <2>3. wk[w].pc = "select"
      BY <1>4 DEF SelectBatch
    <2>4. WorkerSound(w)'
      BY <1>1, <2>2, <2>3, BaseKept, LetGo DEF Fresh
    <2> QED BY <1>1, <1>2, <2>4, QuietStep
  <1>5. CASE Announce(w)
    <2>1. wk'[w].pc = "announce" /\ wk'[w].base = wk[w].base
      BY <1>5 DEF Announce, TypeInv, WorkersOK, WorkerState
    <2>2. WorkerSound(w)'
      BY <1>1, <2>1, BaseKept, LetGo DEF Fresh
    <2> QED BY <1>1, <1>2, <2>2, QuietStep
  <1> QED BY <1>3, <1>4, <1>5

\* Taking a free lease.
LEMMA AcquireFreeSound ==
    ASSUME TypeInv, TypeInv', Sound, NEW w \in Worker, AcquireFree(w)
    PROVE  Sound'
  <1>1. NoStore /\ UNCHANGED <<base, head>>
    BY DEF AcquireFree, NoGit
  <1>2. /\ wk'[w].pc = "guard" /\ wk'[w].base = wk[w].base
        /\ wk'[w].merged = wk[w].merged /\ wk[w].pc = "idle"
        /\ \A v \in Worker \ {w} : wk'[v] = wk[v]
    BY DEF AcquireFree, Acquired, TypeInv, WorkersOK, WorkerState
  <1>3. WorkerSound(w)'
    BY <1>1, <1>2, BaseKept, LetGo DEF Fresh
  <1> QED BY <1>1, <1>2, <1>3, QuietStep

\* An unfinished candidate is there, and so is every one being worked on.
LEMMA ResumeSound ==
    ASSUME TypeInv, TypeInv', Sound, NEW w \in Worker, ResumeCandidate(w)
    PROVE  Sound'
  <1>1. NoStore /\ UNCHANGED <<base, head>>
    BY DEF ResumeCandidate, NoGit
  <1>2. PICK c \in CandidateId :
           /\ IsActive(c)
           /\ wk' = [wk EXCEPT
                       ![w].pc = IF candidate[c].base = wk[w].base
                                 THEN "checkout" ELSE "moved",
                       ![w].cand = c, ![w].batch = candidate[c].entries]
    BY DEF ResumeCandidate
  <1>3. /\ wk'[w].pc \in {"checkout", "moved"} /\ wk'[w].cand = c
        /\ wk'[w].batch = candidate[c].entries
        /\ wk'[w].base = wk[w].base /\ wk'[w].merged = wk[w].merged
        /\ \A v \in Worker \ {w} : wk'[v] = wk[v]
    BY <1>2 DEF TypeInv, WorkersOK, WorkerState
  <1>4. candidate[c].state # "absent"
    BY <1>2 DEF IsActive, Unfinished, UnfinishedCandidate
  <1>5. wk[w].merged = 0 /\ IsPrefix(wk[w].base, base)
    BY DEF ResumeCandidate, Sound, WorkerSound, Fresh
  <1>6. WorkerSound(w)'
    BY <1>1, <1>3, <1>4, <1>5 DEF WorkerSound, NoStore, Assembling, Complete
  <1> QED BY <1>1, <1>3, <1>6, QuietStep

\* What conflicts is in a set of changes that conflict.
LEMMA ConflictingIsGuilty ==
    ASSUME NEW change, NEW commit, Conflicted(change, commit)
    PROVE  ~Innocent(change)
  BY DEF Conflicted, Innocent

\* Finding out how a candidate fares.
LEMMA FindingSound ==
    ASSUME TypeInv, TypeInv', Sound, NEW w \in Worker,
           \/ MergeConflicts(w) \/ GatePasses(w) \/ GateFails(w)
           \/ FindBaseMoved(w)
    PROVE  Sound'
  <1>1. NoStore /\ UNCHANGED <<base, head>>
    BY DEF MergeConflicts, GatePasses, GateFails, FindBaseMoved, NoGit
  <1>2. Steady
    BY <1>1, SteadyBase, BaseKept DEF NoStore
  <1>3. /\ wk'[w].cand = wk[w].cand /\ wk'[w].batch = wk[w].batch
        /\ wk'[w].merged = wk[w].merged /\ wk'[w].tip = wk[w].tip
        /\ wk'[w].base = wk[w].base /\ wk'[w].stop = wk[w].stop
        /\ \A v \in Worker \ {w} : wk'[v] = wk[v]
    <2>1. CASE MergeConflicts(w) \/ GateFails(w) \/ FindBaseMoved(w)
      BY <2>1, GotoKeeps DEF MergeConflicts, GateFails, FindBaseMoved
    <2>2. CASE GatePasses(w)
      BY <2>2 DEF GatePasses, TypeInv, WorkersOK, WorkerState
    <2> QED BY <2>1, <2>2
  <1>4. /\ wk[w].pc \in Assembling /\ wk[w].pc \in Working
        /\ wk[w].pc \in {"gate", "ff"} => wk[w].pc \in Complete
    BY DEF MergeConflicts, GatePasses, GateFails, FindBaseMoved, Assembling,
           Complete, Working
  <1>5. WorkerSound(w) /\ head[CheckoutOf[w]] = wk[w].tip
    BY <1>4 DEF Sound, WorkerSound
  <1>6. /\ candidate'[wk'[w].cand].state # "absent"
        /\ wk'[w].batch = candidate'[wk'[w].cand].entries
        /\ candidate[wk[w].cand].sha # NoCommit =>
              candidate'[wk'[w].cand].sha # NoCommit
        /\ wk'[w].merged <= Len(wk'[w].batch)
        /\ Built(wk[w].tip, wk[w].cand, wk[w].merged)'
    BY <1>2, <1>3, <1>4, HoldsOn
  <1>7. WorkerSound(w)'
    <2>1. CASE MergeConflicts(w)
      <3>1. wk'[w].pc = "conflict"
        BY <2>1, GotoKeeps DEF MergeConflicts
      <3>2. ~Innocent(entry[NextToMerge(w)].request)'
        BY <1>1, <1>3, <2>1, ConflictingIsGuilty
        DEF MergeConflicts, NextToMerge, NoStore
      <3> QED BY <1>1, <1>3, <1>5, <1>6, <3>1, <3>2
              DEF WorkerSound, Fresh, Complete
    <2>2. CASE GatePasses(w)
      <3>1. /\ wk'[w].pc = "ff" /\ wk'[w].passed = wk[w].tip
            /\ GateCanPass(wk[w].tip)
        BY <1>5, <2>2 DEF GatePasses, TypeInv, WorkersOK, WorkerState
      <3>2. wk[w].pc \in Complete
        BY <1>4, <2>2 DEF GatePasses
      <3> QED BY <1>1, <1>3, <1>5, <1>6, <3>1, <3>2 DEF WorkerSound, Fresh
    <2>3. CASE GateFails(w)
      <3>1. wk'[w].pc = "failed" /\ (~wk[w].stop => GateCanFail(wk[w].tip))
        BY <1>5, <2>3, GotoKeeps DEF GateFails
      <3>2. wk[w].pc \in Complete
        BY <1>4, <2>3 DEF GateFails
      <3> QED BY <1>1, <1>3, <1>5, <1>6, <3>1, <3>2 DEF WorkerSound, Fresh
    <2>4. CASE FindBaseMoved(w)
      <3>1. wk'[w].pc = "moved"
        BY <2>4, GotoKeeps DEF FindBaseMoved
      <3> QED BY <1>1, <1>3, <1>5, <1>6, <3>1
              DEF WorkerSound, Fresh, Complete, Assembling
    <2> QED BY <2>1, <2>2, <2>3, <2>4
  <1> QED BY <1>1, <1>3, <1>7, QuietStep

-----------------------------------------------------------------------------
(* Assembling.  A checkout is moved by the worker that was given it, or by *)
(* the one that is inside a tick.                                          *)

\* At most one worker is inside a tick.
LEMMA OthersOut ==
    ASSUME LeaseInv, NoOverrun, NEW w \in Worker, Ticking(w)
    PROVE  \A v \in Worker \ {w} : ~Ticking(v)
  BY DEF LeaseInv, Holds

LEMMA HeadIsMine ==
    ASSUME TypeInv, LeaseInv, Apart, NEW w \in Worker, Ticking(w), NEW commit,
           head' = [head EXCEPT ![CheckoutOf[w]] = commit],
           \A v \in Worker \ {w} : wk'[v] = wk[v]
    PROVE  Alone(w) /\ head'[CheckoutOf[w]] = commit
  <1>1. /\ head'[CheckoutOf[w]] = commit
        /\ \A k \in Checkout : k # CheckoutOf[w] => head'[k] = head[k]
    BY QueueAssumption DEF TypeInv, GitTypeOK
  <1>2. CASE OwnCheckouts
    <2>1. \A v \in Worker \ {w} : CheckoutOf[v] \in Checkout /\ CheckoutOf[v] # CheckoutOf[w]
      BY <1>2, QueueAssumption DEF OwnCheckouts
    <2> QED BY <1>1, <2>1 DEF Alone
  <1>3. CASE NoOverrun
    <2>1. \A v \in Worker \ {w} : wk[v].pc \notin Assembling
      BY <1>3, OthersOut DEF Ticking, Assembling, InTick
    <2> QED BY <1>1, <2>1 DEF Alone
  <1> QED BY <1>2, <1>3 DEF Apart

\* git checkout --detach: nothing merged yet, in the checkout or in memory.
LEMMA CheckOutSound ==
    ASSUME TypeInv, TypeInv', LeaseInv, Apart, Sound, NEW w \in Worker,
           CheckOutDetached(w)
    PROVE  Sound'
  <1>1. NoStore /\ UNCHANGED base /\ wk[w].pc = "checkout"
    BY DEF CheckOutDetached
  <1>2. Steady
    BY <1>1, SteadyBase, BaseKept DEF NoStore
  <1>3. PICK from : /\ from = candidate[wk[w].cand].base
                    /\ head' = [head EXCEPT ![CheckoutOf[w]] = from]
                    /\ wk' = [wk EXCEPT ![w].pc = "merge", ![w].tip = from]
    BY DEF CheckOutDetached
  <1>4. /\ wk'[w].pc = "merge" /\ wk'[w].tip = from
        /\ wk'[w].cand = wk[w].cand /\ wk'[w].batch = wk[w].batch
        /\ wk'[w].merged = wk[w].merged /\ wk'[w].base = wk[w].base
        /\ \A v \in Worker \ {w} : wk'[v] = wk[v]
    BY <1>3 DEF TypeInv, WorkersOK, WorkerState
  <1>5. Alone(w) /\ head'[CheckoutOf[w]] = from
    BY <1>1, <1>3, <1>4, HeadIsMine DEF Ticking, InTick
  <1>6. WorkerSound(w) /\ wk[w].pc \in Working /\ wk[w].merged = 0
    BY <1>1 DEF Sound, WorkerSound, Working, Fresh
  <1>7. PICK c \in CandidateId : c = wk[w].cand
    BY <1>6, WorkerTypes
  <1>8. Built(from, c, 0)'
    <2>1. Len(candidate[c].entries) \in Nat
      BY LenProperties DEF TypeInv, StoreTypeOK, CandidateRow
    <2>2. Buildable(c, 0)
      BY <2>1, CanBuild
    <2>3. Built(from, c, 0)
      BY <1>3, <1>7, <2>2, BuildStart
    <2> QED BY <1>1, <1>2, <2>1, <2>3, BuiltOn DEF NoStore
  <1>9. WorkerSound(w)'
    <2>1. /\ candidate'[c].state # "absent" /\ wk[w].batch = candidate'[c].entries
          /\ IsPrefix(wk[w].base, base')
      BY <1>1, <1>6, <1>7 DEF WorkerSound, NoStore
    <2>2. 0 <= Len(wk[w].batch)
      BY WorkerTypes
    <2> QED BY <1>4, <1>5, <1>6, <1>7, <1>8, <2>1, <2>2
            DEF WorkerSound, Complete, Fresh
  <1>10. /\ \A v \in Worker : WorkerSound(v)'
         /\ \A d \in CandidateId : CandidateSound(d)'
         /\ \A e \in EntryId : EntrySound(e)'
    BY <1>1, <1>2, <1>5, <1>9, OthersStay, StoreStays DEF NoStore
  <1> QED BY <1>1, <1>10 DEF Sound, GateCanPass

\* git merge --no-ff in a checkout that is where the worker left it.
LEMMA MergeNextSound ==
    ASSUME TypeInv, TypeInv', LeaseInv, Apart, Sound, NEW w \in Worker,
           MergeNext(w)
    PROVE  Sound'
  <1>1. /\ NoStore /\ UNCHANGED base /\ wk[w].pc = "merge"
        /\ wk[w].merged < Len(wk[w].batch)
    BY DEF MergeNext
  <1>2. Steady
    BY <1>1, SteadyBase, BaseKept DEF NoStore
  <1>3. /\ WorkerSound(w) /\ wk[w].pc \in Working
        /\ wk[w].pc \in Assembling
    BY <1>1 DEF Sound, Working, Assembling
  <1>4. PICK c \in CandidateId : c = wk[w].cand
    BY <1>3, WorkerTypes
  <1>5. PICK n \in Nat : n = wk[w].merged
    BY WorkerTypes
  <1>6. /\ head[CheckoutOf[w]] = wk[w].tip /\ Built(wk[w].tip, c, n)
        /\ wk[w].batch = candidate[c].entries /\ candidate[c].state # "absent"
        /\ n + 1 \in 1..Len(candidate[c].entries)
    BY <1>1, <1>3, <1>4, <1>5, WorkerTypes DEF WorkerSound
  <1>7. PICK result : /\ result = Merged(Wanted(c, n + 1), wk[w].tip)
                      /\ head' = [head EXCEPT ![CheckoutOf[w]] = result]
                      /\ wk' = [wk EXCEPT ![w].merged = n + 1, ![w].tip = result]
    BY <1>5, <1>6 DEF MergeNext, Wanted, NextToMerge
  <1>8. /\ wk'[w].pc = "merge" /\ wk'[w].tip = result
        /\ wk'[w].cand = wk[w].cand /\ wk'[w].batch = wk[w].batch
        /\ wk'[w].merged = n + 1 /\ wk'[w].base = wk[w].base
        /\ \A v \in Worker \ {w} : wk'[v] = wk[v]
    BY <1>1, <1>7 DEF TypeInv, WorkersOK, WorkerState
  <1>9. Alone(w) /\ head'[CheckoutOf[w]] = result
    BY <1>1, <1>7, <1>8, HeadIsMine DEF Ticking, InTick
  <1>10. Built(result, c, n + 1)'
    <2>1. Buildable(c, n + 1)
      BY <1>6, CanBuild
    <2>2. Built(result, c, n + 1)
      BY <1>6, <1>7, <2>1, BuildNext
    <2> QED BY <1>1, <1>2, <1>6, <2>2, BuiltOn DEF NoStore
  <1>11. WorkerSound(w)'
    <2>1. /\ candidate'[c].state # "absent" /\ wk[w].batch = candidate'[c].entries
          /\ IsPrefix(wk[w].base, base') /\ n + 1 <= Len(wk[w].batch)
      BY <1>1, <1>3, <1>6 DEF WorkerSound, NoStore
    <2> QED BY <1>4, <1>8, <1>9, <1>10, <2>1 DEF WorkerSound, Complete, Fresh
  <1>12. /\ \A v \in Worker : WorkerSound(v)'
         /\ \A d \in CandidateId : CandidateSound(d)'
         /\ \A e \in EntryId : EntrySound(e)'
    BY <1>1, <1>2, <1>9, <1>11, OthersStay, StoreStays DEF NoStore
  <1> QED BY <1>1, <1>12 DEF Sound, GateCanPass

\* git merge cut short: the checkout is wherever git left it, and the worker
\* goes on holding its candidate.
LEMMA MergeCutShortSound ==
    ASSUME TypeInv, TypeInv', LeaseInv, Apart, Sound, NEW w \in Worker,
           MergeCutShort(w)
    PROVE  Sound'
  <1>1. /\ NoStore /\ UNCHANGED base /\ wk[w].pc = "merge" /\ Goto(w, "cut")
    BY DEF MergeCutShort
  <1>2. Steady
    BY <1>1, SteadyBase, BaseKept DEF NoStore
  <1>3. PICK commit : head' = [head EXCEPT ![CheckoutOf[w]] = commit]
    BY DEF MergeCutShort
  <1>4. /\ wk'[w].pc = "cut" /\ wk'[w].base = wk[w].base
        /\ wk'[w].cand = wk[w].cand /\ wk'[w].batch = wk[w].batch
        /\ wk'[w].merged = wk[w].merged /\ wk'[w].tip = wk[w].tip
        /\ \A v \in Worker \ {w} : wk'[v] = wk[v]
    BY <1>1, GotoKeeps
  <1>5. Alone(w)
    BY <1>1, <1>3, <1>4, HeadIsMine DEF Ticking, InTick
  <1>6. WorkerSound(w) /\ wk[w].pc \in Working
    BY <1>1 DEF Sound, Working
  <1>7. /\ candidate'[wk'[w].cand].state # "absent"
        /\ wk'[w].batch = candidate'[wk'[w].cand].entries
    BY <1>2, <1>4, <1>6, HoldsOn
  <1>8. WorkerSound(w)'
    BY <1>1, <1>4, <1>6, <1>7 DEF WorkerSound, Fresh, Assembling, Complete
  <1>9. /\ \A v \in Worker : WorkerSound(v)'
        /\ \A d \in CandidateId : CandidateSound(d)'
        /\ \A e \in EntryId : EntrySound(e)'
    BY <1>1, <1>2, <1>5, <1>8, OthersStay, StoreStays DEF NoStore
  <1> QED BY <1>1, <1>9 DEF Sound, GateCanPass

-----------------------------------------------------------------------------
(* The base moves.                                                         *)

\* The compare-and-set only succeeds on the base the candidate was built on,
\* so what the worker holds extends it, and the gate passed on it.
LEMMA Landing ==
    ASSUME TypeInv, Sound, NEW w \in Worker,
           FastForward(w) \/ FastForwardKilled(w)
    PROVE  /\ base' = wk[w].tip /\ wk[w].passed = wk[w].tip
           /\ IsPrefix(base, base') /\ GateCanPass(base')
           /\ UNCHANGED head /\ NoStore
  <1>1. /\ base' = wk[w].tip /\ wk[w].pc = "ff" /\ UNCHANGED head /\ NoStore
        /\ base = candidate[wk[w].cand].base
    BY DEF FastForward, FastForwardKilled, MoveRef, RefIsAt
  <1>2. /\ WorkerSound(w) /\ wk[w].pc \in Working /\ wk[w].pc \in Assembling
        /\ wk[w].pc \in Complete
    BY <1>1 DEF Sound, Working, Assembling, Complete
  <1>3. PICK c \in CandidateId : c = wk[w].cand
    BY <1>2, WorkerTypes
  <1>4. /\ Built(wk[w].tip, c, wk[w].merged)
        /\ wk[w].merged \in Nat /\ wk[w].merged <= Len(candidate[c].entries)
        /\ wk[w].passed = wk[w].tip /\ GateCanPass(wk[w].tip)
    BY <1>1, <1>2, <1>3, WorkerTypes DEF WorkerSound
  <1>5. IsPrefix(candidate[c].base, wk[w].tip)
    BY <1>4, CanBuild, BuildKeeps
  <1> QED BY <1>1, <1>3, <1>4, <1>5

LEMMA LandingSound ==
    ASSUME TypeInv, TypeInv', Sound, NEW w \in Worker,
           FastForward(w) \/ FastForwardKilled(w)
    PROVE  Sound'
  <1>1. /\ base' = wk[w].tip /\ IsPrefix(base, base') /\ GateCanPass(base')
        /\ UNCHANGED head /\ NoStore
    BY Landing
  <1>2. Steady
    BY <1>1, SteadyBase DEF NoStore
  <1>3. PICK pc \in {"land", "moved"} : Goto(w, pc)
    BY DEF FastForward, FastForwardKilled
  <1>4. /\ wk'[w].pc = pc /\ wk'[w].base = wk[w].base
        /\ wk'[w].cand = wk[w].cand /\ wk'[w].batch = wk[w].batch
        /\ wk'[w].merged = wk[w].merged /\ wk'[w].tip = wk[w].tip
        /\ \A v \in Worker \ {w} : wk'[v] = wk[v]
    BY <1>3, GotoKeeps
  <1>5. /\ WorkerSound(w) /\ wk[w].pc \in Working /\ wk[w].pc \in Assembling
        /\ wk[w].pc \in Complete
    BY DEF FastForward, FastForwardKilled, Sound, Working, Assembling, Complete
  <1>6. /\ candidate'[wk'[w].cand].state # "absent"
        /\ wk'[w].batch = candidate'[wk'[w].cand].entries
        /\ candidate[wk[w].cand].sha # NoCommit =>
              candidate'[wk'[w].cand].sha # NoCommit
        /\ wk'[w].merged <= Len(wk'[w].batch)
        /\ Built(wk[w].tip, wk[w].cand, wk[w].merged)'
    BY <1>2, <1>4, <1>5, HoldsOn
  <1>7. /\ base \in Commit /\ base' \in Commit /\ wk[w].base \in Commit
        /\ IsPrefix(wk[w].base, base') /\ IsPrefix(wk[w].tip, base')
    BY <1>1, <1>5, WorkerTypes, PrefixTrans, PrefixSelf
    DEF WorkerSound, TypeInv, GitTypeOK
  <1>8. WorkerSound(w)'
    <2>1. /\ wk[w].merged = Len(wk[w].batch)
          /\ candidate[wk[w].cand].sha # NoCommit
      BY <1>5 DEF WorkerSound
    <2>2. pc \notin Assembling /\ pc \notin Fresh /\ pc \notin {"conflict", "failed", "ff"}
      BY DEF Assembling, Fresh
    <2> QED BY <1>4, <1>6, <1>7, <2>1, <2>2 DEF WorkerSound
  <1>9. Alone(w)
    BY <1>1, <1>4 DEF Alone
  <1>10. /\ \A v \in Worker : WorkerSound(v)'
         /\ \A d \in CandidateId : CandidateSound(d)'
         /\ \A e \in EntryId : EntrySound(e)'
    BY <1>1, <1>2, <1>8, <1>9, OthersStay, StoreStays DEF NoStore
  <1> QED BY <1>1, <1>10 DEF Sound, GateCanPass

-----------------------------------------------------------------------------
(* Transactions.  What each of them does to the tables, whoever runs it.   *)

\* The tables are sound after the step.
TablesSound ==
    /\ \A c \in CandidateId : CandidateSound(c)
    /\ \A e \in EntryId : EntrySound(e)

\* Putting entries back in line changes nothing else about them.
LEMMA RequeueKeeps ==
    ASSUME TypeInv, NEW es, NEW e \in EntryId
    PROVE  /\ Requeue(es)[e].request = entry[e].request
           /\ Requeue(es)[e].attempts = entry[e].attempts
           /\ Requeue(es)[e].reason = entry[e].reason
           /\ \/ Requeue(es)[e].state = entry[e].state
              \/ /\ entry[e].state = "batched"
                 /\ Requeue(es)[e].state = "queued"
  BY DEF TypeInv, StoreTypeOK, EntryRow, Requeue

\* mark_testing: the commit recorded is the one that was assembled.
LEMMA MarkTestingSound ==
    ASSUME TypeInv, TypeInv', Sound, UNCHANGED base, NEW c \in CandidateId,
           candidate[c].state # "absent", NEW commit \in Commit,
           Built(commit, c, Len(candidate[c].entries)), MarkTesting(c, commit)
    PROVE  Steady /\ TablesSound' /\ candidate'[c].sha # NoCommit
  <1>1. /\ candidate'[c].base = candidate[c].base
        /\ candidate'[c].entries = candidate[c].entries
        /\ candidate'[c].state = "testing" /\ candidate'[c].sha = commit
        /\ \A d \in CandidateId \ {c} : candidate'[d] = candidate[d]
        /\ entry' = entry
    BY DEF MarkTesting, TypeInv, StoreTypeOK, CandidateRow
  <1>2. commit # NoCommit
    BY StoreAssumption
  <1>3. Steady
    BY <1>1, <1>2, BaseKept DEF Steady
  <1>4. CandidateSound(c)'
    <2>1. CandidateSound(c)
      BY DEF Sound
    <2>2. PICK n \in Nat : n = Len(candidate[c].entries)
      BY LenProperties DEF TypeInv, StoreTypeOK, CandidateRow
    <2>3. Built(commit, c, n)'
      BY <1>1, <1>3, <2>2, BuiltOn
    <2> QED BY <1>1, <2>1, <2>2, <2>3 DEF CandidateSound, Members
  <1>5. ASSUME NEW d \in CandidateId PROVE CandidateSound(d)'
    BY <1>1, <1>3, <1>4, CandidateStays
  <1>6. ASSUME NEW e \in EntryId PROVE EntrySound(e)'
    BY <1>1, <1>3, EntryStays
  <1> QED BY <1>1, <1>2, <1>3, <1>5, <1>6 DEF TablesSound

\* abandon: no verdict, so nothing to answer for.
LEMMA AbandonSound ==
    ASSUME TypeInv, TypeInv', Sound, UNCHANGED base, NEW c \in CandidateId,
           NEW state \in {"superseded", "failed"}, AbandonCandidate(c, state)
    PROVE  Steady /\ TablesSound'
  <1>1. \A d \in CandidateId :
           /\ candidate'[d].base = candidate[d].base
           /\ candidate'[d].entries = candidate[d].entries
           /\ candidate'[d].sha = candidate[d].sha
           /\ candidate'[d].state = IF d = c THEN state ELSE candidate[d].state
    BY DEF AbandonCandidate, TypeInv, StoreTypeOK, CandidateRow
  <1>2. entry' = Requeue(Members(c))
    BY DEF AbandonCandidate
  <1>3. Steady
    BY <1>1, <1>2, BaseKept, RequeueKeeps DEF Steady
  <1>4. ASSUME NEW d \in CandidateId PROVE CandidateSound(d)'
    BY <1>1, <1>3, CandidateStays
  <1>5. ASSUME NEW e \in EntryId PROVE EntrySound(e)'
    BY <1>2, <1>3, RequeueKeeps, EntryStays
  <1> QED BY <1>3, <1>4, <1>5 DEF TablesSound

\* supersede_orphans: the same for every unfinished candidate.
LEMMA SupersedeSound ==
    ASSUME TypeInv, TypeInv', Sound, UNCHANGED base, SupersedeOrphans
    PROVE  Steady /\ TablesSound'
  <1>1. \A d \in CandidateId :
           /\ candidate'[d].base = candidate[d].base
           /\ candidate'[d].entries = candidate[d].entries
           /\ candidate'[d].sha = candidate[d].sha
           /\ candidate'[d].state = IF d \in Unfinished THEN "superseded"
                                    ELSE candidate[d].state
    BY DEF SupersedeOrphans, TypeInv, StoreTypeOK, CandidateRow
  <1>2. PICK es : entry' = Requeue(es)
    BY DEF SupersedeOrphans
  <1>3. Steady
    BY <1>1, <1>2, BaseKept, RequeueKeeps DEF Steady
  <1>4. ASSUME NEW d \in CandidateId PROVE CandidateSound(d)'
    BY <1>1, <1>3, CandidateStays
  <1>5. ASSUME NEW e \in EntryId PROVE EntrySound(e)'
    BY <1>2, <1>3, RequeueKeeps, EntryStays
  <1> QED BY <1>3, <1>4, <1>5 DEF TablesSound

\* open_candidate: it starts from something that was the base, and has no
\* commit yet.
LEMMA OpenSound ==
    ASSUME TypeInv, TypeInv', Sound, UNCHANGED base, NEW c \in CandidateId,
           NEW from, IsPrefix(from, base), NEW batch \in Seq(EntryId),
           OpenCandidate(c, from, batch)
    PROVE  /\ Steady /\ TablesSound'
           /\ candidate'[c].entries = batch /\ candidate'[c].state # "absent"
  <1>1. /\ candidate[c].state = "absent"
        /\ candidate'[c].base = from /\ candidate'[c].entries = batch
        /\ candidate'[c].state = "building" /\ candidate'[c].sha = NoCommit
        /\ \A d \in CandidateId \ {c} : candidate'[d] = candidate[d]
    BY DEF OpenCandidate, TypeInv, StoreTypeOK
  <1>2. \A e \in EntryId :
           /\ entry'[e].request = entry[e].request
           /\ entry'[e].attempts = entry[e].attempts
           /\ entry'[e].reason = entry[e].reason
           /\ entry'[e].state = IF e \in ToSet(batch) THEN "batched"
                                ELSE entry[e].state
    BY DEF OpenCandidate, TypeInv, StoreTypeOK, EntryRow
  <1>3. Steady
    BY <1>1, <1>2, BaseKept DEF Steady
  <1>4. CandidateSound(c)'
    <2>1. ToSet(batch) \subseteq EntryId
      BY DEF ToSet
    <2>2. IsPrefix(from, base')
      OBVIOUS
    <2> QED BY <1>1, <1>2, <2>1, <2>2 DEF CandidateSound, Members
  <1>5. ASSUME NEW d \in CandidateId PROVE CandidateSound(d)'
    BY <1>1, <1>3, <1>4, CandidateStays
  <1>6. ASSUME NEW e \in EntryId PROVE EntrySound(e)'
    BY <1>2, <1>3, EntryStays
  <1> QED BY <1>1, <1>3, <1>5, <1>6 DEF TablesSound

\* land: everything in the candidate is on the base, and so is its commit.
LEMMA LandSound ==
    ASSUME TypeInv, TypeInv', Sound, UNCHANGED base, NEW c \in CandidateId,
           candidate[c].sha # NoCommit, NEW tip, IsPrefix(tip, base),
           Built(tip, c, Len(candidate[c].entries)), LandCandidate(c)
    PROVE  Steady /\ TablesSound'
  <1>1. \A d \in CandidateId :
           /\ candidate'[d].base = candidate[d].base
           /\ candidate'[d].entries = candidate[d].entries
           /\ candidate'[d].sha = candidate[d].sha
           /\ candidate'[d].state = IF d = c THEN "passed" ELSE candidate[d].state
    <2>1. PICK outcome :
             outcome = [e \in EntryId |-> IF e \in Members(c) THEN "passed"
                                         ELSE candidate[c].outcome[e]]
      OBVIOUS
    <2>2. PICK row : row = [candidate[c] EXCEPT !.state = "passed", !.outcome = outcome]
      OBVIOUS
    <2>3. /\ candidate \in [CandidateId -> CandidateRow]
          /\ candidate[c] \in CandidateRow
      BY DEF TypeInv, StoreTypeOK
    <2>4. candidate' = [candidate EXCEPT ![c] = row]
      BY <2>1, <2>2, <2>3 DEF LandCandidate
    <2>5. /\ row.base = candidate[c].base /\ row.entries = candidate[c].entries
          /\ row.sha = candidate[c].sha /\ row.state = "passed"
      BY ONLY <2>2, <2>3 DEF CandidateRow
    <2> QED BY ONLY <2>3, <2>4, <2>5
  <1>2. \A e \in EntryId :
           /\ entry'[e].request = entry[e].request
           /\ entry'[e].attempts = entry[e].attempts
           /\ entry'[e].reason = entry[e].reason
           /\ entry'[e].state = IF e \in Members(c) THEN "merged"
                                ELSE entry[e].state
    BY DEF LandCandidate, TypeInv, StoreTypeOK, EntryRow
  <1>3. PICK n \in Nat : n = Len(candidate[c].entries)
    BY LenProperties DEF TypeInv, StoreTypeOK, CandidateRow
  <1>4. Buildable(c, n) /\ tip \in Commit
    BY <1>3, CanBuild, BuildKeeps
  <1>5. Steady
    BY <1>1, <1>2, BaseKept DEF Steady
  <1>6. CandidateSound(c)'
    <2>1. CandidateSound(c)
      BY DEF Sound
    <2>2. PICK sha \in Commit : sha = candidate[c].sha
      BY DEF TypeInv, StoreTypeOK, CandidateRow
    <2>3. Built(sha, c, n)
      BY <1>3, <2>1, <2>2 DEF CandidateSound
    <2>4. sha = tip
      BY <1>3, <2>3, BuildIsUnique
    <2>5. Built(sha, c, n)'
      BY <1>1, <1>3, <1>5, <2>3, BuiltOn
    <2>6. Members(c)' = Members(c) /\ Members(c) \subseteq EntryId
      <3>1. candidate[c].entries \in Seq(EntryId)
        BY DEF TypeInv, StoreTypeOK, CandidateRow
      <3> QED BY <1>1, <3>1 DEF Members, ToSet
    <2>7. \A e \in Members(c) : entry'[e].state # "absent"
      BY <1>2, <2>6
    <2> QED BY <1>1, <1>3, <2>1, <2>2, <2>4, <2>5, <2>6, <2>7 DEF CandidateSound
  <1>7. ASSUME NEW d \in CandidateId PROVE CandidateSound(d)'
    BY <1>1, <1>5, <1>6, CandidateStays
  <1>8. ASSUME NEW e \in EntryId PROVE EntrySound(e)'
    <2>1. CASE e \notin Members(c)
      BY <1>2, <1>5, <2>1, EntryStays
    <2>2. CASE e \in Members(c)
      <3>1. PICK i \in 1..n : e = candidate[c].entries[i]
        <4>1. DOMAIN candidate[c].entries = 1..n
          BY <1>3, LenProperties DEF TypeInv, StoreTypeOK, CandidateRow
        <4> QED BY <2>2, <4>1 DEF Members, ToSet
      <3>2. Contains(tip, entry[e].request)
        BY <1>3, <1>4, <3>1, BuildKeeps DEF Wanted
      <3>3. Contains(base, entry[e].request)
        BY <1>4, <3>2, PrefixHolds DEF TypeInv, GitTypeOK
      <3>4. EntrySound(e)
        BY DEF Sound
      <3> QED BY <1>2, <2>2, <3>3, <3>4 DEF EntrySound, GateCanFail, GateCanPass
    <2> QED BY <2>1, <2>2
  <1> QED BY <1>5, <1>7, <1>8 DEF TablesSound

\* blame: whoever is blamed by the gate fails it.
LEMMA BlameSound ==
    ASSUME TypeInv, TypeInv', Sound, UNCHANGED base, NEW c \in CandidateId,
           NEW culprit \in EntryId, NEW max \in Nat, NEW reason,
           reason = "gate" => GateCanFail(Append(base, entry[culprit].request)),
           BlameEntry(c, culprit, max, reason),
           entry[culprit].state # "absent"
    PROVE  Steady /\ TablesSound'
  <1>1. \A d \in CandidateId :
           /\ candidate'[d].base = candidate[d].base
           /\ candidate'[d].entries = candidate[d].entries
           /\ candidate'[d].sha = candidate[d].sha
           /\ candidate'[d].state = IF d = c THEN "failed" ELSE candidate[d].state
    <2>1. PICK outcome : candidate' = [candidate EXCEPT ![c].state = "failed",
                                                        ![c].outcome = outcome]
      BY DEF BlameEntry
    <2> QED BY <2>1 DEF TypeInv, StoreTypeOK, CandidateRow
  <1>2. PICK es : entry' = [Requeue(es) EXCEPT ![culprit] =
                              Punished(culprit, max, reason)]
    BY DEF BlameEntry
  <1>3. /\ entry'[culprit] = Punished(culprit, max, reason)
        /\ \A e \in EntryId \ {culprit} : entry'[e] = Requeue(es)[e]
    BY <1>2, RequeueType DEF TypeInv
  <1>4. /\ entry'[culprit].request = entry[culprit].request
        /\ \/ entry'[culprit].state = "queued"
           \/ entry'[culprit].state = "evicted" /\ entry'[culprit].reason = reason
    BY <1>3 DEF Punished, TypeInv, StoreTypeOK, EntryRow
  <1>5. Steady
    <2>1. \A e \in EntryId : entry[e].state # "absent" =>
             /\ entry'[e].state # "absent"
             /\ entry'[e].request = entry[e].request
      BY <1>3, <1>4, RequeueKeeps
    <2> QED BY <1>1, <2>1, BaseKept DEF Steady
  <1>6. ASSUME NEW d \in CandidateId PROVE CandidateSound(d)'
    BY <1>1, <1>5, CandidateStays
  <1>7. EntrySound(culprit)'
    BY <1>4 DEF EntrySound, GateCanFail, GateCanPass
  <1>8. ASSUME NEW e \in EntryId PROVE EntrySound(e)'
    <2>1. CASE e # culprit
      BY <1>3, <1>5, <2>1, RequeueKeeps, EntryStays
    <2> QED BY <1>7, <2>1
  <1> QED BY <1>5, <1>6, <1>8 DEF TablesSound

-----------------------------------------------------------------------------
(* The same, run by a worker.                                              *)

\* A transaction of one worker.
LEMMA TableStep ==
    ASSUME TypeInv, TypeInv', Sound, NEW w \in Worker,
           \A v \in Worker \ {w} : wk'[v] = wk[v],
           UNCHANGED <<base, head>>, Steady, TablesSound', WorkerSound(w)'
    PROVE  Sound'
  <1>1. Alone(w)
    BY DEF Alone
  <1>2. \A v \in Worker : WorkerSound(v)'
    BY <1>1, OthersStay
  <1> QED BY <1>2 DEF Sound, TablesSound, GateCanPass

LEMMA ReclaimSound ==
    ASSUME TypeInv, TypeInv', Sound, NEW w \in Worker, AcquireReclaim(w)
    PROVE  Sound'
  <1>1. UNCHANGED <<base, head>>
    BY DEF AcquireReclaim, NoGit
  <1>2. /\ wk'[w].pc = "guard" /\ wk'[w].base = wk[w].base
        /\ wk'[w].merged = wk[w].merged /\ wk[w].pc = "idle"
        /\ \A v \in Worker \ {w} : wk'[v] = wk[v]
    BY DEF AcquireReclaim, Acquired, TypeInv, WorkersOK, WorkerState
  <1>3. Steady /\ TablesSound'
    BY <1>1, SupersedeSound DEF AcquireReclaim
  <1>4. WorkerSound(w)'
    BY <1>1, <1>2, BaseKept, LetGo DEF Fresh
  <1> QED BY <1>1, <1>2, <1>3, <1>4, TableStep

LEMMA OpeningSound ==
    ASSUME TypeInv, TypeInv', Sound, NEW w \in Worker, Open(w) \/ ReopenHalf(w)
    PROVE  Sound'
  <1>1. UNCHANGED <<base, head>>
    BY DEF Open, ReopenHalf, NoGit
  <1>2. WorkerSound(w)
    BY DEF Sound
  <1>3. CASE Open(w)
    <2>1. PICK c \in CandidateId :
             /\ OpenCandidate(c, wk[w].base, wk[w].batch)
             /\ wk' = [wk EXCEPT ![w].pc = "checkout", ![w].cand = c]
      BY <1>3 DEF Open
    <2>2. /\ wk'[w].pc = "checkout" /\ wk'[w].cand = c
          /\ wk'[w].batch = wk[w].batch /\ wk'[w].base = wk[w].base
          /\ wk'[w].merged = wk[w].merged
          /\ \A v \in Worker \ {w} : wk'[v] = wk[v]
      BY <2>1 DEF TypeInv, WorkersOK, WorkerState
    <2>3. IsPrefix(wk[w].base, base) /\ wk[w].merged = 0
      BY <1>2, <1>3 DEF WorkerSound, Open, Fresh
    <2>4. PICK from \in Commit, batch \in Seq(EntryId) :
             from = wk[w].base /\ batch = wk[w].batch
      BY WorkerTypes
    <2>5. /\ Steady /\ TablesSound'
          /\ candidate'[c].entries = batch /\ candidate'[c].state # "absent"
      BY <1>1, <2>1, <2>3, <2>4, OpenSound
    <2>6. WorkerSound(w)'
      BY <1>1, <2>2, <2>3, <2>4, <2>5 DEF WorkerSound, Assembling, Complete
    <2> QED BY <1>1, <2>2, <2>5, <2>6, TableStep
  <1>4. CASE ReopenHalf(w)
    <2>1. wk[w].cand \in CandidateId
      BY <1>4, WorkerTypes DEF ReopenHalf, Engaged, InTick
    <2>2. PICK from \in Commit, batch \in Seq(EntryId) :
             from = candidate[wk[w].cand].base /\ batch = wk[w].batch
      BY <2>1, WorkerTypes DEF TypeInv, StoreTypeOK, CandidateRow
    <2>3. IsPrefix(from, base)
      BY <2>1, <2>2 DEF Sound, CandidateSound
    <2>4. PICK c \in CandidateId : OpenCandidate(c, from, batch)
      BY <1>4, <2>2 DEF ReopenHalf
    <2>5. Steady /\ TablesSound'
      BY <1>1, <2>3, <2>4, OpenSound
    <2>6. /\ wk'[w].pc = "release" /\ wk'[w].base = wk[w].base
          /\ \A v \in Worker \ {w} : wk'[v] = wk[v]
      BY <1>4, GotoKeeps DEF ReopenHalf
    <2>7. WorkerSound(w)'
      BY <1>1, <2>6, BaseKept, LetGo DEF Fresh
    <2> QED BY <1>1, <2>5, <2>6, <2>7, TableStep
  <1> QED BY <1>3, <1>4

LEMMA AbandoningSound ==
    ASSUME TypeInv, TypeInv', Sound, NEW w \in Worker,
           AbandonInterrupted(w) \/ AbandonMoved(w) \/ Split(w)
    PROVE  Sound'
  <1>1. UNCHANGED <<base, head>>
    BY DEF AbandonInterrupted, AbandonMoved, Split, NoGit
  <1>2. PICK c \in CandidateId : c = wk[w].cand
    BY WorkerTypes DEF AbandonInterrupted, AbandonMoved, Split, Engaged, InTick
  <1>3. Steady /\ TablesSound'
    BY <1>1, <1>2, AbandonSound DEF AbandonInterrupted, AbandonMoved, Split
  <1>4. /\ wk'[w].pc \in {"release", "reopen"} /\ wk'[w].base = wk[w].base
        /\ \A v \in Worker \ {w} : wk'[v] = wk[v]
    <2>1. CASE AbandonInterrupted(w) \/ AbandonMoved(w)
      BY <2>1, GotoKeeps DEF AbandonInterrupted, AbandonMoved
    <2>2. CASE Split(w)
      <3>1. PICK half : wk' = [wk EXCEPT ![w].pc = "reopen", ![w].batch = half]
        BY <2>2 DEF Split
      <3> QED BY <3>1 DEF TypeInv, WorkersOK, WorkerState
    <2> QED BY <2>1, <2>2
  <1>5. WorkerSound(w)'
    BY <1>1, <1>4, BaseKept, LetGo DEF Fresh
  <1> QED BY <1>1, <1>3, <1>4, <1>5, TableStep

LEMMA StartTestingSound ==
    ASSUME TypeInv, TypeInv', Sound, NEW w \in Worker, StartTesting(w)
    PROVE  Sound'
  <1>1. /\ UNCHANGED <<base, head>> /\ wk[w].pc = "merge"
        /\ wk[w].merged = Len(wk[w].batch) /\ MarkTesting(wk[w].cand, wk[w].tip)
    BY DEF StartTesting, NoGit
  <1>2. WorkerSound(w) /\ wk[w].pc \in Working /\ wk[w].pc \in Assembling
    BY <1>1 DEF Sound, Working, Assembling
  <1>3. PICK c \in CandidateId, tip \in Commit : c = wk[w].cand /\ tip = wk[w].tip
    BY <1>2, WorkerTypes
  <1>4. /\ candidate[c].state # "absent"
        /\ Built(tip, c, Len(candidate[c].entries))
    BY <1>1, <1>2, <1>3 DEF WorkerSound
  <1>5. Steady /\ TablesSound' /\ candidate'[c].sha # NoCommit
    BY <1>1, <1>3, <1>4, MarkTestingSound
  <1>6. /\ wk'[w].pc = "gate" /\ wk'[w].base = wk[w].base
        /\ wk'[w].cand = wk[w].cand /\ wk'[w].batch = wk[w].batch
        /\ wk'[w].merged = wk[w].merged /\ wk'[w].tip = wk[w].tip
        /\ \A v \in Worker \ {w} : wk'[v] = wk[v]
    BY GotoKeeps DEF StartTesting
  <1>7. /\ candidate'[wk'[w].cand].state # "absent"
        /\ wk'[w].batch = candidate'[wk'[w].cand].entries
        /\ wk'[w].merged <= Len(wk'[w].batch)
        /\ Built(wk[w].tip, wk[w].cand, wk[w].merged)'
    BY <1>2, <1>5, <1>6, HoldsOn
  <1>8. WorkerSound(w)'
    BY <1>1, <1>2, <1>3, <1>5, <1>6, <1>7 DEF WorkerSound, Fresh
  <1> QED BY <1>1, <1>5, <1>6, <1>8, TableStep

LEMMA RecordingSound ==
    ASSUME TypeInv, TypeInv', Sound, NEW w \in Worker, RecordLanding(w)
    PROVE  Sound'
  <1>1. /\ UNCHANGED <<base, head>> /\ wk[w].pc = "land"
        /\ LandCandidate(wk[w].cand)
    BY DEF RecordLanding, NoGit
  <1>2. WorkerSound(w) /\ wk[w].pc \in Working /\ wk[w].pc \in Complete
    BY <1>1 DEF Sound, Working, Complete
  <1>3. PICK c, tip : c \in CandidateId /\ c = wk[w].cand /\ tip = wk[w].tip
    BY <1>2, WorkerTypes
  <1>4. /\ candidate[c].sha # NoCommit /\ IsPrefix(tip, base)
        /\ Built(tip, c, Len(candidate[c].entries))
    BY <1>1, <1>2, <1>3 DEF WorkerSound
  <1>5. Steady /\ TablesSound'
    BY <1>1, <1>3, <1>4, LandSound
  <1>6. PICK tell : wk' = [wk EXCEPT ![w].pc = "announce", ![w].tell = tell]
    BY DEF RecordLanding
  <1>7. /\ wk'[w].pc = "announce" /\ wk'[w].base = wk[w].base
        /\ \A v \in Worker \ {w} : wk'[v] = wk[v]
    BY <1>6 DEF TypeInv, WorkersOK, WorkerState
  <1>8. WorkerSound(w)'
    BY <1>1, <1>7, BaseKept, LetGo DEF Fresh
  <1> QED BY <1>1, <1>5, <1>7, <1>8, TableStep

\* A candidate of one member is its base with one change on top, so whatever
\* the gate found there it would find on the base with that change.
LEMMA LoneFailure ==
    ASSUME TypeInv, Sound, NEW c \in CandidateId, Len(candidate[c].entries) = 1,
           NEW tip, Built(tip, c, 1), GateCanFail(tip)
    PROVE  /\ GateCanFail(Append(base, Wanted(c, 1)))
           /\ Innocent(Wanted(c, 1)) => GateCanFail(base)
  <1>1. Buildable(c, 1)
    <2>1. 1 \in Nat /\ 1 <= Len(candidate[c].entries)
      OBVIOUS
    <2> QED BY <2>1, CanBuild
  <1>2. PICK trail \in [0..1 -> Commit] : IsTrail(trail, c, 1) /\ trail[1] = tip
    BY DEF Built
  <1>3. tip = Merged(Wanted(c, 1), candidate[c].base)
    <2>1. 1 \in 1..1 /\ 1 - 1 = 0
      OBVIOUS
    <2> QED BY <1>2, <2>1 DEF IsTrail
  <1>4. /\ candidate[c].base \in Commit /\ base \in Commit
        /\ Wanted(c, 1) \in Change
    BY <1>1 DEF Buildable, TypeInv, GitTypeOK
  <1>5. ToSet(tip) \subseteq ToSet(candidate[c].base) \cup {Wanted(c, 1)}
    BY <1>3, <1>4, AppendAdds DEF Merged
  <1>6. ToSet(candidate[c].base) \subseteq ToSet(base)
    BY <1>4, PrefixHolds DEF Sound, CandidateSound
  <1>7. GateCanFail(Append(base, Wanted(c, 1)))
    <2>1. ToSet(tip) \subseteq ToSet(Append(base, Wanted(c, 1)))
      BY <1>4, <1>5, <1>6, AppendAdds
    <2> QED BY <2>1, GateMonotone
  <1>8. Innocent(Wanted(c, 1)) => GateCanFail(base)
    BY <1>5, <1>6 DEF GateCanFail, GateCanPass, Innocent
  <1> QED BY <1>7, <1>8

\* So an entry the gate is blamed on breaks the base, by itself or because the
\* base is broken already.
LEMMA LoneBlame ==
    ASSUME TypeInv, Sound, NEW w \in Worker, BlameLone(w)
    PROVE  \E culprit \in EntryId :
              /\ culprit = Head(wk[w].batch) /\ entry[culprit].state # "absent"
              /\ GateCanFail(Append(base, entry[culprit].request))
              /\ Innocent(entry[culprit].request) => GateCanFail(base)
  <1>1. /\ WorkerSound(w) /\ wk[w].pc \in Working /\ wk[w].pc \in Assembling
        /\ wk[w].pc \in Complete
    BY DEF BlameLone, Sound, Working, Assembling, Complete
  <1>2. PICK c \in CandidateId : c = wk[w].cand
    BY <1>1, WorkerTypes
  <1>3. wk[w].batch = candidate[c].entries
    BY <1>1, <1>2 DEF WorkerSound
  <1>4. /\ Len(candidate[c].entries) = 1 /\ GateCanFail(wk[w].tip)
        /\ Built(wk[w].tip, c, 1)
    BY <1>1, <1>2, <1>3 DEF BlameLone, WorkerSound
  <1>5. PICK culprit \in EntryId : /\ culprit = candidate[c].entries[1]
                                   /\ entry[culprit].state # "absent"
                                   /\ Wanted(c, 1) = entry[culprit].request
    BY <1>4, MembersWant DEF Wanted
  <1>6. Head(wk[w].batch) = culprit
    BY <1>3, <1>5
  <1>7. /\ GateCanFail(Append(base, entry[culprit].request))
        /\ Innocent(entry[culprit].request) => GateCanFail(base)
    BY <1>4, <1>5, LoneFailure
  <1> QED BY <1>5, <1>6, <1>7

LEMMA BlamingSound ==
    ASSUME TypeInv, TypeInv', Sound, NEW w \in Worker,
           BlameConflict(w) \/ BlameLone(w)
    PROVE  Sound'
  <1>1. WorkerSound(w) /\ wk[w].pc \in Working
    BY DEF BlameConflict, BlameLone, Sound, Working, Conflicting
  <1>2. PICK c \in CandidateId : c = wk[w].cand
    BY <1>1, WorkerTypes
  <1>3. wk[w].batch = candidate[c].entries
    BY <1>1, <1>2 DEF WorkerSound
  <1>4. PICK culprit \in EntryId, reason \in {"conflict", "gate"} :
           /\ Blame(w, culprit, reason)
           /\ reason = "gate" => GateCanFail(Append(base, entry[culprit].request))
           /\ entry[culprit].state # "absent"
    <2>1. CASE BlameConflict(w)
      <3>1. wk[w].merged < Len(wk[w].batch)
        BY <2>1 DEF BlameConflict, TypeInv, WorkersOK, WorkerOK
      <3>2. PICK i \in 1..Len(candidate[c].entries) : i = wk[w].merged + 1
        BY <1>3, <3>1, WorkerTypes
      <3>3. NextToMerge(w) \in EntryId /\ entry[NextToMerge(w)].state # "absent"
        BY <1>3, <3>2, MembersWant DEF NextToMerge
      <3> QED BY <2>1, <3>3 DEF BlameConflict
    <2>2. CASE BlameLone(w)
      <3>1. PICK culprit \in EntryId :
               /\ culprit = Head(wk[w].batch) /\ entry[culprit].state # "absent"
               /\ GateCanFail(Append(base, entry[culprit].request))
        BY <2>2, LoneBlame
      <3> QED BY <2>2, <3>1 DEF BlameLone
    <2> QED BY <2>1, <2>2
  <1>5. UNCHANGED <<base, head>>
    BY <1>4 DEF Blame, NoGit
  <1>6. Steady /\ TablesSound'
    <2>1. BlameEntry(c, culprit, MaxAttempts, reason)
      BY <1>2, <1>4 DEF Blame
    <2> QED BY <1>4, <1>5, <2>1, BlameSound, QueueAssumption
  <1>7. /\ wk'[w].pc \in {"announce", "release"} /\ wk'[w].base = wk[w].base
        /\ \A v \in Worker \ {w} : wk'[v] = wk[v]
    <2>1. CASE Evicts(culprit, MaxAttempts)
      BY <1>4, <2>1 DEF Blame, TypeInv, WorkersOK, WorkerState
    <2>2. CASE ~Evicts(culprit, MaxAttempts)
      BY <1>4, <2>2 DEF Blame, TypeInv, WorkersOK, WorkerState
    <2> QED BY <2>1, <2>2
  <1>8. WorkerSound(w)'
    BY <1>5, <1>7, BaseKept, LetGo DEF Fresh
  <1> QED BY <1>5, <1>6, <1>7, <1>8, TableStep

-----------------------------------------------------------------------------
(* Time, the operators' commands, and the people around the repository.    *)

\* A step no worker takes.
LEMMA OutsideStep ==
    ASSUME TypeInv, TypeInv', Sound, UNCHANGED <<wk, head>>, Steady,
           TablesSound',
           (base # <<>> /\ Last(base) \in Request => GateCanPass(base))'
    PROVE  Sound'
  <1>1. ASSUME NEW w \in Worker PROVE WorkerSound(w)'
    <2>1. Unmoved(w)
      BY DEF Unmoved
    <2> QED BY <2>1, WorkerStays
  <1> QED BY <1>1 DEF Sound, TablesSound

\* A new entry is waiting, has paid nothing and is in no candidate.
LEMMA EnqueueSound ==
    ASSUME TypeInv, TypeInv', Sound, Enqueue
    PROVE  Sound'
  <1>1. UNCHANGED <<wk, head, base, candidate>>
    BY DEF Enqueue, NoGit, InsertEntry
  <1>2. PICK new, row :
           /\ new \in EntryId /\ entry[new].state = "absent"
           /\ row.state = "queued" /\ row.attempts = 0
           /\ entry' = [entry EXCEPT ![new] = row]
    BY DEF Enqueue, InsertEntry
  <1>3. /\ entry'[new] = row
        /\ \A e \in EntryId \ {new} : entry'[e] = entry[e]
    BY <1>2 DEF TypeInv, StoreTypeOK
  <1>4. Steady
    BY <1>1, <1>2, <1>3, BaseKept DEF Steady
  <1>5. ASSUME NEW c \in CandidateId PROVE CandidateSound(c)'
    BY <1>1, <1>4, CandidateStays
  <1>6. ASSUME NEW e \in EntryId PROVE EntrySound(e)'
    <2>1. CASE e = new
      BY <1>2, <1>3, <2>1 DEF EntrySound, Innocent, GateCanFail, GateCanPass
    <2>2. CASE e # new
      BY <1>3, <1>4, <2>2, EntryStays
    <2> QED BY <2>1, <2>2
  <1> QED BY <1>1, <1>4, <1>5, <1>6, OutsideStep
      DEF TablesSound, Sound, GateCanPass

\* Whatever dequeue writes over, it says that it was by hand.
LEMMA CommandSound ==
    ASSUME TypeInv, TypeInv', Sound, NEW e \in EntryId,
           DequeueWrite(e) \/ PromoteWrite(e)
    PROVE  Sound'
  <1>1. UNCHANGED <<wk, head, base, candidate>>
    <2>1. CASE DequeueWrite(e)
      BY <2>1 DEF DequeueWrite, NoGit, EvictByHand
    <2>2. CASE PromoteWrite(e)
      BY <2>2 DEF PromoteWrite, NoGit, RaisePriority
    <2> QED BY <2>1, <2>2
  <1>2. ASSUME NEW f \in EntryId
        PROVE  /\ entry'[f].request = entry[f].request
               /\ entry'[f].attempts = entry[f].attempts
               /\ \/ /\ entry'[f].state = entry[f].state
                     /\ entry'[f].reason = entry[f].reason
                  \/ ByHand(entry'[f])
    <2>1. CASE DequeueWrite(e)
      <3>1. EvictByHand(e)
        BY <2>1 DEF DequeueWrite
      <3> QED BY <3>1 DEF EvictByHand, ByHand, TypeInv, StoreTypeOK, EntryRow
    <2>2. CASE PromoteWrite(e)
      <3>1. PICK priority : entry' = [entry EXCEPT ![e].priority = priority]
        BY <2>2 DEF PromoteWrite, RaisePriority
      <3> QED BY <3>1 DEF TypeInv, StoreTypeOK, EntryRow
    <2> QED BY <2>1, <2>2
  <1>3. Steady
    <2>1. \A f \in EntryId : entry[f].state # "absent" =>
             /\ entry'[f].state # "absent"
             /\ entry'[f].request = entry[f].request
      BY <1>2 DEF ByHand
    <2> QED BY <1>1, <2>1, BaseKept DEF Steady
  <1>4. ASSUME NEW c \in CandidateId PROVE CandidateSound(c)'
    BY <1>1, <1>3, CandidateStays
  <1>5. ASSUME NEW f \in EntryId PROVE EntrySound(f)'
    BY <1>2, <1>3, EntryStays
  <1> QED BY <1>1, <1>3, <1>4, <1>5, OutsideStep
      DEF TablesSound, Sound, GateCanPass

\* A push goes on top of what is there, and is no request.
LEMMA DeveloperSound ==
    ASSUME TypeInv, TypeInv', Sound, Developer
    PROVE  Sound'
  <1>1. UNCHANGED <<wk, head, entry, candidate>>
    BY DEF Developer, NoStore, PushToBase, CheckOutBase, LeaveBase
  <1>2. \/ UNCHANGED base
        \/ \E change \in Push : base' = Append(base, change)
    BY DEF Developer, PushToBase, CheckOutBase, LeaveBase
  <1>3. base \in Commit
    BY DEF TypeInv, GitTypeOK
  <1>4. IsPrefix(base, base')
    BY <1>2, <1>3, BaseKept, PrefixAppend DEF Change
  <1>5. (base # <<>> /\ Last(base) \in Request => GateCanPass(base))'
    <2>1. CASE UNCHANGED base
      BY <2>1 DEF Sound, GateCanPass
    <2>2. ASSUME NEW change \in Push, base' = Append(base, change)
          PROVE  Last(base') \notin Request
      <3>1. Last(base') = change
        BY <1>3, <2>2 DEF Last, Commit, Change
      <3> QED BY <3>1, ChangeAssumption
    <2> QED BY <1>2, <2>1, <2>2
  <1>6. Steady
    BY <1>1, <1>4, SteadyBase
  <1>7. TablesSound'
    BY <1>1, <1>6, StoreStays DEF TablesSound
  <1> QED BY <1>1, <1>5, <1>6, <1>7, OutsideStep

LEMMA OutsideSound ==
    ASSUME TypeInv, TypeInv', Sound,
           LeaseLapses \/ Operator \/ Developer \/ UNCHANGED vars
    PROVE  Sound'
  <1>1. ASSUME UNCHANGED <<wk, head, base, entry, candidate>>
        PROVE  Sound'
    <2>1. Steady
      BY <1>1, SteadyBase, BaseKept
    <2>2. TablesSound'
      BY <1>1, <2>1, StoreStays DEF TablesSound
    <2> QED BY <1>1, <2>1, <2>2, OutsideStep DEF Sound, GateCanPass
  <1>2. CASE LeaseLapses \/ UNCHANGED vars
    BY <1>1, <1>2 DEF LeaseLapses, vars, NoStore, NoGit
  <1>3. ASSUME NEW kind, NEW e, CheckCommand(kind, e)
        PROVE  Sound'
    BY <1>1, <1>3 DEF CheckCommand, NoStore, NoGit
  <1> QED BY <1>2, <1>3, EnqueueSound, CommandSound, DeveloperSound DEF Operator

-----------------------------------------------------------------------------
(* The invariant holds.                                                    *)

\* Every step of a worker, whatever happens to it, keeps what holds of the
\* base, while no two of them can be at work in one checkout.
LEMMA WorkersSound ==
    ASSUME TypeInv, TypeInv', LeaseInv, Apart, Sound, NEW w \in Worker,
           TickStep(w) \/ Start(w) \/ Exit(w) \/ Mishap(w)
    PROVE  Sound'
  <1>1. CASE Release(w) \/ ReleaseFails(w) \/ Start(w) \/ Exit(w) \/ Crash(w)
             \/ Signal(w)
    BY <1>1, RestingSound, SignalSound
  <1>2. CASE \/ FindBaseCheckedOut(w) \/ FindNothingUnfinished(w)
             \/ OpenRefused(w) \/ BlameRefused(w) \/ StepFails(w)
             \/ ReadBase(w) \/ SelectBatch(w) \/ Announce(w)
    BY <1>2, GivingUpSound, ReadingSound
  <1>3. CASE \/ AcquireFree(w) \/ AcquireReclaim(w) \/ ResumeCandidate(w)
             \/ Open(w) \/ ReopenHalf(w)
    BY <1>3, AcquireFreeSound, ReclaimSound, ResumeSound, OpeningSound
  <1>4. CASE \/ MergeConflicts(w) \/ GatePasses(w) \/ GateFails(w)
             \/ FindBaseMoved(w) \/ CheckOutDetached(w) \/ MergeNext(w)
             \/ MergeCutShort(w)
    BY <1>4, FindingSound, CheckOutSound, MergeNextSound, MergeCutShortSound
  <1>5. CASE \/ FastForward(w) \/ FastForwardKilled(w) \/ RecordLanding(w)
             \/ StartTesting(w)
    BY <1>5, LandingSound, RecordingSound, StartTestingSound
  <1>6. CASE \/ BlameConflict(w) \/ BlameLone(w) \/ AbandonInterrupted(w)
             \/ AbandonMoved(w) \/ Split(w)
    BY <1>6, BlamingSound, AbandoningSound
  <1> QED BY <1>1, <1>2, <1>3, <1>4, <1>5, <1>6 DEF TickStep, Mishap

\* The base is empty, nobody is at work, and there is nothing in the tables.
LEMMA InitBase == Init => BaseInv
  <1> SUFFICES ASSUME Init PROVE Sound
    BY DEF BaseInv
  <1>1. base = <<>> /\ IsPrefix(<<>>, base)
    <2>1. base = <<>>
      BY DEF Init, GitInit
    <2>2. base \in Commit
      BY InitType DEF TypeInv, GitTypeOK
    <2> QED BY <2>1, <2>2, PrefixEmpty
  <1>2. ASSUME NEW w \in Worker PROVE WorkerSound(w)
    <2>1. wk[w].pc = "idle" /\ wk[w].base = <<>> /\ wk[w].merged = 0
      BY DEF Init, Resting
    <2> QED BY <1>1, <2>1 DEF WorkerSound, Working, Assembling, Complete
  <1>3. ASSUME NEW c \in CandidateId PROVE CandidateSound(c)
    <2>1. /\ candidate[c].state = "absent" /\ candidate[c].base = <<>>
          /\ candidate[c].sha = NoCommit /\ candidate[c].entries = <<>>
      BY DEF Init, StoreInit
    <2>2. Members(c) = {}
      BY <2>1 DEF Members, ToSet
    <2> QED BY <1>1, <2>1, <2>2 DEF CandidateSound
  <1>4. ASSUME NEW e \in EntryId PROVE EntrySound(e)
    BY DEF Init, StoreInit, EntrySound, Innocent, GateCanFail, GateCanPass
  <1> QED BY <1>1, <1>2, <1>3, <1>4 DEF Sound

LEMMA NextBase ==
    TypeInv /\ LeaseInv /\ BaseInv /\ [Next]_vars => BaseInv'
  <1> SUFFICES ASSUME TypeInv, LeaseInv, BaseInv, [Next]_vars, Apart'
               PROVE  Sound'
    BY DEF BaseInv
  <1>1. TypeInv' /\ Apart /\ Sound
    BY NextType, ApartBefore DEF BaseInv
  <1> QED BY <1>1, WorkersSound, OutsideSound DEF Next

\* What the queue relies on to keep the base what it should be.
THEOREM BaseIsSound == Spec => []BaseInv
  BY InitBase, NextBase, TypeInvariant, LeaseIsHeld, PTL DEF Spec

\* A merged entry is on the base, and so is the commit of a passed candidate.
THEOREM MergedStaysOnBase == Spec => []MergedIsOnBase
  <1>1. BaseInv => MergedIsOnBase
    BY DEF BaseInv, Sound, EntrySound, CandidateSound, MergedIsOnBase,
           Innocent, GateCanFail, GateCanPass
  <1> QED BY <1>1, BaseIsSound, PTL

\* The gate passes on whatever the queue leaves on the base.
THEOREM GreenAfterEveryLanding == Spec => []BaseStaysGreen
  <1>1. BaseInv => BaseStaysGreen
    BY DEF BaseInv, Sound, BaseStaysGreen
  <1> QED BY <1>1, BaseIsSound, PTL

\* An entry the gate evicted breaks the base by itself.
THEOREM OnlyTheGuiltyAreEvicted == Spec => []EvictionIsJust
  <1>1. BaseInv => EvictionIsJust
    BY DEF BaseInv, Sound, EntrySound, EvictionIsJust, Innocent, GateCanFail, GateCanPass
  <1> QED BY <1>1, BaseIsSound, PTL

-----------------------------------------------------------------------------
(* Who pays.                                                               *)

\* Nobody's attempts change, and nobody is evicted but by hand.
NobodyPays == \A e \in EntryId : ~Charged(e)

\* The fields a charge can be seen in stay as they are.
LEMMA FreeOfCharge ==
    ASSUME NEW e \in EntryId, entry'[e].attempts = entry[e].attempts,
           entry'[e].reason \in {entry[e].reason, "none", "by hand"}
    PROVE  ~Charged(e)
  BY DEF Charged

\* The transactions that charge nobody.
LEMMA FreeTransactions ==
    ASSUME TypeInv, Sound,
           \/ UNCHANGED entry
           \/ \E es : entry' = Requeue(es)
           \/ \E c, from, batch : OpenCandidate(c, from, batch)
           \/ \E c : LandCandidate(c)
           \/ \E request : InsertEntry(request)
           \/ \E e \in EntryId : EvictByHand(e) \/ RaisePriority(e)
    PROVE  NobodyPays
  <1>1. CASE UNCHANGED entry
    BY <1>1 DEF NobodyPays, Charged
  <1>2. ASSUME NEW es, entry' = Requeue(es) PROVE NobodyPays
    BY <1>2, RequeueKeeps, FreeOfCharge DEF NobodyPays
  <1>3. ASSUME NEW c, NEW from, NEW batch, OpenCandidate(c, from, batch)
        PROVE  NobodyPays
    BY <1>3, FreeOfCharge
    DEF NobodyPays, OpenCandidate, TypeInv, StoreTypeOK, EntryRow
  <1>4. ASSUME NEW c, LandCandidate(c) PROVE NobodyPays
    BY <1>4, FreeOfCharge
    DEF NobodyPays, LandCandidate, TypeInv, StoreTypeOK, EntryRow
  <1>5. ASSUME NEW request, InsertEntry(request) PROVE NobodyPays
    <2>1. PICK new \in EntryId :
             /\ entry[new].state = "absent"
             /\ entry' = [entry EXCEPT ![new] =
                   [state |-> "queued", request |-> request,
                    attempts |-> 0, priority |-> 0, reason |-> "none"]]
      BY <1>5 DEF InsertEntry
    <2>2. entry[new].attempts = 0
      BY <2>1 DEF Sound, EntrySound
    <2>3. /\ entry'[new].attempts = 0 /\ entry'[new].reason = "none"
          /\ \A e \in EntryId \ {new} : entry'[e] = entry[e]
      BY <2>1 DEF TypeInv, StoreTypeOK
    <2> QED BY <2>2, <2>3, FreeOfCharge DEF NobodyPays
  <1>6. ASSUME NEW e \in EntryId, EvictByHand(e) PROVE NobodyPays
    BY <1>6, FreeOfCharge
    DEF NobodyPays, EvictByHand, TypeInv, StoreTypeOK, EntryRow
  <1>7. ASSUME NEW e \in EntryId, RaisePriority(e) PROVE NobodyPays
    <2>1. PICK priority : entry' = [entry EXCEPT ![e].priority = priority]
      BY <1>7 DEF RaisePriority
    <2> QED BY <2>1, FreeOfCharge DEF NobodyPays, TypeInv, StoreTypeOK, EntryRow
  <1> QED BY <1>1, <1>2, <1>3, <1>4, <1>5, <1>6, <1>7

\* A step that blames nobody charges nobody.
LEMMA OnlyBlameCharges ==
    ASSUME TypeInv, Sound, [Next]_vars
    PROVE  NobodyPays \/ \E w \in Worker : BlameConflict(w) \/ BlameLone(w)
  <1>1. ASSUME NEW w \in Worker, TickStep(w) \/ Start(w) \/ Exit(w)
        PROVE  NobodyPays \/ BlameConflict(w) \/ BlameLone(w)
    <2>1. CASE AcquireReclaim(w)
      BY <2>1, FreeTransactions DEF AcquireReclaim, SupersedeOrphans
    <2>2. CASE Open(w) \/ ReopenHalf(w)
      BY <2>2, FreeTransactions DEF Open, ReopenHalf
    <2>3. CASE RecordLanding(w)
      BY <2>3, FreeTransactions DEF RecordLanding
    <2>4. CASE AbandonInterrupted(w) \/ AbandonMoved(w) \/ Split(w)
      BY <2>4, FreeTransactions
      DEF AbandonInterrupted, AbandonMoved, Split, AbandonCandidate
    <2>5. CASE StartTesting(w)
      BY <2>5, FreeTransactions DEF StartTesting, MarkTesting
    <2>6. CASE \/ AcquireFree(w) \/ FindBaseCheckedOut(w) \/ ReadBase(w)
               \/ ResumeCandidate(w) \/ FindNothingUnfinished(w)
               \/ SelectBatch(w) \/ OpenRefused(w) \/ CheckOutDetached(w)
               \/ MergeNext(w) \/ MergeConflicts(w) \/ GatePasses(w)
               \/ GateFails(w) \/ FastForward(w) \/ FindBaseMoved(w)
               \/ Announce(w) \/ BlameRefused(w) \/ Release(w) \/ Start(w)
               \/ Exit(w)
      <3>1. UNCHANGED entry
        BY <2>6
        DEF AcquireFree, FindBaseCheckedOut, ReadBase, ResumeCandidate,
            FindNothingUnfinished, SelectBatch, OpenRefused, CheckOutDetached,
            MergeNext, MergeConflicts, GatePasses, GateFails, FastForward,
            FindBaseMoved, Announce, BlameRefused, Release, Start, Exit, NoStore
      <3> QED BY <3>1, FreeTransactions
    <2> QED BY <1>1, <2>1, <2>2, <2>3, <2>4, <2>5, <2>6 DEF TickStep
  <1>2. ASSUME NEW w \in Worker, Mishap(w)
        PROVE  NobodyPays
    BY <1>2, FreeTransactions
    DEF Mishap, MergeCutShort, FastForwardKilled, StepFails, ReleaseFails,
        Signal, Crash, NoStore
  <1>3. CASE LeaseLapses \/ Developer \/ UNCHANGED vars
    BY <1>3, FreeTransactions DEF LeaseLapses, Developer, NoStore, vars
  <1>4. CASE Operator
    BY <1>4, FreeTransactions
    DEF Operator, Enqueue, CheckCommand, DequeueWrite, PromoteWrite, NoStore
  <1> QED BY <1>1, <1>2, <1>3, <1>4 DEF Next

\* Of the members of a candidate only the one that is blamed is charged.
LEMMA OnlyCulpritsPay ==
    ASSUME TypeInv, NEW w \in Worker, NEW culprit \in EntryId, NEW reason,
           Blame(w, culprit, reason), NEW e \in EntryId, Charged(e)
    PROVE  e = culprit
  <1>1. PICK es : entry' = [Requeue(es) EXCEPT ![culprit] =
                              Punished(culprit, MaxAttempts, reason)]
    BY DEF Blame, BlameEntry
  <1>2. \A f \in EntryId \ {culprit} : entry'[f] = Requeue(es)[f]
    BY <1>1, RequeueType DEF TypeInv
  <1>3. ASSUME e # culprit PROVE FALSE
    <2>1. /\ entry'[e].attempts = entry[e].attempts
          /\ entry'[e].reason = entry[e].reason
      BY <1>2, <1>3, RequeueKeeps
    <2> QED BY <2>1 DEF Charged
  <1> QED BY <1>3

\* An innocent entry that is charged was being merged, and the merge was cut
\* short: the gate cannot have failed on it, nor a merge that came to its end.
LEMMA WhoChargesTheInnocent ==
    ASSUME TypeInv, BaseInv, [Next]_vars, Apart, ~GateCanFail(base),
           NEW e \in EntryId, Innocent(entry[e].request), Charged(e)
    PROVE  \E w \in Worker : wk[w].pc = "cut" /\ NextToMerge(w) = e
  <1>1. Sound
    BY DEF BaseInv
  <1>2. PICK w \in Worker : BlameConflict(w) \/ BlameLone(w)
    BY <1>1, OnlyBlameCharges DEF NobodyPays
  <1>3. CASE BlameLone(w)
    <2>1. PICK culprit \in EntryId :
             /\ culprit = Head(wk[w].batch)
             /\ Innocent(entry[culprit].request) => GateCanFail(base)
      BY <1>1, <1>3, LoneBlame
    <2>2. e = culprit
      BY <1>3, <2>1, OnlyCulpritsPay DEF BlameLone
    <2> QED BY <2>1, <2>2
  <1>4. CASE BlameConflict(w)
    <2>1. /\ WorkerSound(w) /\ wk[w].pc \in {"conflict", "cut"}
          /\ wk[w].pc \in Working
      BY <1>1, <1>4 DEF BlameConflict, Conflicting, Sound, Working
    <2>2. PICK c \in CandidateId : c = wk[w].cand
      BY <2>1, WorkerTypes
    <2>3. wk[w].batch = candidate[c].entries /\ wk[w].merged < Len(wk[w].batch)
      BY <2>1, <2>2 DEF WorkerSound, TypeInv, WorkersOK, WorkerOK, Conflicting
    <2>4. PICK i \in 1..Len(candidate[c].entries) : i = wk[w].merged + 1
      BY <2>3, WorkerTypes
    <2>5. NextToMerge(w) \in EntryId
      BY <1>1, <2>3, <2>4, MembersWant DEF NextToMerge
    <2>6. e = NextToMerge(w)
      BY <1>4, <2>5, OnlyCulpritsPay DEF BlameConflict
    <2>7. wk[w].pc # "conflict"
      BY <2>1, <2>6 DEF WorkerSound
    <2> QED BY <2>1, <2>6, <2>7
  <1> QED BY <1>2, <1>3, <1>4

\* Invariant 4, for an entry nothing is wrong with: whatever else dies, fails
\* or is interrupted, only a merge of that entry that was cut short charges it.
THEOREM OnlyCutMergesChargeTheInnocent == Spec => OnlyCutMergesCharge
  <1>1. TypeInv /\ BaseInv /\ [Next]_vars =>
           [\A e \in EntryId :
               Apart /\ ~GateCanFail(base) /\ Innocent(entry[e].request) /\ Charged(e) =>
                   \E w \in Worker : wk[w].pc = "cut" /\ NextToMerge(w) = e]_vars
    BY WhoChargesTheInnocent
  <1> QED BY <1>1, BaseIsSound, TypeInvariant, PTL DEF Spec, OnlyCutMergesCharge

-----------------------------------------------------------------------------
(* Who moves the base.                                                     *)

\* The base is moved by a worker that lands a candidate, or by a push.
LEMMA WhoMovesBase ==
    ASSUME [Next]_vars
    PROVE  \/ UNCHANGED base
           \/ \E w \in Worker : FastForward(w) \/ FastForwardKilled(w)
           \/ /\ NoStore /\ UNCHANGED wk
              /\ \E change \in Push : base' = Append(base, change)
  <1>1. ASSUME NEW w \in Worker, TickStep(w) \/ Start(w) \/ Exit(w)
        PROVE  UNCHANGED base \/ FastForward(w)
    BY <1>1
    DEF TickStep, AcquireFree, AcquireReclaim, FindBaseCheckedOut,
        ReadBase, ResumeCandidate, FindNothingUnfinished, SelectBatch,
        Open, OpenRefused, CheckOutDetached, MergeNext, MergeConflicts,
        StartTesting, GatePasses, GateFails, FindBaseMoved,
        RecordLanding, Announce, BlameConflict, BlameLone, Blame,
        BlameRefused, AbandonInterrupted, AbandonMoved, Split, ReopenHalf,
        Release, Start, Exit, NoGit
  <1>2. ASSUME NEW w \in Worker, Mishap(w)
        PROVE  UNCHANGED base \/ FastForwardKilled(w)
    BY <1>2 DEF Mishap, MergeCutShort, StepFails, ReleaseFails, Signal, Crash,
                NoGit
  <1>3. CASE LeaseLapses \/ UNCHANGED vars
    BY <1>3 DEF LeaseLapses, NoGit, vars
  <1>4. CASE Operator
    BY <1>4 DEF Operator, Enqueue, CheckCommand, DequeueWrite, PromoteWrite,
                NoGit
  <1>5. CASE Developer
    BY <1>5 DEF Developer, PushToBase, CheckOutBase, LeaveBase
  <1> QED BY <1>1, <1>2, <1>3, <1>4, <1>5 DEF Next

\* The base moves in two ways only, and always forward.
LEMMA HowBaseMoves ==
    ASSUME TypeInv, BaseInv, Apart, [Next]_vars
    PROVE  /\ IsPrefix(base, base')
           /\ base' # base /\ Last(base') \notin Push =>
                 \E w \in Worker : wk[w].pc = "ff" /\ wk[w].passed = base'
  <1>1. Sound /\ base \in Commit
    BY DEF BaseInv, TypeInv, GitTypeOK
  <1>2. ASSUME NEW w \in Worker, FastForward(w) \/ FastForwardKilled(w)
        PROVE  /\ IsPrefix(base, base')
               /\ wk[w].pc = "ff" /\ wk[w].passed = base'
    <2>1. wk[w].pc = "ff" /\ WorkerSound(w)
      BY <1>1, <1>2 DEF FastForward, FastForwardKilled, Sound
    <2>2. base' = wk[w].tip /\ IsPrefix(base, base')
      BY <1>1, <1>2, Landing
    <2> QED BY <2>1, <2>2 DEF WorkerSound
  <1>3. ASSUME NEW change \in Push, base' = Append(base, change)
        PROVE  IsPrefix(base, base') /\ Last(base') \in Push
    <2>1. IsPrefix(base, base')
      BY <1>1, <1>3, PrefixAppend DEF Change
    <2>2. Last(base') = change
      BY <1>1, <1>3 DEF Last, Commit, Change
    <2> QED BY <2>1, <2>2
  <1>4. CASE UNCHANGED base
    BY <1>4, BaseKept
  <1> QED BY <1>2, <1>3, <1>4, WhoMovesBase

\* Only a push, or a commit the gate passed on, gets onto the base.
THEOREM GatedBeforeLanding == Spec => OnlyGatedLands
  <1>1. TypeInv /\ BaseInv /\ [Next]_vars =>
           [Apart /\ base' # base /\ Last(base') \notin Push =>
               \E w \in Worker : wk[w].pc = "ff" /\ wk[w].passed = base']_vars
    BY HowBaseMoves
  <1> QED BY <1>1, BaseIsSound, TypeInvariant, PTL DEF Spec, OnlyGatedLands

\* What is on the base stays on it, whoever races whom.
THEOREM BaseOnlyGrows == Spec => NothingOnBaseIsLost
  <1>1. TypeInv /\ BaseInv /\ [Next]_vars =>
           [Apart => IsPrefix(base, base')]_vars
    BY HowBaseMoves
  <1> QED BY <1>1, BaseIsSound, TypeInvariant, PTL DEF Spec, NothingOnBaseIsLost
=============================================================================
