---------------------------- MODULE JudgeRunProofs ----------------------------
(* The theorems about JudgeRun: for any set, any command lines, any number of  *)
(* starts, and a process killed wherever it may be.                            *)
EXTENDS JudgeRun, WellFoundedInduction, TLAPS

Busy == pc \in {"call", "keep", "store"}

\* The places that the process has left behind.
Passed(p) == p[1] < at \/ (p[1] = at /\ p[2] < index)

\* A running process has not ended, and what it read is on file.
Clean ==
    /\ pc # "down" => exit = "none"
    /\ done \subseteq Keys

\* A running process has not seen the last error it stops at.
Below == pc = "next" \/ Busy => streak < MaxFailures

\* A target in hand is one that its judge has to cover.
InRange == Busy => at \in 1 .. Len(inv.judges) /\ index \in 1 .. Covered(inv, Judge)

\* The verdict in hand is about the target in hand, and shows its failed calls when
\* the judge makes one call at most.
HonestVerdict ==
    pc \in {"keep", "store"} =>
        /\ verdict \in Verdict
        /\ verdict.key = Current
        /\ CallsOf[Judge] =< 1 /\ verdict.failed => CallFailed(verdict)

\* Of the places left behind none is missing on file while no call has failed.
Complete ==
    (pc = "next" \/ Busy) /\ unjudged = 0 =>
        \A p \in Places : Passed(p) => KeyAt(p) \in Keys

\* The inductive invariant behind what the files hold and what an exit code means.
RInv ==
    /\ TypeOK /\ Below /\ Clean /\ InRange /\ HonestVerdict /\ Complete
    /\ SingleCallsAnswered /\ ZeroMeansAllJudged

\* What is on file is what the process read there and what it has judged since; the
\* target in hand is in neither.
Fresh ==
    /\ pc = "next" \/ Busy =>
            \A k \in Keys : k \in done \/ \E p \in Places : Passed(p) /\ KeyAt(p) = k
    /\ Busy => Current \notin Keys

-----------------------------------------------------------------------------
(* The operators *)

\* A set of natural numbers has a first one.
LEMMA FirstOne ==
    ASSUME NEW T \in SUBSET Nat, T # {}
    PROVE  \E x \in T : \A y \in T : ~(y < x)
<1>1. PICK x \in T : \A y \in T : ~(<<y, x>> \in OpToRel(<, Nat))
  BY NatLessThanWellFounded, WFMin
<1>2. \A y \in T : y < x => <<y, x>> \in OpToRel(<, Nat)
  BY DEF OpToRel
<1> QED
  BY <1>1, <1>2

\* The error of a verdict is that of one of its calls, or none.
LEMMA ErrorType ==
    ASSUME NEW n \in Nat, NEW replies \in [1 .. n -> Replies]
    PROVE  ErrorOf(replies) \in {"none", "unusable", "failed"}
<1>1. CASE \A c \in DOMAIN replies : replies[c] = "ok"
  BY <1>1 DEF ErrorOf
<1>2. CASE \E c \in DOMAIN replies : replies[c] # "ok"
  <2> DEFINE T == {c \in 1 .. n : replies[c] # "ok"}
  <2>1. T \in SUBSET Nat /\ T # {}
    BY <1>2
  <2>2. \E x \in T : \A y \in T : ~(y < x)
    BY <2>1, FirstOne
  <2>3. \E x \in DOMAIN replies :
            /\ replies[x] # "ok"
            /\ \A b \in DOMAIN replies : b < x => replies[b] = "ok"
    BY <2>2
  <2>4. PICK x \in DOMAIN replies : ErrorOf(replies) = replies[x] /\ replies[x] # "ok"
    BY <1>2, <2>3 DEF ErrorOf
  <2> QED
    BY <2>4, RepliesAssumption
<1> QED
  BY <1>1, <1>2

\* With one call at most, a call that failed is the error of the verdict.
LEMMA OneCallShows ==
    ASSUME NEW n \in Nat, n =< 1, NEW replies \in [1 .. n -> Replies],
           \E c \in DOMAIN replies : replies[c] = "failed"
    PROVE  ErrorOf(replies) = "failed"
<1>1. DOMAIN replies = {1} /\ replies[1] = "failed"
  BY SMT
<1>2. (CHOOSE c \in DOMAIN replies :
            /\ replies[c] # "ok"
            /\ \A b \in DOMAIN replies : b < c => replies[b] = "ok") = 1
  BY <1>1
<1> QED
  BY <1>1, <1>2 DEF ErrorOf

\* A judge covers a part of the set.
LEMMA CoveredType ==
    ASSUME NEW i \in Invocations, NEW judge
    PROVE  Covered(i, judge) \in Nat /\ Covered(i, judge) =< Len(i.order)
BY InvocationsAssumption DEF Covered, Invocation

\* A place is a pair of positive numbers.
LEMMA PlacesType ==
    ASSUME TypeOK, NEW p \in Places
    PROVE  p[1] \in Nat /\ p[1] >= 1 /\ p[2] \in Nat /\ p[2] >= 1
BY InvocationsAssumption DEF Places, TypeOK, Invocation

\* A target there is has its place in the lists of the command line.
LEMMA TargetInRange ==
    ASSUME TypeOK, HasTarget
    PROVE  /\ at \in 1 .. Len(inv.judges) /\ index \in 1 .. Covered(inv, Judge)
           /\ at \in DOMAIN inv.judges /\ index \in DOMAIN inv.order
<1>1. inv \in Invocations /\ inv.judges \in Seq(JudgeIds) /\ inv.order \in Seq(Trajectories)
  BY InvocationsAssumption DEF TypeOK, Invocation
<1>2. at \in Nat \ {0} /\ index \in Nat \ {0}
  BY DEF TypeOK
<1>3. at =< Len(inv.judges) /\ index =< Covered(inv, Judge)
  BY DEF HasTarget
<1>4. Covered(inv, Judge) \in Nat /\ Covered(inv, Judge) =< Len(inv.order)
  BY <1>1, CoveredType
<1>5. Len(inv.judges) \in Nat /\ DOMAIN inv.judges = 1 .. Len(inv.judges)
  BY <1>1
<1>6. Len(inv.order) \in Nat /\ DOMAIN inv.order = 1 .. Len(inv.order)
  BY <1>1
<1>7. at \in 1 .. Len(inv.judges) /\ index \in 1 .. Covered(inv, Judge)
  BY <1>2, <1>3, <1>4, <1>5
<1>8. index \in 1 .. Len(inv.order)
  BY <1>2, <1>3, <1>4, <1>6
<1> QED
  BY <1>5, <1>6, <1>7, <1>8

\* The target in hand has a key.
LEMMA InHandType ==
    ASSUME TypeOK, InRange, Busy
    PROVE  /\ Judge \in JudgeIds /\ Current \in Key /\ CallsOf[Judge] \in Nat
           /\ <<at, index>> \in Places /\ KeyAt(<<at, index>>) = Current
<1>1. inv \in Invocations /\ inv.judges \in Seq(JudgeIds) /\ inv.order \in Seq(Trajectories)
  BY InvocationsAssumption DEF TypeOK, Invocation
<1>2. at \in DOMAIN inv.judges /\ Judge \in JudgeIds
  BY <1>1 DEF InRange, Judge
<1>3. index \in DOMAIN inv.order /\ index =< Covered(inv, Judge)
  BY <1>1, CoveredType DEF InRange
<1>4. inv.order[index] \in Trajectories
  BY <1>1, <1>3
<1> QED
  BY <1>2, <1>3, <1>4, CallsAssumption DEF Current, Key, Places, KeyAt, Judge

\* What storing a verdict does to the file.
LEMMA StoreAppends ==
    ASSUME TypeOK, HonestVerdict, Store
    PROVE  /\ verdicts' \in Seq(Verdict)
           /\ ~CallFailed(verdict) =>
                /\ verdicts' = Append(verdicts, verdict)
                /\ Keys' = Keys \cup {verdict.key}
           /\ CallFailed(verdict) => verdicts' = verdicts /\ Keys' = Keys
<1>1. verdicts \in Seq(Verdict) /\ verdict \in Verdict
  BY DEF TypeOK, HonestVerdict, Store
<1>2. CASE CallFailed(verdict)
  BY <1>1, <1>2 DEF Store, Keys
<1>3. CASE ~CallFailed(verdict)
  <2>1. verdicts' = Append(verdicts, verdict)
    BY <1>3 DEF Store
  <2>2. /\ DOMAIN verdicts = 1 .. Len(verdicts) /\ Len(verdicts) \in Nat
        /\ DOMAIN verdicts' = 1 .. (Len(verdicts) + 1)
        /\ \A a \in 1 .. Len(verdicts) : verdicts'[a] = verdicts[a]
        /\ verdicts'[Len(verdicts) + 1] = verdict
        /\ verdicts' \in Seq(Verdict)
    BY <1>1, <2>1
  <2>3. Keys' \subseteq Keys \cup {verdict.key}
    BY <2>2 DEF Keys
  <2>4. Keys \cup {verdict.key} \subseteq Keys'
    BY <2>2 DEF Keys
  <2> QED
    BY <1>3, <2>1, <2>2, <2>3, <2>4
<1> QED
  BY <1>2, <1>3

-----------------------------------------------------------------------------
(* The types, what the process knows, and the exit codes *)

\* The initial states.
LEMMA RInvInit == Init => RInv
<1> SUFFICES ASSUME Init PROVE RInv
  OBVIOUS
<1>1. TypeOK
  BY BoundsAssumption DEF Init, TypeOK, Point
<1>2. Below /\ Clean /\ InRange /\ HonestVerdict /\ Complete /\ SingleCallsAnswered
      /\ ZeroMeansAllJudged
  BY BoundsAssumption DEF Init, Below, Clean, InRange, HonestVerdict, Complete, SingleCallsAnswered,
         ZeroMeansAllJudged, Busy
<1> QED
  BY <1>1, <1>2 DEF RInv

\* A start, and one that fails.
LEMMA RInvStart ==
    ASSUME RInv, NEW i \in Invocations, Start(i) \/ StartFails(i)
    PROVE  RInv'
<1> USE DEF RInv
<1>1. TypeOK'
  BY BoundsAssumption DEF TypeOK, Start, StartFails, files, Point
<1>2. Below' /\ Clean' /\ InRange' /\ HonestVerdict' /\ Complete' /\ SingleCallsAnswered'
  BY DEF Start, StartFails, files, Below, Clean, InRange, HonestVerdict, Complete,
         SingleCallsAnswered, Busy, Keys
<1>3. ZeroMeansAllJudged'
  BY DEF Start, StartFails, ZeroMeansAllJudged
<1> QED
  BY <1>1, <1>2, <1>3

\* The resume set is read.
LEMMA RInvWriteMeta == ASSUME RInv, WriteMeta PROVE RInv'
<1> USE DEF RInv
<1>1. Keys \subseteq Key /\ Keys' = Keys
  <2>1. \A a \in DOMAIN verdicts : verdicts[a] \in Verdict
    BY DEF TypeOK
  <2>2. \A a \in DOMAIN verdicts : verdicts[a].key \in Key
    BY <2>1 DEF Verdict
  <2> QED
    BY <2>2 DEF Keys, WriteMeta
<1>2. TypeOK'
  BY <1>1, BoundsAssumption DEF TypeOK, WriteMeta, Point
<1>3. Below' /\ Clean' /\ InRange' /\ HonestVerdict' /\ SingleCallsAnswered' /\ ZeroMeansAllJudged'
  BY <1>1, BoundsAssumption DEF WriteMeta, Below, Clean, InRange, HonestVerdict, SingleCallsAnswered,
         ZeroMeansAllJudged, Busy
<1>4. Complete'
  \* Nothing is left behind yet.
  <2>1. \A p \in Places' : p[1] \in Nat /\ p[1] >= 1 /\ p[2] \in Nat /\ p[2] >= 1
    BY PlacesType DEF WriteMeta, Places
  <2>2. \A p \in Places' : ~Passed(p)'
    BY <2>1 DEF Passed, WriteMeta
  <2> QED
    BY <2>2 DEF Complete
<1> QED
  BY <1>2, <1>3, <1>4

\* A target that the resume set holds is passed over; it is on file.
LEMMA RInvSkip == ASSUME RInv, Skip PROVE RInv'
<1> USE DEF RInv
<1>1. Keys' = Keys /\ Places' = Places
  BY DEF Skip, HasTarget, files, Keys, Places
<1>2. TypeOK'
  BY DEF TypeOK, Skip, HasTarget, files, Point
<1>3. Below' /\ Clean' /\ InRange' /\ HonestVerdict' /\ SingleCallsAnswered' /\ ZeroMeansAllJudged'
  BY <1>1 DEF Skip, HasTarget, files, Below, Clean, InRange, HonestVerdict, SingleCallsAnswered,
         ZeroMeansAllJudged, Busy
<1>4. Current \in Keys
  BY DEF Skip, Clean
<1>5. Complete'
  <2> SUFFICES ASSUME unjudged = 0, NEW p \in Places, Passed(p)'
               PROVE  KeyAt(p) \in Keys
    BY <1>1 DEF Complete, Skip, KeyAt
  <2>1. CASE Passed(p)
    BY <2>1 DEF Complete, Skip, HasTarget
  <2>2. CASE ~Passed(p)
    <3>1. p[1] = at /\ p[2] = index
      BY <2>2, PlacesType DEF Passed, Skip, TypeOK
    <3> QED
      BY <1>4, <3>1 DEF KeyAt, Current, Judge
  <2> QED
    BY <2>1, <2>2
<1> QED
  BY <1>2, <1>3, <1>5

\* A pending target is taken.
LEMMA RInvTake == ASSUME RInv, Take PROVE RInv'
<1> USE DEF RInv
<1>1. Keys' = Keys /\ Places' = Places
  BY DEF Take, HasTarget, files, memory, Keys, Places
<1>2. TypeOK'
  BY DEF TypeOK, Take, HasTarget, files, memory, Point
<1>3. Below' /\ Clean' /\ HonestVerdict' /\ SingleCallsAnswered' /\ ZeroMeansAllJudged'
  BY <1>1 DEF Take, HasTarget, files, memory, Below, Clean, HonestVerdict, SingleCallsAnswered,
         ZeroMeansAllJudged, Busy
<1>4. InRange'
  <2>1. at \in 1 .. Len(inv.judges) /\ index \in 1 .. Covered(inv, Judge)
    BY TargetInRange DEF Take
  <2>2. at' = at /\ index' = index /\ inv' = inv
    BY DEF Take, memory
  <2>3. Judge' = Judge /\ Covered(inv, Judge)' = Covered(inv, Judge)
    BY <2>2 DEF Judge, Covered
  <2> QED
    BY <2>1, <2>2, <2>3 DEF InRange
<1>5. Complete'
  BY <1>1 DEF Complete, Passed, KeyAt, Take, HasTarget, memory
<1> QED
  BY <1>2, <1>3, <1>4, <1>5

\* A judge has had its targets: all its places are behind.
LEMMA RInvNextJudge == ASSUME RInv, NextJudge PROVE RInv'
<1> USE DEF RInv
<1>1. Keys' = Keys /\ Places' = Places
  BY DEF NextJudge, files, Keys, Places
<1>2. TypeOK'
  BY BoundsAssumption DEF TypeOK, NextJudge, files, Point
<1>3. Below' /\ Clean' /\ InRange' /\ HonestVerdict' /\ SingleCallsAnswered' /\ ZeroMeansAllJudged'
  BY <1>1, BoundsAssumption DEF NextJudge, files, Below, Clean, InRange, HonestVerdict, SingleCallsAnswered,
         ZeroMeansAllJudged, Busy
<1>4. Complete'
  <2> SUFFICES ASSUME unjudged = 0, NEW p \in Places, Passed(p)'
               PROVE  KeyAt(p) \in Keys
    BY <1>1 DEF Complete, NextJudge, KeyAt
  <2>1. p[1] \in Nat /\ p[2] \in Nat /\ p[2] >= 1 /\ p[2] =< Covered(inv, inv.judges[p[1]])
    BY InvocationsAssumption DEF Places, TypeOK, Invocation
  <2>2. p[1] =< at
    BY <2>1 DEF Passed, NextJudge, TypeOK
  <2>3. p[1] = at => p[2] < index
    BY <2>1, CoveredType DEF NextJudge, TypeOK, Judge
  <2>4. Passed(p)
    BY <2>1, <2>2, <2>3 DEF Passed, TypeOK
  <2> QED
    BY <2>4 DEF Complete, NextJudge
<1> QED
  BY <1>2, <1>3, <1>4

\* The judge returns a verdict.
LEMMA RInvCall == ASSUME RInv, Call PROVE RInv'
<1> USE DEF RInv
<1>1. PICK replies \in [1 .. CallsOf[Judge] -> Replies] : Judged(replies)
  BY DEF Call
<1>2. Busy /\ Judge \in JudgeIds /\ Current \in Key /\ CallsOf[Judge] \in Nat
  BY InHandType DEF Call, Busy
<1>3. Keys' = Keys /\ Places' = Places
  BY <1>1 DEF Judged, files, Keys, Places
<1>4. verdict' \in Verdict /\ verdict'.key = Current
  BY <1>1, <1>2, ErrorType DEF Judged, Verdict
<1>5. TypeOK'
  BY <1>1, <1>4 DEF TypeOK, Judged, files, Point
<1>6. Below' /\ Clean' /\ InRange' /\ SingleCallsAnswered' /\ ZeroMeansAllJudged'
  BY <1>1, <1>2, <1>3 DEF Judged, Call, files, Below, Clean, InRange, SingleCallsAnswered,
         ZeroMeansAllJudged, Busy, Judge, Covered
<1>7. HonestVerdict'
  <2>1. Current' = Current /\ Judge' = Judge
    BY <1>1 DEF Judged, Current, Judge
  <2>2. CallsOf[Judge] =< 1 /\ verdict'.failed => verdict'.error = "failed"
    BY <1>1, <1>2, OneCallShows DEF Judged
  <2> QED
    BY <1>4, <2>1, <2>2 DEF HonestVerdict, CallFailed
<1>8. Complete'
  BY <1>1, <1>2, <1>3 DEF Complete, Passed, KeyAt, Judged, Busy
<1> QED
  BY <1>5, <1>6, <1>7, <1>8

\* The response is appended.
LEMMA RInvKeepResponse == ASSUME RInv, KeepResponse PROVE RInv'
<1> USE DEF RInv
<1>1. Busy /\ Current \in Key /\ verdict.key = Current
  BY InHandType DEF KeepResponse, Busy, HonestVerdict
<1>2. Keys' = Keys /\ Places' = Places
  BY DEF KeepResponse, memory, Keys, Places
<1>3. TypeOK'
  BY <1>1 DEF TypeOK, KeepResponse, memory, Point
<1>4. Below' /\ Clean' /\ InRange' /\ HonestVerdict' /\ SingleCallsAnswered' /\ ZeroMeansAllJudged'
  BY <1>2 DEF KeepResponse, memory, Below, Clean, InRange, HonestVerdict, SingleCallsAnswered,
         ZeroMeansAllJudged, Busy, Judge, Covered, Current, CallFailed
<1>5. Complete'
  BY <1>2 DEF Complete, Passed, KeyAt, KeepResponse, memory, Busy
<1> QED
  BY <1>3, <1>4, <1>5

\* The verdict is stored, or left out and counted.
LEMMA RInvStore == ASSUME RInv, Store PROVE RInv'
<1> USE DEF RInv
<1>1. Busy /\ verdict \in Verdict /\ verdict.key = Current
  BY DEF Store, Busy, HonestVerdict
<1>2. Keys \subseteq Keys' /\ Places' = Places
  BY StoreAppends DEF Store, Places
<1>3. TypeOK'
  <2>1. verdicts' \in Seq(Verdict)
    BY StoreAppends
  <2>2. streak' \in 0 .. MaxFailures
    \* The streak was below the limit, or the process would have stopped.
    BY BoundsAssumption DEF TypeOK, Store, Below, Busy
  <2>3. index' \in Nat \ {0} /\ unjudged' \in Nat /\ at' \in Nat \ {0}
    BY DEF TypeOK, Store
  <2>4. pc' \in Point \cup {"down"} /\ exit' \in {"none", "traceback", "killed", "0", "2", "3"}
    BY DEF TypeOK, Store, Point
  <2> QED
    BY <2>1, <2>2, <2>3, <2>4 DEF TypeOK, Store
<1>4. Clean' /\ InRange' /\ HonestVerdict'
  BY <1>2 DEF Store, StopsAt, Clean, InRange, HonestVerdict, Busy
<1>9. Below'
  <2>1. streak' \in Nat /\ MaxFailures \in Nat
    BY <1>3, BoundsAssumption DEF TypeOK
  <2> QED
    BY <2>1 DEF Store, StopsAt, Below, Busy
<1>5. SingleCallsAnswered'
  <2>1. CallsOf[verdict.key[2]] =< 1 /\ verdict.failed => CallFailed(verdict)
    BY <1>1 DEF HonestVerdict, Store, Current
  <2>2. CASE CallFailed(verdict)
    <3>1. verdicts' = verdicts
      BY <2>2 DEF Store
    <3> QED
      BY <3>1 DEF SingleCallsAnswered
  <2>3. CASE ~CallFailed(verdict)
    <3>1. verdicts' = Append(verdicts, verdict) /\ verdicts \in Seq(Verdict)
      BY <2>3, StoreAppends DEF TypeOK
    <3> SUFFICES ASSUME NEW a \in DOMAIN verdicts',
                        CallsOf[verdicts'[a].key[2]] =< 1
                 PROVE  ~verdicts'[a].failed
      BY DEF SingleCallsAnswered
    <3>2. CASE a \in DOMAIN verdicts
      <4>1. verdicts'[a] = verdicts[a]
        BY <3>1, <3>2
      <4> QED
        BY <3>2, <4>1 DEF SingleCallsAnswered
    <3>3. CASE a \notin DOMAIN verdicts
      <4>1. verdicts'[a] = verdict
        BY <1>1, <3>1, <3>3
      <4> QED
        BY <2>1, <2>3, <4>1
    <3> QED
      BY <3>2, <3>3
  <2> QED
    BY <2>2, <2>3
<1>6. ZeroMeansAllJudged'
  BY DEF Store, ZeroMeansAllJudged, Clean
<1>7. Complete'
  <2> SUFFICES ASSUME unjudged' = 0, NEW p \in Places, Passed(p)'
               PROVE  KeyAt(p) \in Keys'
    BY <1>2 DEF Complete, KeyAt, Store
  <2>1. ~CallFailed(verdict) /\ unjudged = 0
    BY DEF Store, TypeOK
  <2>2. CASE Passed(p)
    BY <1>1, <1>2, <2>1, <2>2 DEF Complete
  <2>3. CASE ~Passed(p)
    <3>1. KeyAt(p) = Current
      <4>1. p[1] = at /\ p[2] = index
        BY <2>3, PlacesType DEF Passed, Store, TypeOK
      <4> QED
        BY <4>1 DEF KeyAt, Current, Judge
    <3> QED
      BY <1>1, <2>1, <3>1, StoreAppends
  <2> QED
    BY <2>2, <2>3
<1> QED
  BY <1>3, <1>4, <1>5, <1>6, <1>7, <1>9

\* The command ends: all its places are behind.
LEMMA RInvEnd == ASSUME RInv, End PROVE RInv'
<1> USE DEF RInv
<1>1. Keys' = Keys /\ AskedFor' = AskedFor
  BY DEF End, files, memory, Keys, AskedFor, Places, KeyAt
<1>2. TypeOK'
  BY DEF TypeOK, End, files, memory, Point
<1>3. Below' /\ Clean' /\ InRange' /\ HonestVerdict' /\ SingleCallsAnswered' /\ Complete'
  BY <1>1 DEF End, files, memory, Below, Clean, InRange, HonestVerdict, SingleCallsAnswered,
         Complete, Busy
<1>4. ZeroMeansAllJudged'
  <2> SUFFICES ASSUME unjudged = 0 PROVE AskedFor \subseteq Keys
    BY <1>1 DEF ZeroMeansAllJudged, End, TypeOK
  <2>1. \A p \in Places : Passed(p)
    BY InvocationsAssumption DEF Places, Passed, End, TypeOK, Invocation
  <2> QED
    BY <2>1 DEF Complete, End, AskedFor
<1> QED
  BY <1>2, <1>3, <1>4

\* The process is killed.
LEMMA RInvDie == ASSUME RInv, Die PROVE RInv'
BY DEF RInv, Die, files, memory, TypeOK, Point, Below, Clean, InRange, HonestVerdict, Complete,
       SingleCallsAnswered, ZeroMeansAllJudged, Busy, Keys

\* Every step keeps the invariant.
LEMMA RInvNext == RInv /\ [Next]_vars => RInv'
<1> SUFFICES ASSUME RInv, [Next]_vars PROVE RInv'
  OBVIOUS
<1>1. CASE \E i \in Invocations : Start(i) \/ StartFails(i)
  BY <1>1, RInvStart
<1>2. CASE WriteMeta
  BY <1>2, RInvWriteMeta
<1>3. CASE Skip
  BY <1>3, RInvSkip
<1>4. CASE Take
  BY <1>4, RInvTake
<1>5. CASE NextJudge
  BY <1>5, RInvNextJudge
<1>6. CASE Call
  BY <1>6, RInvCall
<1>7. CASE KeepResponse
  BY <1>7, RInvKeepResponse
<1>8. CASE Store
  BY <1>8, RInvStore
<1>9. CASE End
  BY <1>9, RInvEnd
<1>10. CASE Die
  BY <1>10, RInvDie
<1>11. CASE UNCHANGED vars
  <2>1. Keys' = Keys /\ Places' = Places /\ AskedFor' = AskedFor
    BY <1>11 DEF vars, Keys, Places, AskedFor, KeyAt
  <2>2. TypeOK' /\ Below' /\ Clean' /\ InRange' /\ HonestVerdict'
    BY <1>11, <2>1 DEF vars, RInv, TypeOK, Below, Clean, InRange, HonestVerdict, Busy, Judge,
       Current, CallFailed
  <2>3. Complete' /\ SingleCallsAnswered' /\ ZeroMeansAllJudged'
    BY <1>11, <2>1 DEF vars, RInv, Complete, SingleCallsAnswered, ZeroMeansAllJudged, Busy,
       Passed, KeyAt
  <2> QED
    BY <2>2, <2>3 DEF RInv
<1> QED
  BY <1>1, <1>2, <1>3, <1>4, <1>5, <1>6, <1>7, <1>8, <1>9, <1>10, <1>11 DEF Next, Process

\* The invariant holds of every behaviour.
THEOREM RInvariance == Spec => []RInv
<1> QED
  BY RInvInit, RInvNext, PTL DEF Spec

\* Every variable keeps its type.
THEOREM TypeCorrect == Spec => []TypeOK
<1>1. RInv => TypeOK
  BY DEF RInv
<1> QED
  BY <1>1, RInvariance, PTL

\* A stored verdict of a judge of one call, or of none, rests on no failed call.
THEOREM SingleCallsAreAnswered == Spec => []SingleCallsAnswered
<1>1. RInv => SingleCallsAnswered
  BY DEF RInv
<1> QED
  BY <1>1, RInvariance, PTL

\* Exit code 0 means that all that was asked for is on file.
THEOREM ZeroIsComplete == Spec => []ZeroMeansAllJudged
<1>1. RInv => ZeroMeansAllJudged
  BY DEF RInv
<1> QED
  BY <1>1, RInvariance, PTL

-----------------------------------------------------------------------------
(* One row to a key *)

\* No command line names a judge twice, or a failure type of --first, which would put
\* its trajectories into the order twice.
Injective(s) == \A a, b \in DOMAIN s : s[a] = s[b] => a = b
NamedOnce == \A i \in Invocations : Injective(i.judges) /\ Injective(i.order)

CInv == Fresh /\ AtMostOneVerdict

\* Two places of one command line have different keys.
LEMMA PlacesDiffer ==
    ASSUME NamedOnce, TypeOK, NEW p \in Places, NEW q \in Places, KeyAt(p) = KeyAt(q)
    PROVE  p[1] = q[1] /\ p[2] = q[2]
<1>1. inv \in Invocations /\ Injective(inv.judges) /\ Injective(inv.order)
  BY InvocationsAssumption DEF NamedOnce, TypeOK
<1> QED
  BY <1>1 DEF Places, KeyAt, Injective

\* A pending target has no verdict: what was on file at the start is in the resume
\* set, and what came since is of other places.
LEMMA TakenIsFresh ==
    ASSUME NamedOnce, RInv, Fresh, Take
    PROVE  Current \notin Keys
<1>1. TypeOK /\ TypeOK' /\ InRange' /\ Busy'
  BY RInvTake DEF RInv, Take, Busy
<1>2. <<at, index>> \in Places /\ KeyAt(<<at, index>>) = Current
  <2>1. at \in DOMAIN inv.judges /\ index \in DOMAIN inv.order
    BY <1>1, TargetInRange DEF Take
  <2> QED
    BY <2>1 DEF Take, HasTarget, Places, KeyAt, Current, Judge
<1>3. \A p \in Places : Passed(p) => KeyAt(p) # Current
  BY <1>1, <1>2, PlacesDiffer DEF Passed, TypeOK
<1> QED
  BY <1>3 DEF Fresh, Take, HasTarget

\* Storing adds the row of the target in hand, which had none.
LEMMA StoreIsFresh ==
    ASSUME RInv, CInv, Store
    PROVE  CInv'
<1>1. /\ Busy /\ verdict.key = Current /\ Current \notin Keys /\ verdict \in Verdict
      /\ TypeOK /\ InRange /\ HonestVerdict
  BY DEF RInv, CInv, Fresh, Store, Busy, HonestVerdict
<1>2. PICK here \in Places : KeyAt(here) = Current /\ here[1] = at /\ here[2] = index
  BY <1>1, InHandType
<1>3. Places' = Places /\ \A p : KeyAt(p)' = KeyAt(p)
  BY DEF Store, Places, KeyAt
<1>4. \A p \in Places : Passed(p) => Passed(p)'
  BY <1>1, PlacesType DEF Passed, Store, TypeOK
<1>5. Passed(here)'
  BY <1>1, <1>2 DEF Passed, Store, TypeOK
<1>6. Keys' \subseteq Keys \cup {Current}
  BY <1>1, StoreAppends
<1>7. Fresh'
  <2>1. ~Busy'
    BY DEF Store, Busy
  <2>2. \A k \in Keys : k \in done \/ \E p \in Places : Passed(p) /\ KeyAt(p) = k
    BY <1>1 DEF CInv, Fresh
  <2>3. done' = done
    BY DEF Store
  <2> QED
    BY <1>2, <1>3, <1>4, <1>5, <1>6, <2>1, <2>2, <2>3 DEF Fresh
<1>8. AtMostOneVerdict'
  <2>1. CASE CallFailed(verdict)
    BY <1>1, <2>1, StoreAppends DEF CInv, AtMostOneVerdict
  <2>2. CASE ~CallFailed(verdict)
    <3>1. verdicts' = Append(verdicts, verdict) /\ verdicts \in Seq(Verdict)
      BY <1>1, <2>2, StoreAppends DEF TypeOK
    <3>2. /\ Len(verdicts) \in Nat /\ DOMAIN verdicts = 1 .. Len(verdicts)
          /\ DOMAIN verdicts' = 1 .. (Len(verdicts) + 1)
          /\ \A a \in 1 .. Len(verdicts) : verdicts'[a] = verdicts[a]
          /\ verdicts'[Len(verdicts) + 1] = verdict
      BY <1>1, <3>1
    <3>3. \A a \in DOMAIN verdicts : verdicts[a].key # Current
      BY <1>1 DEF Keys
    <3>4. \A a, b \in 1 .. Len(verdicts) : verdicts[a].key = verdicts[b].key => a = b
      BY <3>2 DEF CInv, AtMostOneVerdict
    <3> QED
      BY <1>1, <3>2, <3>3, <3>4 DEF AtMostOneVerdict
  <2> QED
    BY <2>1, <2>2
<1> QED
  BY <1>7, <1>8 DEF CInv

\* No other step changes the file.
LEMMA StoresAlone ==
    ASSUME [Next]_vars, verdicts' # verdicts
    PROVE  Store
BY DEF Next, Process, Start, StartFails, WriteMeta, Skip, Take, NextJudge, Call,
       Judged, KeepResponse, End, Die, files, vars

\* The other steps store nothing; they leave places behind, or take a target.
LEMMA CInvNext ==
    ASSUME NamedOnce
    PROVE  RInv /\ CInv /\ [Next]_vars => CInv'
<1> SUFFICES ASSUME RInv, CInv, [Next]_vars PROVE CInv'
  OBVIOUS
<1>1. CASE Store
  BY <1>1, StoreIsFresh
<1>2. CASE verdicts' = verdicts
  <2>1. Keys' = Keys /\ AtMostOneVerdict'
    BY <1>2 DEF CInv, AtMostOneVerdict, Keys
  <2>2. CASE \E i \in Invocations : Start(i) \/ StartFails(i)
    BY <2>1, <2>2 DEF CInv, Fresh, Busy, Start, StartFails
  <2>3. CASE WriteMeta
    BY <2>1, <2>3 DEF CInv, Fresh, Busy, WriteMeta
  <2>4. CASE Take
    BY <2>1, <2>4, TakenIsFresh
       DEF CInv, Fresh, Busy, Take, HasTarget, memory, Places, KeyAt, Passed, Current, Judge
  <2>5. CASE Call \/ KeepResponse
    <3>1. /\ Busy /\ inv' = inv /\ at' = at /\ index' = index /\ done' = done
      BY <2>5 DEF Call, Judged, KeepResponse, memory, Busy
    <3> QED
      BY <2>1, <3>1 DEF CInv, Fresh, Places, KeyAt, Passed, Current, Judge
  <2>6. CASE Skip \/ NextJudge
    <3>1. /\ pc = "next" /\ pc' = "next" /\ done' = done /\ Places' = Places
          /\ \A p : KeyAt(p)' = KeyAt(p)
      BY <2>6 DEF Skip, HasTarget, NextJudge, Places, KeyAt
    <3>2. \A p \in Places : Passed(p) => Passed(p)'
      BY <2>6, PlacesType DEF Passed, Skip, NextJudge, RInv, TypeOK
    <3> QED
      BY <2>1, <3>1, <3>2 DEF CInv, Fresh, Busy
  <2>7. CASE End \/ Die
    BY <2>1, <2>7 DEF CInv, Fresh, Busy, End, Die
  <2>8. CASE UNCHANGED vars
    BY <2>1, <2>8 DEF CInv, Fresh, Busy, vars, Places, KeyAt, Passed, Current, Judge
  <2> QED
    BY <1>2, <2>2, <2>3, <2>4, <2>5, <2>6, <2>7, <2>8, <1>1, StoreIsFresh DEF Next, Process
<1>3. CASE verdicts' # verdicts
  BY <1>1, <1>3, StoresAlone
<1> QED
  BY <1>2, <1>3

\* However often the command is killed and run again, a trajectory and a judge have one
\* row at most, as long as no command line names a judge or a failure type twice.
THEOREM OneVerdictAtMost ==
    ASSUME NamedOnce
    PROVE  Spec => []AtMostOneVerdict
<1>1. Init => CInv
  BY DEF Init, CInv, Fresh, AtMostOneVerdict, Busy
<1>2. RInv /\ CInv /\ [Next]_vars => CInv'
  BY CInvNext
<1>3. CInv => AtMostOneVerdict
  BY DEF CInv
<1> QED
  BY <1>1, <1>2, <1>3, RInvariance, PTL DEF Spec

-----------------------------------------------------------------------------
(* What exit code 3 says *)

\* A call that failed leaves a place behind that has no verdict: while the process runs, and
\* once it has ended with 3.
Gap ==
    /\ (pc = "next" \/ Busy) /\ unjudged > 0 =>
            \E p \in Places : Passed(p) /\ KeyAt(p) \notin Keys
    /\ ThreeMeansAGap

\* Storing a verdict closes no gap, since no two places have one key; a failed call opens one.
LEMMA GapStore ==
    ASSUME NamedOnce, RInv, CInv, Gap, Store
    PROVE  Gap'
<1>1. /\ Busy /\ verdict.key = Current /\ Current \notin Keys /\ TypeOK /\ InRange /\ HonestVerdict
      /\ exit = "none" /\ (unjudged > 0 => \E p \in Places : Passed(p) /\ KeyAt(p) \notin Keys)
  BY DEF RInv, CInv, Clean, Fresh, Gap, Store, Busy, HonestVerdict
<1>2. PICK here \in Places : KeyAt(here) = Current /\ here[1] = at /\ here[2] = index
  BY <1>1, InHandType
<1>3. Places' = Places /\ \A p : KeyAt(p)' = KeyAt(p)
  BY DEF Store, Places, KeyAt
<1>4. \A p \in Places : Passed(p) => Passed(p)'
  BY <1>1, PlacesType DEF Passed, Store, TypeOK
<1>5. Passed(here)' /\ ~Passed(here)
  BY <1>1, <1>2 DEF Passed, Store, TypeOK
<1>6. ThreeMeansAGap'
  BY <1>1 DEF Store, ThreeMeansAGap
<1>7. unjudged' > 0 => \E p \in Places : Passed(p)' /\ KeyAt(p) \notin Keys'
  <2>1. CASE CallFailed(verdict)
    <3>1. Keys' = Keys
      BY <1>1, <2>1, StoreAppends
    <3> QED
      BY <1>1, <1>2, <1>5, <3>1
  <2>2. CASE ~CallFailed(verdict)
    <3>1. Keys' = Keys \cup {Current} /\ unjudged' = unjudged
      BY <1>1, <2>2, StoreAppends DEF Store
    <3>2. \A p \in Places : Passed(p) => KeyAt(p) # Current
      <4> SUFFICES ASSUME NEW p \in Places, Passed(p), KeyAt(p) = Current PROVE FALSE
        OBVIOUS
      <4>1. p[1] = at /\ p[2] = index
        BY <1>1, <1>2, PlacesDiffer
      <4> QED
        BY <1>1, <4>1 DEF Passed, TypeOK
    <3> QED
      BY <1>1, <1>4, <3>1, <3>2
  <2> QED
    BY <2>1, <2>2
<1> QED
  BY <1>3, <1>6, <1>7 DEF Gap

\* The other steps store nothing and count nothing; a process that ends keeps its gap.
LEMMA GapNext ==
    ASSUME NamedOnce
    PROVE  RInv /\ CInv /\ Gap /\ [Next]_vars => Gap'
<1> SUFFICES ASSUME RInv, CInv, Gap, [Next]_vars PROVE Gap'
  OBVIOUS
<1>1. CASE Store
  BY <1>1, GapStore
<1>2. CASE verdicts' = verdicts
  <2>1. Keys' = Keys /\ TypeOK
    BY <1>2 DEF Keys, RInv
  <2>2. CASE \E i \in Invocations : Start(i) \/ StartFails(i)
    BY <2>2 DEF Gap, Busy, Start, StartFails, ThreeMeansAGap
  <2>3. CASE WriteMeta
    BY <2>3 DEF Gap, Busy, WriteMeta, RInv, Clean, ThreeMeansAGap
  <2>4. CASE Take \/ Call \/ KeepResponse
    <3>1. /\ pc = "next" \/ Busy
          /\ unjudged' = unjudged /\ Places' = Places /\ exit' = exit
          /\ \A p : KeyAt(p)' = KeyAt(p) /\ Passed(p)' = Passed(p)
      BY <2>4 DEF Take, HasTarget, Call, Judged, KeepResponse, memory, Busy, Places, KeyAt, Passed
    <3>2. exit = "none" /\ (pc = "next" \/ Busy)
      BY <2>4 DEF RInv, Clean, Take, HasTarget, Call, KeepResponse, Busy
    <3> QED
      BY <2>1, <3>1, <3>2 DEF Gap, ThreeMeansAGap
  <2>5. CASE Skip \/ NextJudge
    <3>1. /\ pc = "next" /\ pc' = "next" /\ unjudged' = unjudged /\ Places' = Places
          /\ exit = "none" /\ exit' = exit /\ \A p : KeyAt(p)' = KeyAt(p)
      BY <2>5 DEF Skip, HasTarget, NextJudge, Places, KeyAt, RInv, Clean
    <3>2. \A p \in Places : Passed(p) => Passed(p)'
      BY <2>1, <2>5, PlacesType DEF Passed, Skip, NextJudge, TypeOK
    <3> QED
      BY <2>1, <3>1, <3>2 DEF Gap, Busy, ThreeMeansAGap
  <2>6. CASE End
    <3>1. AskedFor' = AskedFor
      BY <2>6 DEF End, AskedFor, KeyAt, Places, memory
    <3>2. unjudged > 0 => ~(AskedFor \subseteq Keys)
      BY <2>6 DEF Gap, End, AskedFor
    <3> QED
      BY <2>1, <2>6, <3>1, <3>2 DEF Gap, Busy, End, ThreeMeansAGap
  <2>7. CASE Die
    BY <2>7 DEF Gap, Busy, Die, ThreeMeansAGap
  <2>8. CASE UNCHANGED vars
    BY <2>1, <2>8 DEF Gap, Busy, vars, Places, KeyAt, Passed, AskedFor, ThreeMeansAGap
  <2> QED
    BY <1>1, <2>2, <2>3, <2>4, <2>5, <2>6, <2>7, <2>8 DEF Next, Process
<1>3. CASE verdicts' # verdicts
  BY <1>1, <1>3, StoresAlone
<1> QED
  BY <1>2, <1>3

\* Exit code 3 means that something is left for the rerun, as long as no command line names
\* a judge or a failure type twice: a second try of the same pair could close the gap.
THEOREM ThreeIsAGap ==
    ASSUME NamedOnce
    PROVE  Spec => []ThreeMeansAGap
<1>1. Init => CInv /\ Gap
  BY DEF Init, CInv, Fresh, AtMostOneVerdict, Busy, Gap, ThreeMeansAGap
<1>2. Gap => ThreeMeansAGap
  BY DEF Gap
<1> QED
  BY <1>1, <1>2, CInvNext, GapNext, RInvariance, PTL DEF Spec

-----------------------------------------------------------------------------
(* The kept responses *)

\* Before it is stored, an answered verdict of an LLM judge has its response on file.
HasResponse ==
    pc = "store" /\ inv.keep /\ IsLlmJudge(Judge) /\ ~CallFailed(verdict) =>
        responses # <<>> /\ responses[Len(responses)] = verdict.key

\* Every step keeps it.
LEMMA HasResponseNext == RInv /\ HasResponse /\ [Next]_vars => HasResponse'
<1> SUFFICES ASSUME RInv, HasResponse, [Next]_vars, pc' = "store" PROVE HasResponse'
  BY DEF HasResponse
<1>1. CASE Call
  BY <1>1 DEF Call, Judged, HasResponse, Judge
<1>2. CASE KeepResponse
  <2>1. verdict.key \in Key /\ responses \in Seq(Key)
    BY <1>2, InHandType DEF KeepResponse, RInv, HonestVerdict, Busy, TypeOK
  <2>2. responses' = Append(responses, verdict.key) /\ verdict' = verdict
    BY <1>2 DEF KeepResponse, memory
  <2>3. Len(responses') = Len(responses) + 1 /\ responses'[Len(responses')] = verdict.key
    BY <2>1, <2>2
  <2>4. responses' # <<>>
    BY <2>1, <2>3
  <2> QED
    BY <2>2, <2>3, <2>4 DEF HasResponse
<1>3. CASE UNCHANGED vars
  BY <1>3 DEF HasResponse, vars, Judge
<1>4. CASE (\E i \in Invocations : Start(i) \/ StartFails(i)) \/ WriteMeta \/ Skip \/ Take
           \/ NextJudge \/ Store \/ End \/ Die
  BY <1>4 DEF Start, StartFails, WriteMeta, Skip, HasTarget, Take, NextJudge, Store, End, Die
<1> QED
  BY <1>1, <1>2, <1>3, <1>4 DEF Next, Process

\* A start leaves one response without a verdict at most: a running process has left none yet,
\* but for the response of the verdict in hand, and what is kept is no failed call.
FewStrays ==
    /\ pc = "keep" => ~CallFailed(verdict)
    /\ pc = "down" => Len(responses) =< Len(verdicts) + starts
    /\ pc \in {"meta", "next", "call", "keep"} => Len(responses) + 1 =< Len(verdicts) + starts
    /\ pc = "store" =>
        /\ Len(responses) =< Len(verdicts) + starts
        /\ CallFailed(verdict) => Len(responses) + 1 =< Len(verdicts) + starts

\* No step adds a stray but a kill.
LEMMA FewStraysNext ==
    ASSUME RInv, FewStrays, [Next]_vars
    PROVE  FewStrays'
<1>1. /\ TypeOK /\ HonestVerdict
      /\ Len(responses) \in Nat /\ Len(verdicts) \in Nat /\ starts \in Nat
  BY BoundsAssumption DEF RInv, TypeOK
<1>2. CASE \E i \in Invocations : Start(i) \/ StartFails(i)
  BY <1>1, <1>2 DEF FewStrays, Start, StartFails, files
<1>3. CASE Call
  BY <1>1, <1>3 DEF FewStrays, Call, Judged, files
<1>4. CASE KeepResponse
  <2>1. responses \in Seq(Key) /\ verdict.key \in Key
    BY <1>1, <1>4 DEF TypeOK, HonestVerdict, KeepResponse, Verdict
  <2>2. Len(responses') = Len(responses) + 1
    BY <1>4, <2>1 DEF KeepResponse
  <2> QED
    BY <1>1, <1>4, <2>2 DEF FewStrays, KeepResponse, memory, CallFailed
<1>5. CASE Store
  <2>1. pc = "store" /\ pc' \in {"down", "next"} /\ starts' = starts /\ responses' = responses
    BY <1>5 DEF Store
  <2>2. CASE CallFailed(verdict)
    BY <1>1, <1>5, <2>1, <2>2, StoreAppends DEF FewStrays
  <2>3. CASE ~CallFailed(verdict)
    <3>1. verdicts \in Seq(Verdict) /\ verdict \in Verdict
      BY <1>1, <2>1 DEF TypeOK, HonestVerdict
    <3>2. verdicts' = Append(verdicts, verdict)
      BY <1>5, <2>3 DEF Store
    <3>3. Len(verdicts') = Len(verdicts) + 1
      BY <3>1, <3>2
    <3>4. Len(responses) =< Len(verdicts) + starts
      BY <2>1 DEF FewStrays
    <3> QED
      BY <1>1, <2>1, <3>3, <3>4 DEF FewStrays
  <2> QED
    BY <2>2, <2>3
<1>6. CASE WriteMeta \/ Skip \/ Take \/ NextJudge \/ End \/ Die
  BY <1>1, <1>6 DEF FewStrays, WriteMeta, Skip, Take, HasTarget, NextJudge, End, Die, files, memory, Point, TypeOK
<1>7. CASE UNCHANGED vars
  BY <1>7 DEF FewStrays, vars, CallFailed
<1> QED
  BY <1>2, <1>3, <1>4, <1>5, <1>6, <1>7 DEF Next, Process

\* With --keep-responses a verdict of an LLM judge follows its response, and responses without
\* a verdict are what kills leave.
THEOREM ResponsesComeFirst == Spec => ResponseComesFirst
<1>1. Init => HasResponse
  BY DEF Init, HasResponse
<1>2. RInv /\ HasResponse /\ [Next]_vars =>
        [verdicts' # verdicts /\ inv.keep /\ IsLlmJudge(Judge) =>
            /\ responses # <<>>
            /\ responses[Len(responses)] = verdicts'[Len(verdicts')].key]_vars
  <2> SUFFICES ASSUME RInv, HasResponse, [Next]_vars, verdicts' # verdicts,
                      inv.keep, IsLlmJudge(Judge)
               PROVE  /\ responses # <<>>
                      /\ responses[Len(responses)] = verdicts'[Len(verdicts')].key
    OBVIOUS
  <2>1. Store
    BY StoresAlone
  <2>2. verdicts \in Seq(Verdict) /\ verdict \in Verdict /\ ~CallFailed(verdict)
    BY <2>1 DEF RInv, TypeOK, HonestVerdict, Store
  <2>3. verdicts' = Append(verdicts, verdict)
    BY <2>1, <2>2 DEF Store
  <2>4. verdicts'[Len(verdicts')] = verdict
    BY <2>2, <2>3
  <2>5. responses # <<>> /\ responses[Len(responses)] = verdict.key
    BY <2>1, <2>2 DEF HasResponse, Store
  <2> QED
    BY <2>4, <2>5
<1>3. Init => FewStrays
  BY BoundsAssumption DEF Init, FewStrays
<1>4. RInv /\ FewStrays => StraysAreKills
  <2> SUFFICES ASSUME RInv, FewStrays PROVE StraysAreKills
    OBVIOUS
  <2>1. /\ Len(responses) \in Nat /\ Len(verdicts) \in Nat /\ starts \in Nat
        /\ pc \in {"meta", "next", "call", "keep", "store", "down"}
    BY BoundsAssumption DEF RInv, TypeOK, Point
  <2> QED
    BY <2>1 DEF FewStrays, StraysAreKills
<1> QED
  BY <1>1, <1>2, <1>3, <1>4, HasResponseNext, FewStraysNext, RInvariance, PTL
  DEF Spec, ResponseComesFirst
=============================================================================
