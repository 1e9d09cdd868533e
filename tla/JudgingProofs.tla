---------------------------- MODULE JudgingProofs -----------------------------
(* The theorems about Judging, for every catalogue and script, every reply and *)
(* any number of calls to a vote: what stands in the verdicts of LLM judges.   *)
EXTENDS Judging, Counting, SequenceTheorems

\* What goes together in a verdict about a trajectory of n steps.
Whole(v, n, localises) ==
    /\ v \in Verdict
    /\ ~ v.faulty => v.type = "none" /\ v.step = None
    /\ v.step # None => v.step < n /\ localises
    /\ v.confidence >= 50

-----------------------------------------------------------------------------
(* A call *)

\* Whatever object comes back, or none.
LEMMA CoercedIsWhole ==
    ASSUME NEW j, NEW n, NEW reply \in Reply
    PROVE  /\ Whole(Coerced(j, n, reply), n, Localises(j))
           /\ Coerced(j, n, reply).faulty <=> reply.outcome = "object" /\ reply.faulty
<1> DEFINE v == Coerced(j, n, reply)
<1>1. /\ v.faulty \in BOOLEAN
      /\ v.faulty <=> reply.outcome = "object" /\ reply.faulty
  BY DEF Coerced, Reply
<1>2. /\ v.type \in FailureTypes \cup {"none"}
      /\ ~ v.faulty => v.type = "none"
  BY DEF Coerced
<1>3. /\ v.step \in Nat \cup {None}
      /\ ~ v.faulty => v.step = None
      /\ v.step # None => v.step < n /\ Localises(j)
  BY DEF Coerced, NamesStep, Reply, None
<1>4. v.confidence \in 0 .. 100 /\ v.confidence >= 50
  BY DEF Coerced, Clamp, Reply
<1>5. v.error \in {"none", "failed", "unparseable"}
  BY DEF Coerced, ErrorOf
<1>6. v = [faulty |-> v.faulty, step |-> v.step, type |-> v.type, confidence |-> v.confidence,
           error |-> v.error]
  BY DEF Coerced
<1> HIDE DEF v
<1>7. v \in Verdict
  BY <1>1, <1>2, <1>3, <1>4, <1>5, <1>6 DEF Verdict
<1>8. Whole(v, n, Localises(j)) /\ (v.faulty <=> reply.outcome = "object" /\ reply.faulty)
  BY <1>1, <1>2, <1>3, <1>4, <1>7 DEF Whole
<1> QED
  BY <1>8 DEF v

-----------------------------------------------------------------------------
(* The vote *)

\* The value that most votes have is the value of one of them, or nothing.
LEMMA ModeIsCast ==
    ASSUME NEW At \in SUBSET Nat, IsFiniteSet(At), NEW vote, NEW nothing
    PROVE  Mode(At, vote, nothing) = nothing \/ \E i \in At : Mode(At, vote, nothing) = vote[i]
<1> DEFINE n == Cardinality(At)
           present == {i \in At : vote[i] # nothing}
           Share(i) == Cardinality({j \in present : vote[j] = vote[i]})
           Wins(i) == \A j \in present : Share(i) > Share(j) \/ (Share(i) = Share(j) /\ i =< j)
<1>1. CASE present = {}
  BY <1>1 DEF Mode
<1>2. CASE present # {}
  <2>1. n \in Nat
    BY FS_CardinalityType
  <2>2. \A i \in present : Share(i) \in Nat /\ Share(i) =< n
    <3>1. \A i \in present : {j \in present : vote[j] = vote[i]} \subseteq At
      OBVIOUS
    <3> QED
      BY <3>1, FS_Subset, FS_CardinalityType
  <2> HIDE DEF Share, n
  <2>3. PICK m \in present : \A j \in present : Share(j) =< Share(m)
    <3> DEFINE T == {n - Share(i) : i \in present}
    <3>1. \A i \in present : n - Share(i) \in Nat
      BY <2>1, <2>2
    <3>2. T \in SUBSET Nat /\ T # {}
      BY <1>2, <3>1
    <3>3. PICK x \in T : \A y \in T : x =< y
      BY <3>2, LeastOf
    <3>4. PICK m \in present : x = n - Share(m)
      BY <3>3
    <3>5. \A j \in present : n - Share(m) =< n - Share(j)
      BY <3>3, <3>4
    <3> QED
      BY <2>1, <2>2, <3>5
  <2>4. PICK i \in present : Share(i) = Share(m)
                             /\ \A j \in present : Share(j) = Share(m) => i =< j
    <3> DEFINE T == {i \in present : Share(i) = Share(m)}
    <3>1. m \in T
      OBVIOUS
    <3>2. T \in SUBSET Nat
      <4>1. \A i \in T : i \in present
        OBVIOUS
      <4>2. \A i \in present : i \in Nat
        OBVIOUS
      <4> HIDE DEF T, present
      <4> QED
        BY <4>1, <4>2
    <3>3. PICK i \in T : \A j \in T : i =< j
      BY <3>1, <3>2, LeastOf
    <3> QED
      BY <3>3
  <2>5. Wins(i)
    BY <2>2, <2>3, <2>4
  <2>6. Mode(At, vote, nothing) = vote[CHOOSE k \in present : Wins(k)]
    BY <1>2 DEF Mode, Share
  <2> QED
    BY <2>5, <2>6
<1> QED
  BY <1>1, <1>2

\* The votes for a fault and those against it are all of them.
LEMMA FlaggingSets ==
    ASSUME NEW cast \in Seq(Verdict)
    PROVE  /\ DOMAIN cast = 1 .. Len(cast) /\ Len(cast) \in Nat
           /\ Flagging(cast) \subseteq 1 .. Len(cast)
           /\ IsFiniteSet(Flagging(cast)) /\ IsFiniteSet(DOMAIN cast \ Flagging(cast))
           /\ Cardinality(Flagging(cast)) \in Nat
           /\ Cardinality(DOMAIN cast \ Flagging(cast)) \in Nat
           /\ Cardinality(Flagging(cast)) + Cardinality(DOMAIN cast \ Flagging(cast)) = Len(cast)
<1>1. DOMAIN cast = 1 .. Len(cast) /\ Len(cast) \in Nat
  BY LenProperties
<1>2. Flagging(cast) \subseteq 1 .. Len(cast)
  BY <1>1 DEF Flagging
<1>3. IsFiniteSet(1 .. Len(cast)) /\ Cardinality(1 .. Len(cast)) = Len(cast)
  BY <1>1, FS_Interval
<1>4. /\ IsFiniteSet(Flagging(cast)) /\ IsFiniteSet(DOMAIN cast \ Flagging(cast))
      /\ Cardinality(Flagging(cast)) \in Nat /\ Cardinality(DOMAIN cast \ Flagging(cast)) \in Nat
  BY <1>1, <1>2, <1>3, FS_Subset, FS_CardinalityType
<1>5. Flagging(cast) \cup (DOMAIN cast \ Flagging(cast)) = 1 .. Len(cast)
  BY <1>1, <1>2
<1>6. Flagging(cast) \cap (DOMAIN cast \ Flagging(cast)) = {}
  OBVIOUS
<1>7. Cardinality(Flagging(cast) \cup (DOMAIN cast \ Flagging(cast)))
        = Cardinality(Flagging(cast)) + Cardinality(DOMAIN cast \ Flagging(cast)) - Cardinality({})
  BY <1>4, <1>6, FS_Union
<1>8. Cardinality({}) = 0
  BY FS_EmptySet
<1>9. Cardinality(Flagging(cast)) + Cardinality(DOMAIN cast \ Flagging(cast)) = Len(cast)
  <2>1. Cardinality(Flagging(cast) \cup (DOMAIN cast \ Flagging(cast))) = Len(cast)
    BY <1>3, <1>5
  <2> DEFINE a == Cardinality(Flagging(cast))
             b == Cardinality(DOMAIN cast \ Flagging(cast))
  <2>2. Len(cast) = a + b - 0
    BY <1>7, <1>8, <2>1
  <2>3. a \in Nat /\ b \in Nat
    BY <1>4
  <2> HIDE DEF a, b
  <2>4. a + b = Len(cast)
    BY <2>2, <2>3
  <2> QED
    BY <2>4 DEF a, b
<1> QED
  BY <1>1, <1>2, <1>4, <1>9

\* A share of at least a half is a confidence of at least a half.
LEMMA ShareOfHundred ==
    ASSUME NEW n \in Nat \ {0}, NEW a \in Nat, a =< n, 2 * a >= n
    PROVE  (100 * a) \div n \in 0 .. 100 /\ (100 * a) \div n >= 50
<1> DEFINE q == (100 * a) \div n
<1>1. q \in Int /\ n * q =< 100 * a /\ 100 * a < n * (q + 1)
  OBVIOUS
<1> HIDE DEF q
<1>2. q >= 50
  <2>1. CASE q + 1 =< 50
    <3>1. n * (q + 1) =< n * 50
      BY <1>1, <2>1
    <3> QED
      BY <1>1, <3>1
  <2> QED
    BY <1>1, <2>1
<1>3. q =< 100
  <2>1. CASE q >= 101
    <3>1. n * 101 =< n * q
      BY <1>1, <2>1
    <3> QED
      BY <1>1, <3>1
  <2> QED
    BY <1>1, <2>1
<1> QED
  BY <1>1, <1>2, <1>3 DEF q

\* The vote of whole verdicts is one, and flags by a majority of all of them.
LEMMA VoteIsWhole ==
    ASSUME NEW cast \in Seq(Verdict), Len(cast) > 0, NEW n,
           \A i \in DOMAIN cast : Whole(cast[i], n, TRUE)
    PROVE  /\ Whole(Vote(cast), n, TRUE)
           /\ Vote(cast).faulty <=> 2 * Cardinality(Flagging(cast)) > Len(cast)
<1> DEFINE faulty   == Majority(cast)
           agreeing == IF faulty THEN Flagging(cast) ELSE DOMAIN cast \ Flagging(cast)
           steps    == [i \in DOMAIN cast |-> cast[i].step]
           types    == [i \in DOMAIN cast |-> cast[i].type]
           v        == Vote(cast)
<1>1. /\ agreeing \in SUBSET Nat /\ agreeing \subseteq 1 .. Len(cast) /\ IsFiniteSet(agreeing)
      /\ Len(cast) \in Nat \ {0}
      /\ DOMAIN cast = 1 .. Len(cast)
  <2>1. /\ DOMAIN cast = 1 .. Len(cast) /\ Len(cast) \in Nat
        /\ Flagging(cast) \subseteq 1 .. Len(cast)
        /\ IsFiniteSet(Flagging(cast)) /\ IsFiniteSet(DOMAIN cast \ Flagging(cast))
    BY FlaggingSets
  <2> QED
    BY <2>1
<1>2. \A i \in DOMAIN cast : cast[i] \in Verdict
  BY DEF Whole
<1>3. /\ v.faulty = faulty /\ faulty \in BOOLEAN
      /\ v.step = (IF faulty THEN Mode(agreeing, steps, None) ELSE None)
      /\ v.type = (IF faulty THEN Mode(agreeing, types, "none") ELSE "none")
      /\ v.confidence = (100 * Cardinality(agreeing)) \div Len(cast)
      /\ v.error = FirstError(cast)
      /\ v = [faulty |-> v.faulty, step |-> v.step, type |-> v.type, confidence |-> v.confidence,
              error |-> v.error]
  BY DEF Vote, Majority
<1>4. v.confidence \in 0 .. 100 /\ v.confidence >= 50
  <2>1. /\ Cardinality(agreeing) \in Nat /\ Cardinality(agreeing) =< Len(cast)
        /\ 2 * Cardinality(agreeing) >= Len(cast)
    <3> DEFINE a == Cardinality(Flagging(cast))
               b == Cardinality(DOMAIN cast \ Flagging(cast))
    <3>1. a \in Nat /\ b \in Nat /\ a + b = Len(cast)
      BY FlaggingSets
    <3>2. faulty <=> 2 * a > Len(cast)
      BY DEF Majority
    <3>3. Cardinality(agreeing) = IF faulty THEN a ELSE b
      OBVIOUS
    <3> HIDE DEF a, b, faulty
    <3> QED
      BY <3>1, <3>2, <3>3
  <2> HIDE DEF agreeing
  <2> QED
    BY <1>1, <1>3, <2>1, ShareOfHundred
<1>5. v.step = None \/ \E i \in DOMAIN cast : v.step = cast[i].step
  <2> HIDE DEF agreeing, steps
  <2>1. Mode(agreeing, steps, None) = None \/ \E i \in agreeing : Mode(agreeing, steps, None) = steps[i]
    BY <1>1, ModeIsCast
  <2> USE DEF steps
  <2> QED
    BY <1>1, <1>3, <2>1
<1>6. v.type = "none" \/ \E i \in DOMAIN cast : v.type = cast[i].type
  <2> HIDE DEF agreeing, types
  <2>1. Mode(agreeing, types, "none") = "none" \/ \E i \in agreeing : Mode(agreeing, types, "none") = types[i]
    BY <1>1, ModeIsCast
  <2> USE DEF types
  <2> QED
    BY <1>1, <1>3, <2>1
<1>7. v.error = "none" \/ \E i \in DOMAIN cast : v.error = cast[i].error
  <2> DEFINE failing == {i \in DOMAIN cast : cast[i].error # "none"}
  <2>1. CASE failing = {}
    BY <1>3, <2>1 DEF FirstError
  <2>2. CASE failing # {}
    <3>1. failing \in SUBSET Nat
      BY <1>1
    <3>2. PICK i \in failing : \A j \in failing : i =< j
      BY <2>2, <3>1, LeastOf
    <3> QED
      BY <1>3, <2>2, <3>2 DEF FirstError
  <2> QED
    BY <2>1, <2>2
<1>8. v \in Verdict
  <2>1. v.step \in Nat \cup {None}
    BY <1>2, <1>5 DEF Verdict
  <2>2. v.type \in FailureTypes \cup {"none"}
    BY <1>2, <1>6 DEF Verdict
  <2>3. v.error \in {"none", "failed", "unparseable"}
    BY <1>2, <1>7 DEF Verdict
  <2> QED
    BY <1>3, <1>4, <2>1, <2>2, <2>3 DEF Verdict
<1>9. v.step # None => v.step < n
  BY <1>5 DEF Whole
<1>10. Vote(cast).faulty <=> 2 * Cardinality(Flagging(cast)) > Len(cast)
  BY <1>3 DEF Majority
<1>11. ~ v.faulty => v.type = "none" /\ v.step = None
  BY <1>3
<1> QED
  BY <1>4, <1>8, <1>9, <1>10, <1>11 DEF Whole

-----------------------------------------------------------------------------
(* The commands *)

\* One call more.
LEMMA OneVoteMore ==
    ASSUME NEW cast \in Seq(Verdict), NEW v \in Verdict
    PROVE  /\ Append(cast, v) \in Seq(Verdict)
           /\ Len(Append(cast, v)) = Len(cast) + 1
           /\ \A i \in DOMAIN Append(cast, v) :
                Append(cast, v)[i] = IF i = Len(cast) + 1 THEN v ELSE cast[i]
           /\ DOMAIN Append(cast, v) = 1 .. Len(cast) + 1
           /\ Cardinality(Flagging(Append(cast, v)))
                = Cardinality(Flagging(cast)) + (IF v.faulty THEN 1 ELSE 0)
<1> DEFINE more == Append(cast, v)
<1>1. /\ more \in Seq(Verdict) /\ Len(more) = Len(cast) + 1 /\ Len(cast) \in Nat
      /\ DOMAIN more = 1 .. Len(cast) + 1 /\ DOMAIN cast = 1 .. Len(cast)
      /\ \A i \in 1 .. Len(cast) + 1 : more[i] = IF i = Len(cast) + 1 THEN v ELSE cast[i]
  BY LenProperties
<1> HIDE DEF more
<1>2. /\ Flagging(cast) \subseteq 1 .. Len(cast) /\ IsFiniteSet(Flagging(cast))
      /\ Cardinality(Flagging(cast)) \in Nat
  BY FlaggingSets
<1>3. CASE v.faulty
  <2>1. Flagging(more) = Flagging(cast) \cup {Len(cast) + 1} /\ Len(cast) + 1 \notin Flagging(cast)
    BY <1>1, <1>2, <1>3 DEF Flagging
  <2>2. Cardinality(Flagging(more)) = Cardinality(Flagging(cast)) + 1
    BY <1>2, <2>1, FS_AddElement
  <2> QED
    BY <1>1, <1>3, <2>2 DEF more
<1>4. CASE ~ v.faulty
  <2>1. Flagging(more) = Flagging(cast)
    BY <1>1, <1>4 DEF Flagging
  <2> QED
    BY <1>1, <1>2, <1>4, <2>1 DEF more
<1> QED
  BY <1>3, <1>4

\* What was said of the trajectory in hand.
VotesWhole ==
    /\ votes \in Seq(Verdict) /\ said = Cardinality(Flagging(votes))
    /\ \A i \in DOMAIN votes : Whole(votes[i], Catalogue[Target].n, Localises(judge))

\* What was asked for and is not judged yet.
TodoListed ==
    /\ at \in DOMAIN script.commands /\ listed = SetOf(Now)
    /\ todo \subseteq Nat \X listed

\* What is on file; the calls of LLM judges were counted before they were forgotten.
RowWhole(row) ==
    /\ row.id \in DOMAIN Catalogue /\ row.told \in Nat
    /\ Whole(row.verdict, Catalogue[row.id].n, row.judge \in LlmJudges => Localises(row.judge))
    /\ row.verdict.error # "failed"
    /\ row.judge \in LlmJudges =>
        (row.verdict.faulty <=> 2 * row.told > (IF row.judge = "selfcons" THEN K ELSE 1))

RowsWhole == (\E S : rows \in Seq(S)) /\ \A i \in DOMAIN rows : RowWhole(rows[i])

\* No part stands alone: a row is a verdict about what was in hand when it was asked for, and
\* what is in hand is of the set on file.
JInv == script \in Scripts /\ TodoListed /\ VotesWhole /\ RowsWhole

LEMMA NoVotesYet ==
    ASSUME votes' = <<>>, said' = 0
    PROVE  VotesWhole'
<1>1. <<>> \in Seq(Verdict) /\ DOMAIN <<>> = {}
  OBVIOUS
<1>2. Flagging(<<>>) = {}
  BY <1>1 DEF Flagging
<1> QED
  BY <1>1, <1>2, FS_EmptySet DEF VotesWhole

\* The command that runs is one of the script's.
LEMMA NowIsCommand ==
    ASSUME NEW s \in Scripts, NEW k \in DOMAIN s.commands
    PROVE  s.commands[k] \in Command /\ SetOf(s.commands[k]) \subseteq DOMAIN Catalogue
<1>1. s.commands \in Seq(Command)
  BY ScriptsAssumption
<1>2. s.commands[k] \in Command
  BY <1>1, ElementOfSeq, LenProperties
<1> QED
  BY <1>2, SetsAssumption

\* Every entry of the order is of the set, and so is what is left of it.
LEMMA PendingIsListed ==
    ASSUME NEW command \in Command
    PROVE  Pending(command) \subseteq Nat \X SetOf(command)
<1> DEFINE order == JudgingOrder(Catalogue, SetOf(command), command.first)
<1>1. Pending(command) \subseteq order
  BY DEF Pending
<1>2. command.first \in Seq(FailureTypes)
  BY DEF Command
<1>3. DOMAIN command.first \subseteq Nat /\ Len(command.first) + 1 \in Nat
  BY <1>2, LenProperties
<1>4. order \subseteq Nat \X SetOf(command)
  BY <1>3 DEF JudgingOrder
<1> QED
  BY <1>1, <1>4

\* What is in hand is the first of what is left.
LEMMA TargetIsListed ==
    ASSUME JInv, todo # {}
    PROVE  /\ Foremost \in todo /\ Target \in listed /\ Target \in DOMAIN Catalogue
           /\ Catalogue[Target].n \in Nat \ {0}
<1>1. listed \subseteq DOMAIN Catalogue
  BY NowIsCommand DEF JInv, TodoListed, Now
<1>2. \A t \in DOMAIN Catalogue :
        /\ t \in Nat \X DOMAIN KindPlace /\ t[1] \in Nat /\ t[2] \in DOMAIN KindPlace
        /\ Catalogue[t].n \in Nat \ {0}
  BY CatalogueAssumption DEF Label
<1>3. /\ \A kind \in DOMAIN KindPlace : KindPlace[kind] \in Nat
      /\ \A p, q \in DOMAIN KindPlace : KindPlace[p] = KindPlace[q] => p = q
  BY DEF KindPlace
<1> DEFINE Turn(entry) == entry[1]
           Index(entry) == entry[2][1]
           Kind(entry) == KindPlace[entry[2][2]]
<1>4. \A entry \in todo : /\ entry = <<entry[1], entry[2]>> /\ entry[2] = <<entry[2][1], entry[2][2]>>
                          /\ Turn(entry) \in Nat /\ Index(entry) \in Nat /\ Kind(entry) \in Nat
                          /\ entry[2] \in listed /\ entry[2][2] \in DOMAIN KindPlace
  <2> SUFFICES ASSUME NEW entry \in todo
               PROVE  /\ entry = <<entry[1], entry[2]>> /\ entry[2] = <<entry[2][1], entry[2][2]>>
                      /\ Turn(entry) \in Nat /\ Index(entry) \in Nat /\ Kind(entry) \in Nat
                      /\ entry[2] \in listed /\ entry[2][2] \in DOMAIN KindPlace
    OBVIOUS
  <2>1. entry \in Nat \X listed
    BY DEF JInv, TodoListed
  <2>2. entry[2] \in DOMAIN Catalogue /\ entry[2] \in Nat \X DOMAIN KindPlace
    BY <1>1, <1>2, <2>1
  <2> QED
    BY <1>3, <2>1, <2>2
<1>5. \A a, b \in todo : Turn(a) = Turn(b) /\ Index(a) = Index(b) /\ Kind(a) = Kind(b) => a = b
  BY <1>3, <1>4
<1>6. \A a, b : Precedes(a, b) <=> \/ Turn(a) < Turn(b)
                                   \/ Turn(a) = Turn(b) /\ Index(a) < Index(b)
                                   \/ Turn(a) = Turn(b) /\ Index(a) = Index(b) /\ Kind(a) < Kind(b)
  BY DEF Precedes, ComesBefore
<1> HIDE DEF Turn, Index, Kind
<1>7. PICK a \in todo : \A entry \in todo : Turn(a) =< Turn(entry)
  <2> DEFINE T == {Turn(entry) : entry \in todo}
  <2>1. T \in SUBSET Nat /\ T # {}
    BY <1>4
  <2>2. PICK x \in T : \A y \in T : x =< y
    BY <2>1, LeastOf
  <2> QED
    BY <2>2
<1>8. PICK b \in todo : /\ Turn(b) = Turn(a)
                        /\ \A entry \in todo : Turn(entry) = Turn(a) => Index(b) =< Index(entry)
  <2> DEFINE T == {Index(entry) : entry \in {e \in todo : Turn(e) = Turn(a)}}
  <2>1. T \in SUBSET Nat /\ T # {}
    BY <1>4
  <2>2. PICK x \in T : \A y \in T : x =< y
    BY <2>1, LeastOf
  <2> QED
    BY <2>2
<1>9. PICK c \in todo : /\ Turn(c) = Turn(a) /\ Index(c) = Index(b)
                        /\ \A entry \in todo : Turn(entry) = Turn(a) /\ Index(entry) = Index(b)
                                                    => Kind(c) =< Kind(entry)
  <2> DEFINE T == {Kind(entry) : entry \in {e \in todo : Turn(e) = Turn(a) /\ Index(e) = Index(b)}}
  <2>1. T \in SUBSET Nat /\ T # {}
    BY <1>4, <1>8
  <2>2. PICK x \in T : \A y \in T : x =< y
    BY <2>1, LeastOf
  <2> QED
    BY <2>2
<1>10. \A other \in todo \ {c} : Precedes(c, other)
  <2> SUFFICES ASSUME NEW other \in todo, other # c PROVE Precedes(c, other)
    OBVIOUS
  <2>1. /\ Turn(c) \in Nat /\ Index(c) \in Nat /\ Kind(c) \in Nat
        /\ Turn(other) \in Nat /\ Index(other) \in Nat /\ Kind(other) \in Nat
    BY <1>4
  <2>2. ~ (Turn(c) = Turn(other) /\ Index(c) = Index(other) /\ Kind(c) = Kind(other))
    BY <1>5
  <2> QED
    BY <1>6, <1>7, <1>8, <1>9, <2>1, <2>2
<1>11. Foremost \in todo
  BY <1>10 DEF Foremost
<1> QED
  BY <1>1, <1>2, <1>4, <1>11 DEF Target

\* A row more on file, or none.
LEMMA Recording ==
    ASSUME JInv, NEW v, Record(v),
           CallFailed(v) \/ RowWhole([id |-> Target, judge |-> judge, verdict |-> v, told |-> said])
    PROVE  JInv'
<1> DEFINE row == [id |-> Target, judge |-> judge, verdict |-> v, told |-> said]
<1>1. script' \in Scripts /\ VotesWhole'
  BY NoVotesYet DEF JInv, Record
<1>2. TodoListed'
  BY DEF JInv, TodoListed, Record, Now
<1>3. CASE CallFailed(v)
  <2>1. rows' = rows
    BY <1>3 DEF Record
  <2>2. RowsWhole'
    BY <2>1 DEF JInv, RowsWhole, RowWhole
  <2> QED
    BY <1>1, <1>2, <2>2 DEF JInv
<1>4. CASE ~ CallFailed(v)
  <2>1. rows' = Append(rows, row) /\ RowWhole(row)
    BY <1>4 DEF Record
  <2> HIDE DEF row
  <2>2. PICK S : rows \in Seq(S)
    BY DEF JInv, RowsWhole
  <2> DEFINE T == S \cup {row}
  <2>3. rows \in Seq(T) /\ row \in T
    BY <2>2, SeqMonotonic
  <2> HIDE DEF T
  <2>4. /\ rows' \in Seq(T) /\ DOMAIN rows' = 1 .. Len(rows) + 1 /\ Len(rows) \in Nat
        /\ DOMAIN rows = 1 .. Len(rows)
        /\ \A i \in 1 .. Len(rows) + 1 : rows'[i] = IF i = Len(rows) + 1 THEN row ELSE rows[i]
    BY <2>1, <2>3, LenProperties
  <2>5. \A i \in DOMAIN rows' : RowWhole(rows'[i])
    BY <2>1, <2>4 DEF JInv, RowsWhole
  <2>6. RowsWhole'
    BY <2>4, <2>5 DEF RowsWhole, RowWhole
  <2> QED
    BY <1>1, <1>2, <2>6 DEF JInv
<1> QED
  BY <1>3, <1>4

\* An answer, coerced, is one vote more.
LEMMA Asking ==
    ASSUME JInv, NEW reply \in script.replies, Ask(reply)
    PROVE  JInv'
<1> DEFINE v == Coerced(judge, Catalogue[Target].n, reply)
<1>1. reply \in Reply
  BY ScriptsAssumption DEF JInv
<1>2. /\ Whole(v, Catalogue[Target].n, Localises(judge)) /\ v \in Verdict
      /\ v.faulty <=> reply.outcome = "object" /\ reply.faulty
  BY <1>1, CoercedIsWhole DEF Whole
<1> HIDE DEF v
<1>3. /\ votes' = Append(votes, v)
      /\ said' = said + (IF reply.outcome = "object" /\ reply.faulty THEN 1 ELSE 0)
      /\ UNCHANGED <<script, at, listed, todo, rows>>
  BY DEF Ask, v
<1>4. Target' = Target /\ judge' = judge
  BY <1>3 DEF Target, Foremost, judge, Now
<1>5. VotesWhole'
  <2>1. votes' \in Seq(Verdict) /\ said' = Cardinality(Flagging(votes)')
    BY <1>2, <1>3, OneVoteMore DEF JInv, VotesWhole
  <2>2. \A i \in DOMAIN votes' : votes'[i] = v \/ (i \in DOMAIN votes /\ votes'[i] = votes[i])
    BY <1>2, <1>3, OneVoteMore, LenProperties DEF JInv, VotesWhole
  <2> QED
    BY <1>2, <1>4, <2>1, <2>2 DEF JInv, VotesWhole
<1>6. RowsWhole' /\ TodoListed'
  BY <1>3 DEF JInv, RowsWhole, RowWhole, TodoListed, Now
<1> QED
  BY <1>3, <1>5, <1>6 DEF JInv

\* All calls are in: one, or as many as the vote has.
LEMMA Concluding ==
    ASSUME JInv, Conclude
    PROVE  JInv'
<1> DEFINE v   == IF judge = "selfcons" THEN Vote(votes) ELSE votes[1]
           row == [id |-> Target, judge |-> judge, verdict |-> v, told |-> said]
<1>1. /\ votes \in Seq(Verdict) /\ Len(votes) = Calls /\ judge \in LlmJudges
      /\ said = Cardinality(Flagging(votes)) /\ Record(v)
      /\ \A i \in DOMAIN votes : Whole(votes[i], Catalogue[Target].n, Localises(judge))
  BY DEF JInv, VotesWhole, Conclude
<1>2. Target \in DOMAIN Catalogue /\ said \in Nat
  BY <1>1, TargetIsListed, FlaggingSets DEF Conclude
<1>3. CASE judge = "selfcons"
  <2>1. Localises(judge) = TRUE /\ (judge \in LlmJudges => Localises(judge)) = TRUE
    BY <1>3 DEF Localises
  <2>2. Len(votes) = K /\ Len(votes) > 0
    BY <1>1, <1>3, VoteAssumption DEF Calls
  <2>3. /\ Whole(Vote(votes), Catalogue[Target].n, TRUE)
        /\ Vote(votes).faulty <=> 2 * Cardinality(Flagging(votes)) > Len(votes)
    BY <1>1, <2>1, <2>2, VoteIsWhole
  <2>4. CallFailed(v) \/ RowWhole(row)
    BY <1>1, <1>2, <1>3, <2>1, <2>2, <2>3 DEF RowWhole, CallFailed
  <2> QED
    BY <1>1, <2>4, Recording
<1>4. CASE judge # "selfcons"
  <2>1. Len(votes) = 1 /\ DOMAIN votes = {1}
    BY <1>1, <1>4, LenProperties DEF Calls
  <2>2. votes[1].faulty <=> 2 * said > 1
    <3>1. Flagging(votes) = IF votes[1].faulty THEN {1} ELSE {}
      BY <2>1 DEF Flagging
    <3>2. Cardinality({1}) = 1 /\ Cardinality({}) = 0
      BY FS_EmptySet, FS_Singleton
    <3>3. said = IF votes[1].faulty THEN 1 ELSE 0
      BY <1>1, <3>1, <3>2
    <3> QED
      BY <3>3
  <2>3. Whole(v, Catalogue[Target].n, judge \in LlmJudges => Localises(judge))
    BY <1>1, <1>4, <2>1 DEF Whole
  <2>4. CallFailed(v) \/ RowWhole(row)
    BY <1>1, <1>2, <1>4, <2>1, <2>2, <2>3 DEF RowWhole, CallFailed
  <2> QED
    BY <1>1, <2>4, Recording
<1> QED
  BY <1>3, <1>4

\* What the rules say is within the trajectory, and so is where the stand-in puts a fault.
LEMMA RuleVerdictIsWhole ==
    ASSUME NEW n \in Nat, NEW verdict \in RuleVerdicts(n)
    PROVE  Whole(verdict, n, TRUE) /\ verdict.error = "none"
<1>1. CASE verdict = [faulty |-> FALSE, step |-> None, type |-> "none", confidence |-> 60, error |-> "none"]
  BY <1>1 DEF Whole, Verdict, None
<1>2. ASSUME NEW v \in Violations, v[1] < n,
             verdict = [faulty |-> TRUE, step |-> v[1], type |-> v[2], confidence |-> 95, error |-> "none"]
      PROVE  Whole(verdict, n, TRUE) /\ verdict.error = "none"
  <2>1. v[1] \in Nat /\ v[2] \in FailureTypes
    BY ViolationsAssumption
  <2> QED
    BY <1>2, <2>1 DEF Whole, Verdict, None
<1> QED
  BY <1>1, <1>2 DEF RuleVerdicts

LEMMA MockIsWhole ==
    ASSUME NEW n \in Nat \ {0}, NEW verdict, Whole(verdict, n, TRUE), verdict.error = "none", NEW f \in Flips
    PROVE  LET mock == Mock(verdict, f.flip, (f.where * n) \div 100, f.type, f.confidence)
           IN  Whole(mock, n, TRUE) /\ mock.error = "none"
<1> DEFINE where == (f.where * n) \div 100
           mock  == Mock(verdict, f.flip, where, f.type, f.confidence)
<1>1. /\ f.flip \in BOOLEAN /\ f.where \in 0 .. 99 /\ f.type \in FailureTypes
      /\ f.confidence \in 50 .. 99
  BY FlipsAssumption
<1>2. where \in Nat /\ where < n
  <2>1. f.where * n \in Nat /\ f.where * n < 100 * n
    BY <1>1
  <2> QED
    BY <2>1
<1> HIDE DEF where
<1>3. /\ verdict.faulty \in BOOLEAN /\ verdict.step \in Nat \cup {None}
      /\ verdict.type \in FailureTypes \cup {"none"}
      /\ ~ verdict.faulty => verdict.type = "none" /\ verdict.step = None
      /\ verdict.step # None => verdict.step < n
  BY DEF Whole, Verdict
<1>4. ASSUME ~ f.flip PROVE Whole(mock, n, TRUE) /\ mock.error = "none"
  <2>1. mock = [faulty |-> verdict.faulty, step |-> verdict.step, type |-> verdict.type,
                confidence |-> f.confidence, error |-> "none"]
    BY <1>1, <1>3, <1>4 DEF Mock
  <2> HIDE DEF mock
  <2> QED
    BY <1>1, <1>3, <2>1 DEF Whole, Verdict
<1>5. ASSUME f.flip PROVE Whole(mock, n, TRUE) /\ mock.error = "none"
  <2>1. CASE verdict.faulty
    <3>1. mock = [faulty |-> FALSE, step |-> None, type |-> "none", confidence |-> f.confidence,
                  error |-> "none"]
      BY <1>1, <1>3, <1>5, <2>1 DEF Mock
    <3> HIDE DEF mock
    <3> QED
      BY <1>1, <3>1 DEF Whole, Verdict, None
  <2>2. CASE ~ verdict.faulty
    <3>1. mock = [faulty |-> TRUE, step |-> where, type |-> f.type, confidence |-> f.confidence,
                  error |-> "none"]
      BY <1>1, <1>3, <1>5, <2>2 DEF Mock
    <3> HIDE DEF mock
    <3> QED
      BY <1>1, <1>2, <3>1 DEF Whole, Verdict, None
  <2> QED
    BY <2>1, <2>2
<1> QED
  BY <1>1, <1>4, <1>5 DEF where

\* The rules and the stand-in are no LLM judges.
LEMMA OthersRecord ==
    ASSUME JInv, Check \/ Stand
    PROVE  JInv'
<1>1. /\ judge \notin LlmJudges /\ Target \in DOMAIN Catalogue
      /\ Catalogue[Target].n \in Nat \ {0} /\ said \in Nat
  <2>1. said \in Nat
    BY FlaggingSets DEF JInv, VotesWhole
  <2> QED
    BY <2>1, TargetIsListed DEF Check, Stand, LlmJudges
<1>2. PICK v : Record(v) /\ Whole(v, Catalogue[Target].n, TRUE) /\ v.error = "none"
  <2>1. CASE Check
    BY <1>1, <2>1, RuleVerdictIsWhole DEF Check
  <2>2. CASE Stand
    <3> DEFINE n == Catalogue[Target].n
    <3>1. PICK verdict \in RuleVerdicts(n), f \in Flips :
             Record(Mock(verdict, f.flip, (f.where * n) \div 100, f.type, f.confidence))
      BY <2>2 DEF Stand
    <3> HIDE DEF n
    <3>2. n \in Nat \ {0}
      BY <1>1 DEF n
    <3>3. Whole(verdict, n, TRUE) /\ verdict.error = "none"
      BY <3>2, RuleVerdictIsWhole
    <3> DEFINE mock == Mock(verdict, f.flip, (f.where * n) \div 100, f.type, f.confidence)
    <3>4. Whole(mock, n, TRUE) /\ mock.error = "none"
      BY <3>2, <3>3, MockIsWhole
    <3> HIDE DEF mock
    <3>5. Record(mock) /\ Whole(mock, Catalogue[Target].n, TRUE) /\ mock.error = "none"
      BY <3>1, <3>4 DEF n, mock
    <3> QED
      BY <3>5
  <2> QED
    BY <2>1, <2>2
<1>3. RowWhole([id |-> Target, judge |-> judge, verdict |-> v, told |-> said])
  BY <1>1, <1>2 DEF RowWhole, Whole
<1> QED
  BY <1>2, <1>3, Recording

LEMMA NextJInv ==
    ASSUME JInv, [Next]_vars
    PROVE  JInv'
<1>1. ASSUME NextCommand PROVE JInv'
  <2>1. /\ script' = script /\ rows' = rows /\ at' = at + 1 /\ at < Len(script.commands)
        /\ listed' = SetOf(script.commands[at + 1]) /\ todo' = Pending(script.commands[at + 1])
    BY <1>1 DEF NextCommand
  <2>2. script.commands \in Seq(Command) /\ at \in DOMAIN script.commands
    BY ScriptsAssumption DEF JInv, TodoListed
  <2>3. at + 1 \in DOMAIN script.commands
    BY <2>1, <2>2, LenProperties
  <2>4. script.commands[at + 1] \in Command
    BY <2>3, NowIsCommand DEF JInv
  <2>5. TodoListed'
    BY <2>1, <2>3, <2>4, PendingIsListed DEF TodoListed, Now
  <2>6. VotesWhole'
    BY <1>1, NoVotesYet DEF NextCommand
  <2> QED
    BY <2>1, <2>5, <2>6 DEF JInv, RowsWhole, RowWhole
<1>2. CASE UNCHANGED vars
  BY <1>2 DEF vars, JInv, TodoListed, VotesWhole, RowsWhole, RowWhole, Target, Foremost, judge, Now
<1>3. CASE Ends \/ Raises
  BY <1>1, <1>3 DEF Ends, Raises
<1> QED
  BY <1>2, <1>3, Asking, Concluding, OthersRecord DEF Next

\* The inductive invariant holds throughout.
THEOREM VerdictInvariance == Spec => []JInv
<1>1. ASSUME Init PROVE JInv
  <2>1. /\ script \in Scripts /\ votes = <<>> /\ said = 0 /\ rows = <<>> /\ at = 1
        /\ listed = SetOf(script.commands[1]) /\ todo = Pending(script.commands[1])
    BY <1>1 DEF Init
  <2>2. <<>> \in Seq(Verdict) /\ DOMAIN <<>> = {}
    OBVIOUS
  <2>3. Flagging(<<>>) = {}
    BY <2>2 DEF Flagging
  <2>4. VotesWhole
    BY <2>1, <2>2, <2>3, FS_EmptySet DEF VotesWhole
  <2>5. RowsWhole
    BY <2>1, <2>2 DEF RowsWhole
  <2>6. 1 \in DOMAIN script.commands
    <3>1. script.commands \in Seq(Command) /\ script.commands # <<>>
      BY <2>1, ScriptsAssumption
    <3>2. Len(script.commands) > 0
      BY <3>1, EmptySeq, LenProperties
    <3> QED
      BY <3>1, <3>2, LenProperties
  <2>7. script.commands[1] \in Command
    BY <2>1, <2>6, NowIsCommand
  <2>8. TodoListed
    BY <2>1, <2>6, <2>7, PendingIsListed DEF TodoListed, Now
  <2> QED
    BY <2>1, <2>4, <2>5, <2>8 DEF JInv
<1> QED
  BY <1>1, NextJInv, PTL DEF Spec

\* A stored verdict of an LLM judge flags when and only when more than half of all its calls came
\* back as an object that says faulty, for any number of calls and any answers
\* (judge_with_response, SelfConsistencyJudge.judge).
THEOREM MajorityFlags == Spec => []FlagNeedsMajority
<1>1. JInv => FlagNeedsMajority
  BY DEF JInv, RowsWhole, RowWhole, FlagNeedsMajority
<1> QED
  BY <1>1, VerdictInvariance, PTL

\* A stored verdict is well formed, whatever a model answers, wherever the rules find a fault and
\* whatever the stand-in does to it: a clean one names neither type nor step, a step is one the
\* judge was shown, no confidence is below a half, and no failed call is stored.
THEOREM VerdictsStayWhole == Spec => []VerdictsAreWhole
<1>1. JInv => VerdictsAreWhole
  <2> SUFFICES ASSUME JInv, NEW i \in DOMAIN rows
               PROVE  LET v == rows[i].verdict IN
                        /\ v \in Verdict
                        /\ ~ v.faulty => v.type = "none" /\ v.step = None
                        /\ v.step # None => v.step < Catalogue[rows[i].id].n
                                            /\ (rows[i].judge \in LlmJudges => Localises(rows[i].judge))
                        /\ v.confidence >= 50
                        /\ v.error # "failed"
    BY DEF VerdictsAreWhole
  <2>1. RowWhole(rows[i])
    BY DEF JInv, RowsWhole
  <2> QED
    BY <2>1 DEF RowWhole, Whole
<1> QED
  BY <1>1, VerdictInvariance, PTL
-----------------------------------------------------------------------------
(* No pair is judged twice *)

\* No command line names a failure type twice: such a pair is judged twice, which the code
\* does not prevent.
NamedOnce ==
    \A s \in Scripts : \A k \in DOMAIN s.commands :
        \A a, b \in DOMAIN s.commands[k].first :
            s.commands[k].first[a] = s.commands[k].first[b] => a = b

\* Then each trajectory has one verdict of a judge, and none is left to do that has one.
RowsOnce ==
    \A i, k \in DOMAIN rows : rows[i].id = rows[k].id /\ rows[i].judge = rows[k].judge => i = k

TodoFresh ==
    /\ \A a, b \in todo : a[2] = b[2] => a = b
    /\ \A entry \in todo : \A i \in DOMAIN rows : ~ (rows[i].id = entry[2] /\ rows[i].judge = judge)

OInv == JInv /\ RowsOnce /\ TodoFresh

LEMMA PendingIsFresh ==
    ASSUME NEW command \in Command,
           \A a, b \in DOMAIN command.first : command.first[a] = command.first[b] => a = b
    PROVE  /\ \A a, b \in Pending(command) : a[2] = b[2] => a = b
           /\ \A entry \in Pending(command) : \A i \in DOMAIN rows :
                ~ (rows[i].id = entry[2] /\ rows[i].judge = command.judge)
<1> DEFINE first == command.first
           order == JudgingOrder(Catalogue, SetOf(command), first)
<1>1. first \in Seq(FailureTypes) /\ DOMAIN first = 1 .. Len(first) /\ Len(first) \in Nat
  BY LenProperties DEF Command
<1>2. \A entry \in order : /\ entry = <<entry[1], entry[2]>>
                           /\ \/ entry[1] \in DOMAIN first /\ Catalogue[entry[2]].type = first[entry[1]]
                              \/ entry[1] = Len(first) + 1 /\ \A k \in DOMAIN first : Catalogue[entry[2]].type # first[k]
  BY DEF JudgingOrder, ToSet
<1>3. \A a, b \in order : a[2] = b[2] => a = b
  <2> SUFFICES ASSUME NEW a \in order, NEW b \in order, a[2] = b[2] PROVE a = b
    OBVIOUS
  <2> HIDE DEF order
  <2>1. a[1] = b[1]
    BY <1>2
  <2> QED
    BY <1>2, <2>1
<1>4. Pending(command) \subseteq order
  BY DEF Pending
<1>5. \A entry \in Pending(command) : \A i \in DOMAIN rows :
        ~ (rows[i].id = entry[2] /\ rows[i].judge = command.judge)
  BY DEF Pending
<1> QED
  BY <1>3, <1>4, <1>5

\* What is recorded is done with, and was not on file.
LEMMA RecordedOnce ==
    ASSUME OInv, todo # {}, NEW v, Record(v)
    PROVE  RowsOnce' /\ TodoFresh'
<1> DEFINE row == [id |-> Target, judge |-> judge, verdict |-> v, told |-> said]
<1>1. /\ Foremost \in todo /\ Target = Foremost[2] /\ judge' = judge
      /\ todo' = todo \ {Foremost}
  BY TargetIsListed DEF OInv, Target, Record, judge, Now
<1>2. \A entry \in todo' : entry \in todo /\ entry[2] # Target
  BY <1>1 DEF OInv, TodoFresh
<1>3. CASE CallFailed(v)
  <2>1. rows' = rows
    BY <1>3 DEF Record
  <2> QED
    BY <1>1, <1>2, <2>1 DEF OInv, TodoFresh, RowsOnce
<1>4. CASE ~ CallFailed(v)
  <2>1. rows' = Append(rows, row)
    BY <1>4 DEF Record
  <2>2. row.id = Target /\ row.judge = judge
    OBVIOUS
  <2> HIDE DEF row
  <2>3. PICK S : rows \in Seq(S)
    BY DEF OInv, JInv, RowsWhole
  <2> DEFINE T == S \cup {row}
  <2>4. rows \in Seq(T) /\ row \in T
    BY <2>3, SeqMonotonic
  <2> HIDE DEF T
  <2>5. /\ DOMAIN rows' = 1 .. Len(rows) + 1 /\ Len(rows) \in Nat
        /\ DOMAIN rows = 1 .. Len(rows)
        /\ \A i \in 1 .. Len(rows) + 1 : rows'[i] = IF i = Len(rows) + 1 THEN row ELSE rows[i]
    BY <2>1, <2>4, LenProperties
  <2>6. \A i \in DOMAIN rows' : (i \in DOMAIN rows /\ rows'[i] = rows[i]) \/ (i = Len(rows) + 1 /\ rows'[i] = row)
    BY <2>5
  <2>7. \A i \in DOMAIN rows : ~ (rows[i].id = row.id /\ rows[i].judge = row.judge)
    BY <1>1, <2>2 DEF OInv, TodoFresh
  <2>8. RowsOnce'
    BY <2>6, <2>7 DEF OInv, RowsOnce
  <2>9. TodoFresh'
    BY <1>1, <1>2, <2>2, <2>6 DEF OInv, TodoFresh
  <2> QED
    BY <2>8, <2>9
<1> QED
  BY <1>3, <1>4

THEOREM OnceInvariance == ASSUME NamedOnce PROVE Spec => []OInv
<1>1. ASSUME Init PROVE RowsOnce /\ TodoFresh
  <2>1. /\ script \in Scripts /\ rows = <<>> /\ at = 1 /\ todo = Pending(script.commands[1])
    BY <1>1 DEF Init
  <2>2. 1 \in DOMAIN script.commands
    <3>1. script.commands \in Seq(Command) /\ script.commands # <<>>
      BY <2>1, ScriptsAssumption
    <3>2. Len(script.commands) > 0
      BY <3>1, EmptySeq, LenProperties
    <3> QED
      BY <3>1, <3>2, LenProperties
  <2>3. script.commands[1] \in Command
    BY <2>1, <2>2, NowIsCommand
  <2>4. \A a, b \in todo : a[2] = b[2] => a = b
    BY <2>1, <2>2, <2>3, PendingIsFresh DEF NamedOnce
  <2>5. DOMAIN rows = {}
    BY <2>1
  <2> QED
    BY <2>4, <2>5 DEF RowsOnce, TodoFresh
<1>2. ASSUME JInv, RowsOnce, TodoFresh, [Next]_vars PROVE RowsOnce' /\ TodoFresh'
  <2>1. ASSUME NextCommand PROVE RowsOnce' /\ TodoFresh'
    <3> DEFINE command == script.commands[at + 1]
    <3>1. /\ script' = script /\ rows' = rows /\ at' = at + 1 /\ at < Len(script.commands)
          /\ todo' = Pending(command)
      BY <2>1 DEF NextCommand
    <3>2. script.commands \in Seq(Command) /\ at \in DOMAIN script.commands /\ script \in Scripts
      BY <1>2, ScriptsAssumption DEF JInv, TodoListed
    <3>3. at + 1 \in DOMAIN script.commands
      BY <3>1, <3>2, LenProperties
    <3>4. command \in Command /\ judge' = command.judge
      BY <3>1, <3>2, <3>3, NowIsCommand DEF judge, Now
    <3>5. \A a, b \in DOMAIN command.first : command.first[a] = command.first[b] => a = b
      BY <3>2, <3>3 DEF NamedOnce
    <3> HIDE DEF command
    <3>6. TodoFresh'
      BY <3>1, <3>4, <3>5, PendingIsFresh DEF TodoFresh
    <3> QED
      BY <1>2, <3>1, <3>6 DEF RowsOnce
  <2>2. CASE UNCHANGED vars
    BY <1>2, <2>2 DEF vars, RowsOnce, TodoFresh, judge, Now
  <2>3. CASE Ends \/ Raises
    BY <2>1, <2>3 DEF Ends, Raises
  <2>4. ASSUME NEW reply \in script.replies, Ask(reply) PROVE RowsOnce' /\ TodoFresh'
    <3>1. UNCHANGED <<script, at, todo, rows>>
      BY <2>4 DEF Ask
    <3> QED
      BY <1>2, <3>1 DEF RowsOnce, TodoFresh, judge, Now
  <2>5. CASE Conclude \/ Check \/ Stand
    <3>1. todo # {} /\ \E v : Record(v)
      BY <2>5 DEF Conclude, Check, Stand
    <3> QED
      BY <1>2, <3>1, RecordedOnce DEF OInv
  <2> QED
    BY <1>2, <2>2, <2>3, <2>4, <2>5 DEF Next
<1>3. Spec => [](RowsOnce /\ TodoFresh)
  <2>1. RowsOnce /\ TodoFresh /\ JInv /\ [Next]_vars => (RowsOnce /\ TodoFresh)'
    BY <1>2
  <2> QED
    BY <1>1, <2>1, VerdictInvariance, PTL DEF Spec
<1> QED
  BY <1>3, VerdictInvariance, PTL DEF OInv
-----------------------------------------------------------------------------
(* The sets that are built *)

LEMMA Quotas ==
    ASSUME NEW n \in Nat \ {0}
    PROVE  /\ CleanQuota(n) \in Nat /\ TypeQuota(n) \in Nat \ {0} /\ Generated(n) \in Nat
           /\ Generated(n) = 6 * TypeQuota(n) + 6
           /\ Min({CleanQuota(n), Generated(n)}) = CleanQuota(n) /\ CleanQuota(n) \in Nat \ {0}
           /\ n >= 10 => CleanQuota(n) + 6 * TypeQuota(n) \in n - 5 .. n
<1> DEFINE c == CleanQuota(n)
           q == TypeQuota(n)
<1>1. n \div 4 \in Nat /\ 4 * (n \div 4) =< n /\ n < 4 * (n \div 4) + 4
  OBVIOUS
<1>2. c = IF 1 >= n \div 4 THEN 1 ELSE n \div 4
  BY <1>1, OfTwo DEF CleanQuota
<1>3. c \in Nat \ {0} /\ c =< n
  BY <1>1, <1>2
<1> DEFINE d == (n - c) \div 6
<1>4. d \in Nat /\ 6 * d =< n - c /\ n - c < 6 * d + 6
  <2>1. n - c \in Nat
    BY <1>3
  <2> HIDE DEF c
  <2> QED
    BY <2>1
<1>5. q = IF 1 >= d THEN 1 ELSE d
  BY <1>4, OfTwo DEF TypeQuota
<1>6. q \in Nat \ {0} /\ d =< q
  BY <1>4, <1>5
<1>7. Generated(n) = 6 * q + 6
  BY DEF Generated
<1> HIDE DEF c, d, q
<1>8. c =< 6 * q + 6
  BY <1>1, <1>2, <1>3, <1>4, <1>6
<1>9. Min({c, 6 * q + 6}) = c
  <2>1. 6 * q + 6 \in Int /\ c \in Int
    BY <1>3, <1>6
  <2> QED
    BY <1>8, <2>1, OfTwo
<1>10. n >= 10 => c + 6 * q \in n - 5 .. n
  BY <1>1, <1>2, <1>3, <1>4, <1>5
<1> QED
  BY <1>3, <1>6, <1>7, <1>9, <1>10 DEF c, q

\* Every sixth instance can host any fault, so the quota of each can be taken.
LEMMA QuotaIsTaken ==
    ASSUME NEW n \in Nat \ {0}, NEW fault \in FailureTypes
    PROVE  IsFiniteSet(Taken(n, fault)) /\ Cardinality(Taken(n, fault)) = TypeQuota(n)
           /\ Taken(n, fault) \subseteq Nat
<1> DEFINE q == TypeQuota(n)
           g == Generated(n)
           Hosts == {index \in 0 .. g - 1 : CanHost(fault, index)}
           every == [j \in 0 .. q - 1 |-> 6 * j + 1]
<1>1. q \in Nat /\ g \in Nat /\ g = 6 * q + 6
  BY Quotas
<1> HIDE DEF q, g
<1>2. Hosts \in SUBSET Nat /\ IsFiniteSet(Hosts)
  <2>1. IsFiniteSet(0 .. g - 1)
    BY <1>1, FS_Interval
  <2>2. Hosts \subseteq 0 .. g - 1 /\ 0 .. g - 1 \subseteq Nat
    BY <1>1
  <2> HIDE DEF Hosts
  <2> QED
    BY <2>1, <2>2, Within
<1>3. \A j \in 0 .. q - 1 : every[j] \in Hosts
  <2> SUFFICES ASSUME NEW j \in 0 .. q - 1 PROVE every[j] \in Hosts
    OBVIOUS
  <2>1. j \in Nat /\ every[j] = 6 * j + 1 /\ (6 * j + 1) % 6 = 1
    BY <1>1
  <2>2. DifficultyOf(every[j]) = "restocking"
    BY <2>1 DEF DifficultyOf, Difficulties
  <2>3. CanHost(fault, every[j])
    BY <2>2 DEF CanHost, FailureTypes
  <2>4. every[j] \in 0 .. g - 1
    BY <1>1, <2>1
  <2> HIDE DEF every
  <2> QED
    BY <2>3, <2>4
<1>4. \A j, k \in 0 .. q - 1 : every[j] = every[k] => j = k
  BY <1>1
<1>5. q =< Cardinality(Hosts)
  <2>1. Cardinality(0 .. q - 1) = q
    BY <1>1, FS_Interval
  <2> HIDE DEF every, Hosts
  <2> QED
    BY <1>1, <1>2, <1>3, <1>4, <2>1, NoMoreThan
<1>6. \A index \in Hosts : {k \in 0 .. index - 1 : CanHost(fault, k)} = {k \in Hosts : k < index}
  BY <1>1
<1>7. Taken(n, fault) = {index \in Hosts : Cardinality({k \in Hosts : k < index}) < q}
  BY <1>6 DEF Taken, q, g
<1> HIDE DEF Hosts
<1>8. Cardinality(Taken(n, fault)) = q
  BY <1>1, <1>2, <1>5, <1>7, TheFirstAreSoMany
<1>9. IsFiniteSet(Taken(n, fault)) /\ Taken(n, fault) \subseteq Nat
  BY <1>2, <1>7, Within
<1> QED
  BY <1>8, <1>9 DEF q

\* So many of each kind, and nothing else.
Of(set, kind) == {t \in set : t[2] = kind}
Made == FailureTypes \cup {"clean"}

LEMMA BuiltIsBalanced ==
    ASSUME NEW n \in Nat \ {0}
    PROVE  /\ BuildDataset(n) \subseteq Nat \X Made
           /\ \A kind \in Made : IsFiniteSet(Of(BuildDataset(n), kind))
           /\ \A fault \in FailureTypes : Cardinality(Of(BuildDataset(n), fault)) = TypeQuota(n)
           /\ Cardinality(Of(BuildDataset(n), "clean")) = CleanQuota(n)
<1> DEFINE built == BuildDataset(n)
           c == CleanQuota(n)
<1>1. c \in Nat /\ Min({c, Generated(n)}) = c
  BY Quotas
<1>2. built = {<<index, "clean">> : index \in 0 .. c - 1} \cup UNION {Taken(n, fault) \X {fault} : fault \in FailureTypes}
  BY <1>1 DEF BuildDataset
<1>3. "clean" \notin FailureTypes
  BY DEF FailureTypes
<1>4. \A fault \in FailureTypes : Taken(n, fault) \subseteq Nat
  BY QuotaIsTaken
<1>5. built \subseteq Nat \X Made
  <2>1. {<<index, "clean">> : index \in 0 .. c - 1} \subseteq Nat \X Made
    BY <1>1 DEF Made
  <2>2. UNION {Taken(n, fault) \X {fault} : fault \in FailureTypes} \subseteq Nat \X Made
    BY <1>4 DEF Made
  <2> QED
    BY <1>2, <2>1, <2>2
<1>6. ASSUME NEW fault \in FailureTypes
      PROVE  IsFiniteSet(Of(built, fault)) /\ Cardinality(Of(built, fault)) = TypeQuota(n)
  <2> DEFINE T == Taken(n, fault)
             index == [t \in Of(built, fault) |-> t[1]]
  <2>1. IsFiniteSet(T) /\ Cardinality(T) = TypeQuota(n)
    BY QuotaIsTaken
  <2>2. Of(built, fault) = T \X {fault}
    BY <1>2, <1>3 DEF Of
  <2> HIDE DEF T
  <2>3. \A t \in Of(built, fault) : index[t] \in T
    BY <2>2
  <2>4. \A t, u \in Of(built, fault) : index[t] = index[u] => t = u
    BY <2>2
  <2>5. \A x \in T : \E t \in Of(built, fault) : index[t] = x
    <3> SUFFICES ASSUME NEW x \in T PROVE \E t \in Of(built, fault) : index[t] = x
      OBVIOUS
    <3>1. <<x, fault>> \in Of(built, fault)
      BY <2>2
    <3>2. index[<<x, fault>>] = x
      BY <3>1
    <3> QED
      BY <3>1, <3>2
  <2> HIDE DEF index
  <2> QED
    BY <2>1, <2>3, <2>4, <2>5, AsManyAs
<1>7. IsFiniteSet(Of(built, "clean")) /\ Cardinality(Of(built, "clean")) = c
  <2> DEFINE T == 0 .. c - 1
             index == [t \in Of(built, "clean") |-> t[1]]
  <2>1. IsFiniteSet(T) /\ Cardinality(T) = c
    <3> HIDE DEF c
    <3>1. c \in Int /\ c - 1 \in Int /\ c >= 0
      BY <1>1
    <3>2. IsFiniteSet(0 .. c - 1) /\ Cardinality(0 .. c - 1) = IF 0 > c - 1 THEN 0 ELSE c - 1 - 0 + 1
      BY <3>1, FS_Interval
    <3> QED
      BY <3>1, <3>2
  <2>2. Of(built, "clean") = T \X {"clean"}
    BY <1>2, <1>3 DEF Of
  <2> HIDE DEF T
  <2>3. \A t \in Of(built, "clean") : index[t] \in T
    BY <2>2
  <2>4. \A t, u \in Of(built, "clean") : index[t] = index[u] => t = u
    BY <2>2
  <2>5. \A x \in T : \E t \in Of(built, "clean") : index[t] = x
    <3> SUFFICES ASSUME NEW x \in T PROVE \E t \in Of(built, "clean") : index[t] = x
      OBVIOUS
    <3>1. <<x, "clean">> \in Of(built, "clean")
      BY <2>2
    <3>2. index[<<x, "clean">>] = x
      BY <3>1
    <3> QED
      BY <3>1, <3>2
  <2> HIDE DEF index
  <2> QED
    BY <2>1, <2>3, <2>4, <2>5, AsManyAs
<1> QED
  BY <1>5, <1>6, <1>7 DEF Made

LEMMA AlreadyOrMore ==
    ASSUME NEW A, NEW B, IsFiniteSet(A), IsFiniteSet(B), A \cap B = {}
    PROVE  /\ IsFiniteSet(A \cup B) /\ Cardinality(A) \in Nat /\ Cardinality(B) \in Nat
           /\ Cardinality(A \cup B) = Cardinality(A) + Cardinality(B)
<1>1. IsFiniteSet(A \cup B)
  BY FS_Union
<1>2. Cardinality(A \cup B) = Cardinality(A) + Cardinality(B) - Cardinality(A \cap B)
  BY FS_Union
<1>3. Cardinality(A \cap B) = 0
  BY FS_EmptySet
<1>4. Cardinality(A) \in Nat /\ Cardinality(B) \in Nat
  BY FS_CardinalityType
<1> QED
  BY <1>1, <1>2, <1>3, <1>4

Having(set, kinds) == {t \in set : t[2] \in kinds}

LEMMA OneKindMore ==
    ASSUME NEW set, NEW kinds, NEW kind, kind \notin kinds, IsFiniteSet(Having(set, kinds)),
           IsFiniteSet(Of(set, kind))
    PROVE  /\ IsFiniteSet(Having(set, kinds \cup {kind}))
           /\ Cardinality(Having(set, kinds)) \in Nat /\ Cardinality(Of(set, kind)) \in Nat
           /\ Cardinality(Having(set, kinds \cup {kind}))
                = Cardinality(Having(set, kinds)) + Cardinality(Of(set, kind))
<1>1. Having(set, kinds \cup {kind}) = Having(set, kinds) \cup Of(set, kind)
  BY DEF Having, Of
<1>2. Having(set, kinds) \cap Of(set, kind) = {}
  BY DEF Having, Of
<1> QED
  BY <1>1, <1>2, AlreadyOrMore

\* All kinds together: the clean runs, and six times the quota.
LEMMA BuiltIsFinite ==
    ASSUME NEW n \in Nat \ {0}
    PROVE  /\ IsFiniteSet(BuildDataset(n))
           /\ Cardinality(BuildDataset(n)) = CleanQuota(n) + 6 * TypeQuota(n)
<1> DEFINE built == BuildDataset(n)
           q == TypeQuota(n)
           c == CleanQuota(n)
           K1 == {"clean"} \cup {"wrong_tool"}
           K2 == K1 \cup {"hallucinated_argument"}
           K3 == K2 \cup {"skipped_precondition"}
           K4 == K3 \cup {"ignored_observation"}
           K5 == K4 \cup {"premature_stop"}
           K6 == K5 \cup {"unsupported_claim"}
           Num(kinds, m) == IsFiniteSet(Having(built, kinds)) /\ Cardinality(Having(built, kinds)) = m
<1>1. /\ built \subseteq Nat \X Made
      /\ \A kind \in Made : IsFiniteSet(Of(built, kind))
      /\ \A fault \in FailureTypes : Cardinality(Of(built, fault)) = q
      /\ Cardinality(Of(built, "clean")) = c
  BY BuiltIsBalanced
<1>2. q \in Nat /\ c \in Nat
  BY Quotas
<1> HIDE DEF built, q, c
<1>3. Num({"clean"}, c)
  <2>1. Having(built, {"clean"}) = Of(built, "clean")
    BY DEF Having, Of
  <2> QED
    BY <1>1, <2>1 DEF Made
<1>4. ASSUME NEW kinds, NEW m, NEW kind \in FailureTypes, kind \notin kinds, Num(kinds, m)
      PROVE  Num(kinds \cup {kind}, m + q)
  BY <1>1, <1>4, OneKindMore DEF Made
<1>5. Num(K1, c + q)
  <2> HIDE DEF Num
  <2> QED
    BY <1>3, <1>4 DEF FailureTypes
<1>6. Num(K2, c + q + q)
  <2> HIDE DEF Num
  <2> QED
    BY <1>5, <1>4 DEF FailureTypes
<1>7. Num(K3, c + q + q + q)
  <2> HIDE DEF Num
  <2> QED
    BY <1>6, <1>4 DEF FailureTypes
<1>8. Num(K4, c + q + q + q + q)
  <2> HIDE DEF Num
  <2> QED
    BY <1>7, <1>4 DEF FailureTypes
<1>9. Num(K5, c + q + q + q + q + q)
  <2> HIDE DEF Num
  <2> QED
    BY <1>8, <1>4 DEF FailureTypes
<1>10. Num(K6, c + q + q + q + q + q + q)
  <2> HIDE DEF Num
  <2> QED
    BY <1>9, <1>4 DEF FailureTypes
<1>11. Having(built, K6) = built
  <2>1. Made = K6
    BY DEF Made, FailureTypes
  <2> HIDE DEF K6
  <2> QED
    BY <1>1, <2>1 DEF Having
<1>12. c + q + q + q + q + q + q = c + 6 * q
  BY <1>2
<1> HIDE DEF K6
<1> QED
  BY <1>10, <1>11, <1>12 DEF built, c, q

\* The clean runs of the faults that have none come in addition.
LEMMA SetIsFinite ==
    ASSUME NEW set, IsFiniteSet(set)
    PROVE  IsFiniteSet(MissingParents(set))
<1> DEFINE fault == [p \in MissingParents(set) |-> CHOOSE t \in Faulty(set) : p = <<t[1], "clean">>]
<1>1. \A p \in MissingParents(set) : \E t \in Faulty(set) : p = <<t[1], "clean">>
  BY DEF MissingParents
<1>2. \A p \in MissingParents(set) : fault[p] \in set /\ p = <<fault[p][1], "clean">>
  BY <1>1 DEF Faulty
<1>3. \A p, r \in MissingParents(set) : fault[p] = fault[r] => p = r
  BY <1>2
<1> HIDE DEF fault
<1> QED
  BY <1>2, <1>3, NoMoreThan

LEMMA ListedIsFinite == ASSUME JInv PROVE IsFiniteSet(listed) /\ listed \subseteq DOMAIN Catalogue
<1>1. /\ Now \in Command /\ listed = SetOf(Now) /\ IsFiniteSet(Now.source)
      /\ SetOf(Now) \subseteq DOMAIN Catalogue
  BY NowIsCommand, SetsAssumption DEF JInv, TodoListed, Now
<1>2. CASE Now.n = 0
  BY <1>1, <1>2 DEF SetOf
<1>3. CASE Now.n # 0
  <2>1. Now.n \in Nat \ {0}
    BY <1>1, <1>3 DEF Command
  <2>2. IsFiniteSet(BuildDataset(Now.n))
    BY <2>1, BuiltIsFinite
  <2>3. IsFiniteSet(BuildDataset(Now.n) \cup MissingParents(BuildDataset(Now.n)))
    BY <2>2, SetIsFinite, FS_Union
  <2> QED
    BY <1>1, <1>3, <2>2, <2>3 DEF SetOf
<1> QED
  BY <1>1, <1>2, <1>3
-----------------------------------------------------------------------------
(* What the readers of the verdicts hold *)

\* The rows of a judge that count.
Counted(j) == Paired(listed, RowsOf(rows, j))

LEMMA CountingRows ==
    ASSUME JInv, NEW j
    PROVE  /\ DOMAIN RowsOf(rows, j) = {i \in DOMAIN rows : rows[i].judge = j}
           /\ \A i \in DOMAIN RowsOf(rows, j) : RowsOf(rows, j)[i] = rows[i]
           /\ Counted(j) = {i \in DOMAIN rows : rows[i].judge = j /\ rows[i].id \in listed}
           /\ IsFiniteSet(Counted(j))
<1>1. /\ DOMAIN RowsOf(rows, j) = {i \in DOMAIN rows : rows[i].judge = j}
      /\ \A i \in DOMAIN RowsOf(rows, j) : RowsOf(rows, j)[i] = rows[i]
  BY DEF RowsOf
<1>2. Counted(j) = {i \in DOMAIN rows : rows[i].judge = j /\ rows[i].id \in listed}
  BY <1>1 DEF Counted, Paired
<1>3. IsFiniteSet(DOMAIN rows)
  <2>1. DOMAIN rows = 1 .. Len(rows) /\ Len(rows) \in Nat
    BY LenProperties DEF JInv, RowsWhole
  <2> QED
    BY <2>1, FS_Interval
<1>4. IsFiniteSet(Counted(j))
  BY <1>2, <1>3, Within
<1> QED
  BY <1>1, <1>2, <1>4

\* A trajectory that a judge has judged is held with the one verdict there is.
LEMMA HeldOnce ==
    ASSUME OInv, NEW j
    PROVE  /\ DOMAIN Held(rows, j) = {rows[i].id : i \in {k \in DOMAIN rows : rows[k].judge = j}}
           /\ \A i \in DOMAIN rows : rows[i].judge = j => Held(rows, j)[rows[i].id] = rows[i].verdict
<1> DEFINE own == {i \in DOMAIN rows : rows[i].judge = j}
           Latest(id) == CHOOSE i \in own : rows[i].id = id /\ \A k \in own : rows[k].id = id => k =< i
<1>1. Held(rows, j) = [id \in {rows[i].id : i \in own} |-> rows[Latest(id)].verdict]
  BY DEF Held
<1>2. ASSUME NEW i \in own PROVE Latest(rows[i].id) = i
  <2>1. \A k \in own : rows[k].id = rows[i].id => k = i
    BY DEF OInv, RowsOnce
  <2>2. DOMAIN rows \subseteq Nat
    BY LenProperties DEF OInv, JInv, RowsWhole
  <2> QED
    BY <2>1, <2>2
<1> HIDE DEF Latest
<1> QED
  BY <1>1, <1>2

\* Where a judge has judged all of the set, what is counted among its rows and among the
\* trajectories is the same.
LEMMA CountedAlike ==
    ASSUME OInv, NEW j, listed \subseteq DOMAIN Held(rows, j), NEW X, NEW Y,
           X \subseteq Counted(j), Y \subseteq listed, \A i \in Counted(j) : i \in X <=> rows[i].id \in Y
    PROVE  /\ IsFiniteSet(X) /\ IsFiniteSet(Y) /\ Cardinality(X) = Cardinality(Y)
           /\ Cardinality(X) \in Nat
<1> DEFINE id == [i \in X |-> rows[i].id]
<1>1. IsFiniteSet(Y)
  BY ListedIsFinite, Within DEF OInv
<1>2. Counted(j) = {i \in DOMAIN rows : rows[i].judge = j /\ rows[i].id \in listed}
  BY CountingRows DEF OInv
<1>3. \A i \in X : id[i] \in Y
  OBVIOUS
<1>4. \A i, k \in X : id[i] = id[k] => i = k
  BY <1>2 DEF OInv, RowsOnce
<1>5. \A t \in Y : \E i \in X : id[i] = t
  <2> SUFFICES ASSUME NEW t \in Y PROVE \E i \in X : id[i] = t
    OBVIOUS
  <2>1. PICK i \in DOMAIN rows : rows[i].judge = j /\ rows[i].id = t
    <3>1. DOMAIN Held(rows, j) = {rows[i].id : i \in {k \in DOMAIN rows : rows[k].judge = j}}
      BY HeldOnce
    <3> QED
      BY <3>1
  <2>2. i \in X
    BY <1>2, <2>1
  <2> QED
    BY <2>1, <2>2
<1> HIDE DEF id
<1> QED
  BY <1>1, <1>3, <1>4, <1>5, AsManyAs, FS_CardinalityType

-----------------------------------------------------------------------------
(* The balance of a set *)

\* A set that was built has its quotas, with or without the clean runs that were missing.
LEMMA ListedIsBalanced ==
    ASSUME JInv, Now.n > 0
    PROVE  /\ listed \subseteq Nat \X Made
           /\ \A fault \in FailureTypes : Cardinality(Of(listed, fault)) = TypeQuota(Now.n)
           /\ Now.parents => \A t \in Faulty(listed) : <<t[1], "clean">> \in listed
           /\ ~ Now.parents => /\ Cardinality(Of(listed, "clean")) = CleanQuota(Now.n)
                               /\ Now.n >= 10 => Cardinality(listed) \in Now.n - 5 .. Now.n
<1> DEFINE built == BuildDataset(Now.n)
<1>1. Now \in Command /\ listed = SetOf(Now)
  BY NowIsCommand DEF JInv, TodoListed, Now
<1>2. Now.n \in Nat \ {0} /\ Now.parents \in BOOLEAN
  BY <1>1 DEF Command
<1>3. listed = IF Now.parents THEN built \cup MissingParents(built) ELSE built
  BY <1>1, <1>2 DEF SetOf
<1>4. /\ built \subseteq Nat \X Made
      /\ \A fault \in FailureTypes : Cardinality(Of(built, fault)) = TypeQuota(Now.n)
      /\ Cardinality(Of(built, "clean")) = CleanQuota(Now.n)
  BY <1>2, BuiltIsBalanced
<1>5. Cardinality(built) = CleanQuota(Now.n) + 6 * TypeQuota(Now.n)
  BY <1>2, BuiltIsFinite
<1> HIDE DEF built
<1>6. \A p \in MissingParents(built) : p = <<p[1], p[2]>> /\ p[1] \in Nat /\ p[2] = "clean"
  BY <1>4 DEF MissingParents, Faulty
<1>7. "clean" \notin FailureTypes
  BY DEF FailureTypes
<1>8. listed \subseteq Nat \X Made
  BY <1>3, <1>4, <1>6 DEF Made
<1>9. \A fault \in FailureTypes : Of(listed, fault) = Of(built, fault)
  BY <1>3, <1>6, <1>7 DEF Of
<1>10. Faulty(listed) = Faulty(built)
  BY <1>3, <1>6, <1>7 DEF Faulty
<1>11. Now.parents => \A t \in Faulty(listed) : <<t[1], "clean">> \in listed
  BY <1>3, <1>10 DEF MissingParents
<1>12. Now.n >= 10 => CleanQuota(Now.n) + 6 * TypeQuota(Now.n) \in Now.n - 5 .. Now.n
  BY <1>2, Quotas
<1> QED
  BY <1>2, <1>3, <1>4, <1>5, <1>8, <1>9, <1>11, <1>12

\* Among what is made the faults are those with a type.
LEMMA FaultsAreTyped ==
    ASSUME JInv, listed \subseteq Nat \X Made
    PROVE  \A t \in listed : /\ Catalogue[t].instance = t[1]
                             /\ Catalogue[t].faulty <=> t[2] \in FailureTypes
                             /\ \A type \in FailureTypes : Catalogue[t].type = type <=> t[2] = type
<1> SUFFICES ASSUME NEW t \in listed
             PROVE  /\ Catalogue[t].instance = t[1]
                    /\ Catalogue[t].faulty <=> t[2] \in FailureTypes
                    /\ \A type \in FailureTypes : Catalogue[t].type = type <=> t[2] = type
  OBVIOUS
<1>1. t \in DOMAIN Catalogue /\ t[2] \in Made
  BY ListedIsFinite
<1>2. /\ Catalogue[t].instance = t[1]
      /\ t[2] \in FailureTypes => Catalogue[t].faulty /\ Catalogue[t].type = t[2]
      /\ t[2] = "clean" => ~ Catalogue[t].faulty
      /\ Catalogue[t].type # "none" => Catalogue[t].faulty
  BY <1>1, LabelsAssumption
<1>3. "clean" \notin FailureTypes /\ "none" \notin FailureTypes
  BY DEF FailureTypes
<1> QED
  BY <1>1, <1>2, <1>3 DEF Made

LEMMA LateParents ==
    ASSUME JInv, listed \subseteq Nat \X Made
    PROVE  Design([t \in listed |-> Catalogue[t]]).lateParents = Cardinality(MissingParents(listed))
<1> DEFINE label  == [t \in listed |-> Catalogue[t]]
           faults == {t \in listed : label[t].faulty}
           paired == {p[1] : p \in Pairs(label)}
           late   == {label[t].instance : t \in faults} \ {label[t].instance : t \in paired}
<1>1. Design(label).lateParents = Cardinality(late)
  BY DEF Design
<1>2. \A t \in listed : label[t].instance = t[1] /\ (label[t].faulty <=> t[2] \in FailureTypes)
  BY FaultsAreTyped
<1>3. faults = Faulty(listed)
  BY <1>2 DEF Faulty
<1>4. paired = {t \in Faulty(listed) : <<t[1], "clean">> \in listed}
  <2>1. Pairs(label) = {p \in listed \X listed : label[p[1]].faulty /\ p[2] = <<label[p[1]].instance, "clean">>}
    BY DEF Pairs
  <2> HIDE DEF label
  <2>2. \A p \in Pairs(label) : p[1] \in Faulty(listed) /\ <<p[1][1], "clean">> \in listed
    BY <1>2, <2>1 DEF Faulty
  <2>3. \A t \in Faulty(listed) : <<t[1], "clean">> \in listed => <<t, <<t[1], "clean">>>> \in Pairs(label)
    BY <1>2, <2>1 DEF Faulty
  <2>4. paired \subseteq {t \in Faulty(listed) : <<t[1], "clean">> \in listed}
    BY <2>2
  <2>5. \A t \in Faulty(listed) : <<t[1], "clean">> \in listed => t \in paired
    <3> SUFFICES ASSUME NEW t \in Faulty(listed), <<t[1], "clean">> \in listed PROVE t \in paired
      OBVIOUS
    <3>1. <<t, <<t[1], "clean">>>> \in Pairs(label) /\ <<t, <<t[1], "clean">>>>[1] = t
      BY <2>3
    <3> HIDE DEF Pairs
    <3> QED
      BY <3>1
  <2> QED
    BY <2>4, <2>5
<1>5. \A i : i \in late <=> \E t \in Faulty(listed) : t[1] = i /\ <<i, "clean">> \notin listed
  <2> HIDE DEF label, faults, paired
  <2>1. \A t \in faults : label[t].instance = t[1]
    BY <1>2, <1>3 DEF Faulty
  <2>2. \A t \in paired : label[t].instance = t[1]
    BY <1>2, <1>4 DEF Faulty
  <2> QED
    BY <1>3, <1>4, <2>1, <2>2
<1> HIDE DEF late
<1> DEFINE parent == [i \in late |-> <<i, "clean">>]
<1>6. \A i \in late : parent[i] \in MissingParents(listed)
  BY <1>5 DEF MissingParents
<1>7. \A i, k \in late : parent[i] = parent[k] => i = k
  OBVIOUS
<1>8. \A p \in MissingParents(listed) : \E i \in late : parent[i] = p
  BY <1>5 DEF MissingParents
<1>9. IsFiniteSet(MissingParents(listed))
  BY ListedIsFinite, SetIsFinite
<1> HIDE DEF parent
<1>10. Cardinality(late) = Cardinality(MissingParents(listed))
  BY <1>6, <1>7, <1>8, <1>9, AsManyAs
<1> QED
  BY <1>1, <1>10

\* For any size asked for a built set has its quotas, each fault its clean run where they were
\* asked for, and no more than was asked for; and the table of a judge that judged all of it has
\* the quota in every row (build_dataset, missing_parents, per_type_recall).
THEOREM SetsAreBalanced == ASSUME NamedOnce PROVE Spec => []SetIsBalanced
<1>1. OInv => SetIsBalanced
  <2> SUFFICES ASSUME OInv, Now.n > 0 PROVE SetIsBalanced
    BY DEF SetIsBalanced
  <2> DEFINE label == [t \in listed |-> Catalogue[t]]
             quota == TypeQuota(Now.n)
  <2>1. /\ listed \subseteq Nat \X Made
        /\ \A fault \in FailureTypes : Cardinality(Of(listed, fault)) = quota
        /\ Now.parents => \A t \in Faulty(listed) : <<t[1], "clean">> \in listed
        /\ ~ Now.parents => /\ Cardinality(Of(listed, "clean")) = CleanQuota(Now.n)
                            /\ Now.n >= 10 => Cardinality(listed) \in Now.n - 5 .. Now.n
    BY ListedIsBalanced DEF OInv
  <2>2. {t[1] : t \in listed} \subseteq InstancesFor(listed)
    <3> DEFINE S == {t[1] : t \in listed}
    <3>1. S \in SUBSET Nat
      BY <2>1
    <3>2. IsFiniteSet(S)
      <4> DEFINE of == [i \in S |-> CHOOSE t \in listed : t[1] = i]
      <4>1. \A i \in S : of[i] \in listed /\ of[i][1] = i
        OBVIOUS
      <4> HIDE DEF of
      <4>2. \A i, k \in S : of[i] = of[k] => i = k
        BY <4>1
      <4>3. IsFiniteSet(listed)
        BY ListedIsFinite DEF OInv
      <4> HIDE DEF S
      <4> QED
        BY <4>1, <4>2, <4>3, NoMoreThan
    <3>3. ASSUME NEW i \in S PROVE i \in 0 .. Max(S)
      <4> HIDE DEF S
      <4>1. \E x \in S : \A y \in S : y =< x
        BY <3>1, <3>2, <3>3, GreatestOf
      <4>2. Max(S) \in S /\ \A y \in S : Max(S) >= y
        BY <3>1, <4>1 DEF Max
      <4> QED
        BY <3>1, <4>2
    <3> QED
      BY <3>3 DEF InstancesFor
  <2>3. ASSUME listed \subseteq DOMAIN Held(rows, judge), NEW fault \in FailureTypes
        PROVE  PerType(Catalogue, listed, RowsOf(rows, judge))[fault].of = quota
    <3> DEFINE own == RowsOf(rows, judge)
               hosts == {i \in Paired(listed, own) : Catalogue[own[i].id].type = fault}
    <3>1. PerType(Catalogue, listed, own)[fault].of = Cardinality(hosts)
      BY DEF PerType
    <3>2. hosts \subseteq Counted(judge) /\ Of(listed, fault) \subseteq listed
      BY DEF Counted, Of
    <3>3. \A i \in Counted(judge) : i \in hosts <=> rows[i].id \in Of(listed, fault)
      <4> SUFFICES ASSUME NEW i \in Counted(judge) PROVE i \in hosts <=> rows[i].id \in Of(listed, fault)
        OBVIOUS
      <4>1. /\ i \in Paired(listed, own) /\ own[i] = rows[i] /\ rows[i].id \in listed
        BY CountingRows DEF Counted, Paired, OInv
      <4> HIDE DEF own
      <4>2. Catalogue[rows[i].id].type = fault <=> rows[i].id[2] = fault
        BY <2>1, <4>1, FaultsAreTyped DEF OInv
      <4> QED
        BY <4>1, <4>2 DEF Of
    <3> HIDE DEF hosts
    <3>4. Cardinality(hosts) = Cardinality(Of(listed, fault))
      BY <2>3, <3>2, <3>3, CountedAlike
    <3> QED
      BY <2>1, <3>1, <3>4
  <2>4. Design(label).lateParents = Cardinality(MissingParents(listed))
    BY <2>1, LateParents DEF OInv
  <2> QED
    BY <2>1, <2>2, <2>3, <2>4 DEF SetIsBalanced, Of
<1> QED
  BY <1>1, OnceInvariance, PTL
-----------------------------------------------------------------------------
(* The tables *)

\* What a row that counts is about.
LEMMA CountedFacts ==
    ASSUME JInv, NEW j, NEW i \in Counted(j)
    PROVE  /\ i \in DOMAIN rows /\ rows[i].judge = j /\ rows[i].id \in listed
           /\ RowsOf(rows, j)[i] = rows[i]
           /\ Catalogue[rows[i].id].faulty \in BOOLEAN /\ Catalogue[rows[i].id].correct \in BOOLEAN
           /\ Catalogue[rows[i].id].step \in Nat \cup {None}
           /\ Catalogue[rows[i].id].type \in FailureTypes \cup {"none"}
           /\ Catalogue[rows[i].id].type # "none" => Catalogue[rows[i].id].faulty
           /\ rows[i].verdict.faulty \in BOOLEAN /\ rows[i].verdict.step \in Nat \cup {None}
           /\ rows[i].verdict.type \in FailureTypes \cup {"none"}
           /\ rows[i].verdict.confidence \in 50 .. 100
<1>1. i \in DOMAIN rows /\ rows[i].judge = j /\ rows[i].id \in listed /\ RowsOf(rows, j)[i] = rows[i]
  BY CountingRows
<1>2. RowWhole(rows[i])
  BY <1>1 DEF JInv, RowsWhole
<1>3. rows[i].id \in DOMAIN Catalogue
  BY <1>2 DEF RowWhole
<1>4. rows[i].verdict \in Verdict /\ rows[i].verdict.confidence >= 50
  BY <1>2 DEF RowWhole, Whole
<1>5. /\ rows[i].verdict.faulty \in BOOLEAN /\ rows[i].verdict.step \in Nat \cup {None}
      /\ rows[i].verdict.type \in FailureTypes \cup {"none"}
      /\ rows[i].verdict.confidence \in 50 .. 100
  BY <1>4 DEF Verdict
<1>6. Catalogue[rows[i].id] \in Label
  BY <1>3, CatalogueAssumption
<1>7. Catalogue[rows[i].id].type # "none" => Catalogue[rows[i].id].faulty
  BY <1>3, LabelsAssumption
<1> QED
  BY <1>1, <1>5, <1>6, <1>7 DEF Label

LEMMA SumIsTotal == ASSUME NEW f PROVE Sum(f) = Total(f, DOMAIN f)
BY DEF Sum, Total

LEMMA TypesAreFinite == IsFiniteSet(FailureTypes) /\ IsFiniteSet(FailureTypes \cup {"missed"})
<1>1. \A a, b, c : IsFiniteSet({a, b, c})
  <2> TAKE a, b, c
  <2>1. IsFiniteSet({a})
    BY FS_Singleton
  <2>2. IsFiniteSet({a} \cup {b})
    BY <2>1, FS_AddElement
  <2>3. IsFiniteSet(({a} \cup {b}) \cup {c})
    BY <2>2, FS_AddElement
  <2>4. {a, b, c} = ({a} \cup {b}) \cup {c}
    OBVIOUS
  <2> QED
    BY <2>3, <2>4
<1>2. IsFiniteSet({"wrong_tool", "hallucinated_argument", "skipped_precondition"}
                    \cup {"ignored_observation", "premature_stop", "unsupported_claim"})
  BY <1>1, FS_Union
<1>3. FailureTypes = {"wrong_tool", "hallucinated_argument", "skipped_precondition"}
                    \cup {"ignored_observation", "premature_stop", "unsupported_claim"}
  BY DEF FailureTypes
<1>4. IsFiniteSet(FailureTypes)
  BY <1>2, <1>3
<1> QED
  BY <1>4, FS_AddElement

\* The rule engine is first, and no judge has two rows of a table.
LEMMA OneRowToAJudge ==
    ASSUME JInv
    PROVE  /\ \A p, q \in DOMAIN JudgeOrder(rows) : p # q => JudgeOrder(rows)[p] # JudgeOrder(rows)[q]
           /\ \A p \in DOMAIN JudgeOrder(rows) : JudgeOrder(rows)[p] = "programmatic" => p = 1
<1> DEFINE judges  == {rows[i].judge : i \in DOMAIN rows}
           Seen(j) == CHOOSE i \in DOMAIN rows :
                        rows[i].judge = j /\ \A h \in 1 .. i - 1 : rows[h].judge # j
           Before(j, h) == h # "programmatic" /\ (j = "programmatic" \/ Seen(j) < Seen(h))
           Ahead(h) == {j \in judges \ {h} : Before(j, h)}
           key == [j \in judges |-> IF j = "programmatic" THEN 0 ELSE Seen(j)]
           keys == {key[j] : j \in judges}
<1>1. DOMAIN rows = 1 .. Len(rows) /\ Len(rows) \in Nat
  BY LenProperties DEF JInv, RowsWhole
<1>2. \A j \in judges : Seen(j) \in DOMAIN rows /\ rows[Seen(j)].judge = j
  <2> SUFFICES ASSUME NEW j \in judges PROVE Seen(j) \in DOMAIN rows /\ rows[Seen(j)].judge = j
    OBVIOUS
  <2> DEFINE T == {i \in DOMAIN rows : rows[i].judge = j}
  <2>1. T \in SUBSET Nat /\ T # {}
    BY <1>1
  <2>2. PICK i \in T : \A k \in T : i =< k
    BY <2>1, LeastOf
  <2>3. \A h \in 1 .. i - 1 : rows[h].judge # j
    BY <1>1, <2>2
  <2> QED
    BY <2>2, <2>3
<1> HIDE DEF Seen
<1>3. \A j \in judges : key[j] \in Nat /\ (j # "programmatic" => key[j] = Seen(j) /\ key[j] > 0)
                        /\ (j = "programmatic" => key[j] = 0)
  BY <1>1, <1>2
<1>4. \A j, h \in judges : key[j] = key[h] => j = h
  <2> SUFFICES ASSUME NEW j \in judges, NEW h \in judges, key[j] = key[h] PROVE j = h
    OBVIOUS
  <2> HIDE DEF key, judges
  <2>1. CASE j = "programmatic" \/ h = "programmatic"
    BY <1>3, <2>1
  <2>2. CASE j # "programmatic" /\ h # "programmatic"
    <3>1. Seen(j) = Seen(h)
      BY <1>3, <2>2
    <3> QED
      BY <1>2, <3>1
  <2> QED
    BY <2>1, <2>2
<1>5. \A j, h \in judges : j \in Ahead(h) <=> key[j] < key[h]
  <2> SUFFICES ASSUME NEW j \in judges, NEW h \in judges PROVE j \in Ahead(h) <=> key[j] < key[h]
    OBVIOUS
  <2> HIDE DEF key, judges
  <2> QED
    BY <1>3, <1>4
<1> HIDE DEF key
<1>6. IsFiniteSet(judges)
  <2> DEFINE row == [j \in judges |-> Seen(j)]
  <2>1. \A j \in judges : row[j] \in DOMAIN rows
    BY <1>2
  <2>2. \A j, h \in judges : row[j] = row[h] => j = h
    BY <1>2
  <2>3. IsFiniteSet(DOMAIN rows)
    BY <1>1, FS_Interval
  <2> HIDE DEF row, judges
  <2> QED
    BY <2>1, <2>2, <2>3, NoMoreThan
<1> HIDE DEF judges
<1>7. \A h \in judges : Cardinality(Ahead(h)) = Cardinality({y \in keys : y < key[h]})
                        /\ IsFiniteSet(Ahead(h))
  <2> SUFFICES ASSUME NEW h \in judges
               PROVE  Cardinality(Ahead(h)) = Cardinality({y \in keys : y < key[h]}) /\ IsFiniteSet(Ahead(h))
    OBVIOUS
  <2> DEFINE below == {y \in keys : y < key[h]}
             of == [y \in below |-> CHOOSE j \in judges : key[j] = y]
  <2>1. IsFiniteSet(Ahead(h))
    BY <1>6, Within
  <2>2. \A y \in below : of[y] \in judges /\ key[of[y]] = y
    OBVIOUS
  <2> HIDE DEF of
  <2>3. \A y \in below : of[y] \in Ahead(h)
    BY <1>5, <2>2
  <2>4. \A y, z \in below : of[y] = of[z] => y = z
    BY <2>2
  <2>5. \A j \in Ahead(h) : \E y \in below : of[y] = j
    <3> SUFFICES ASSUME NEW j \in Ahead(h) PROVE \E y \in below : of[y] = j
      OBVIOUS
    <3>1. j \in judges /\ key[j] \in below
      BY <1>5
    <3>2. key[of[key[j]]] = key[j] /\ of[key[j]] \in judges
      BY <2>2, <3>1
    <3>3. of[key[j]] = j
      BY <1>4, <3>1, <3>2
    <3> QED
      BY <3>1, <3>3
  <2> HIDE DEF below, Ahead
  <2>6. Cardinality(below) = Cardinality(Ahead(h))
    BY <2>1, <2>3, <2>4, <2>5, AsManyAs
  <2> QED
    BY <2>1, <2>6 DEF below
<1>8. keys \in SUBSET Nat /\ IsFiniteSet(keys) /\ Cardinality(keys) = Cardinality(judges)
  <2> DEFINE of == [y \in keys |-> CHOOSE j \in judges : key[j] = y]
  <2>1. \A y \in keys : of[y] \in judges /\ key[of[y]] = y
    OBVIOUS
  <2> HIDE DEF of
  <2>2. \A y, z \in keys : of[y] = of[z] => y = z
    BY <2>1
  <2>3. \A j \in judges : \E y \in keys : of[y] = j
    BY <1>4, <2>1
  <2>4. keys \in SUBSET Nat
    BY <1>3
  <2>5. \A y \in keys : of[y] \in judges
    BY <2>1
  <2> HIDE DEF keys
  <2>6. IsFiniteSet(keys) /\ Cardinality(keys) = Cardinality(judges)
    BY <1>6, <2>2, <2>3, <2>5, AsManyAs
  <2> QED
    BY <2>4, <2>6
<1>9. DOMAIN JudgeOrder(rows) = 1 .. Cardinality(judges) /\ Cardinality(judges) \in Nat
  BY <1>6, FS_CardinalityType DEF JudgeOrder, judges
<1>10. ASSUME NEW p \in DOMAIN JudgeOrder(rows)
       PROVE  JudgeOrder(rows)[p] \in judges /\ Cardinality(Ahead(JudgeOrder(rows)[p])) = p - 1
  <2>1. p - 1 \in Nat /\ p - 1 < Cardinality(keys)
    BY <1>8, <1>9
  <2>2. PICK y \in keys : Cardinality({z \in keys : z < y}) = p - 1
    <3> HIDE DEF keys
    <3> QED
      BY <1>8, <2>1, OneWithSoManyBelow
  <2>3. PICK h \in judges : key[h] = y
    OBVIOUS
  <2>4. Cardinality(Ahead(h)) = p - 1
    BY <1>7, <2>2, <2>3
  <2>5. JudgeOrder(rows)[p] = CHOOSE k \in judges : Cardinality(Ahead(k)) = p - 1
    BY <1>9 DEF JudgeOrder, judges, Seen
  <2> HIDE DEF Ahead
  <2> QED
    BY <2>4, <2>5
<1> HIDE DEF Ahead
<1>11. \A p, q \in DOMAIN JudgeOrder(rows) : p # q => JudgeOrder(rows)[p] # JudgeOrder(rows)[q]
  <2> SUFFICES ASSUME NEW p \in DOMAIN JudgeOrder(rows), NEW q \in DOMAIN JudgeOrder(rows),
                      JudgeOrder(rows)[p] = JudgeOrder(rows)[q]
               PROVE  p = q
    OBVIOUS
  <2>1. p - 1 = q - 1 /\ p \in Int /\ q \in Int
    BY <1>9, <1>10
  <2> QED
    BY <2>1
<1>12. ASSUME NEW p \in DOMAIN JudgeOrder(rows), JudgeOrder(rows)[p] = "programmatic" PROVE p = 1
  <2>1. Ahead("programmatic") = {}
    BY DEF Ahead
  <2>2. Cardinality(Ahead("programmatic")) = 0
    BY <2>1, FS_EmptySet
  <2>3. p - 1 = 0 /\ p \in Int
    BY <1>9, <1>10, <1>12, <2>2
  <2> QED
    BY <2>3
<1> QED
  BY <1>11, <1>12

\* The scores of a judge.
LEMMA ScoresAddUp ==
    ASSUME OInv, NEW j
    PROVE  LET s == Scores(Catalogue, listed, RowsOf(rows, j)) IN
             /\ s.n =< Cardinality(listed)
             /\ s.silent + s.loud + s.clean = s.n
             /\ s.silentCaught + s.loudCaught = s.truePositive
             /\ s.truePositive + s.falseNegative = s.silent + s.loud
             /\ s.falsePositive =< s.clean
             /\ s.stepExact =< s.stepWithinOne /\ s.stepWithinOne =< s.stepScored
             /\ s.stepScored =< s.truePositive
<1> DEFINE own       == RowsOf(rows, j)
           pairs     == Paired(listed, own)
           s         == Scores(Catalogue, listed, own)
           flagged   == {i \in pairs : own[i].verdict.faulty}
           faulty    == {i \in pairs : Catalogue[own[i].id].faulty}
           silent    == {i \in pairs : Silent(Catalogue[own[i].id])}
           loud      == {i \in pairs : Loud(Catalogue[own[i].id])}
           localised == {i \in flagged \cap faulty :
                            Catalogue[own[i].id].step # None /\ own[i].verdict.step # None}
           exact     == {i \in localised : own[i].verdict.step = Catalogue[own[i].id].step}
           withinOne == {i \in localised : own[i].verdict.step - Catalogue[own[i].id].step \in -1 .. 1}
<1>1. /\ s.n = Cardinality(pairs)
      /\ s.truePositive = Cardinality(flagged \cap faulty)
      /\ s.falsePositive = Cardinality(flagged \ faulty)
      /\ s.falseNegative = Cardinality(faulty \ flagged)
      /\ s.silent = Cardinality(silent) /\ s.silentCaught = Cardinality(silent \cap flagged)
      /\ s.loud = Cardinality(loud) /\ s.loudCaught = Cardinality(loud \cap flagged)
      /\ s.clean = Cardinality(pairs \ faulty)
      /\ s.stepScored = Cardinality(localised)
      /\ s.stepExact = Cardinality(exact) /\ s.stepWithinOne = Cardinality(withinOne)
  BY DEF Scores
<1>2. pairs = Counted(j)
  BY DEF Counted
<1>3. IsFiniteSet(pairs)
  BY <1>2, CountingRows DEF OInv
<1>4. flagged \subseteq pairs /\ faulty \subseteq pairs
  OBVIOUS
<1>5. silent \cup loud = faulty /\ silent \cap loud = {}
  BY DEF Silent, Loud
<1>6. localised \subseteq flagged \cap faulty /\ withinOne \subseteq localised
  OBVIOUS
<1>7. exact \subseteq withinOne
  <2> SUFFICES ASSUME NEW i \in exact PROVE i \in withinOne
    OBVIOUS
  <2>1. own[i] = rows[i] /\ rows[i].verdict.step \in Nat \cup {None}
    BY <1>2, CountedFacts DEF OInv
  <2>2. own[i].verdict.step - Catalogue[own[i].id].step \in -1 .. 1
    BY <2>1 DEF None
  <2> QED
    BY <2>2
<1>8. Cardinality(pairs) =< Cardinality(listed)
  <2> DEFINE id == [i \in Counted(j) |-> rows[i].id]
  <2>1. \A i \in Counted(j) : id[i] \in listed
    BY CountedFacts DEF OInv
  <2>2. \A i, k \in Counted(j) : id[i] = id[k] => i = k
    BY CountedFacts DEF OInv, RowsOnce
  <2>3. IsFiniteSet(listed)
    BY ListedIsFinite DEF OInv
  <2> HIDE DEF id, pairs
  <2> QED
    BY <1>2, <2>1, <2>2, <2>3, NoMoreThan
<1> HIDE DEF s, pairs, flagged, faulty, silent, loud, localised, exact, withinOne
<1>9. IsFiniteSet(faulty) /\ IsFiniteSet(pairs \ faulty) /\ IsFiniteSet(flagged \cap faulty)
  BY <1>3, <1>4, Within
<1>10. Cardinality(pairs) = Cardinality(faulty) + Cardinality(pairs \ faulty)
  BY <1>3, <1>4, Parts
<1>11. Cardinality(faulty) = Cardinality(silent) + Cardinality(loud)
  BY <1>5, <1>9, Parts
<1>12. Cardinality(faulty) = Cardinality(flagged \cap faulty) + Cardinality(faulty \ flagged)
  BY <1>9, Parts
<1>13. Cardinality(flagged \cap faulty) = Cardinality(silent \cap flagged) + Cardinality(loud \cap flagged)
  BY <1>5, <1>9, Parts
<1>14. /\ Cardinality(pairs \ faulty) \in Nat /\ Cardinality(faulty \ flagged) \in Nat
       /\ Cardinality(silent) \in Nat /\ Cardinality(loud) \in Nat
  BY <1>4, <1>5, <1>9, Within
<1>15. Cardinality(flagged \ faulty) =< Cardinality(pairs \ faulty)
  <2>1. flagged \ faulty \subseteq pairs \ faulty
    BY <1>4
  <2> QED
    BY <1>9, <2>1, Within
<1>16. IsFiniteSet(localised) /\ Cardinality(localised) =< Cardinality(flagged \cap faulty)
  BY <1>6, <1>9, Within
<1>17. IsFiniteSet(withinOne) /\ Cardinality(withinOne) =< Cardinality(localised)
  BY <1>6, <1>16, Within
<1>18. Cardinality(exact) =< Cardinality(withinOne)
  BY <1>7, <1>17, Within
<1>19. s.silent + s.loud + s.clean = s.n
  BY <1>1, <1>10, <1>11, <1>14
<1>20. s.silentCaught + s.loudCaught = s.truePositive
  BY <1>1, <1>13
<1>21. s.truePositive + s.falseNegative = s.silent + s.loud
  BY <1>1, <1>11, <1>12, <1>14
<1> QED
  BY <1>1, <1>8, <1>15, <1>16, <1>17, <1>18, <1>19, <1>20, <1>21 DEF s

\* The table of types and the confusion matrix.
LEMMA TypesAddUp ==
    ASSUME JInv, NEW j
    PROVE  LET s == Scores(Catalogue, listed, RowsOf(rows, j))
               c == Confusion(Catalogue, listed, RowsOf(rows, j))
               k == PerType(Catalogue, listed, RowsOf(rows, j))
           IN  /\ Sum([type \in FailureTypes |-> k[type].of]) =< s.silent + s.loud
               /\ \A type \in FailureTypes :
                    /\ Sum(c[type]) = k[type].of
                    /\ Sum(c[type]) - c[type]["missed"] =< k[type].caught
<1> DEFINE own     == RowsOf(rows, j)
           pairs   == Paired(listed, own)
           s       == Scores(Catalogue, listed, own)
           c       == Confusion(Catalogue, listed, own)
           k       == PerType(Catalogue, listed, own)
           faulty  == {i \in pairs : Catalogue[own[i].id].faulty}
           silent  == {i \in pairs : Silent(Catalogue[own[i].id])}
           loud    == {i \in pairs : Loud(Catalogue[own[i].id])}
           Type(i) == Catalogue[own[i].id].type
           Said(i) == IF own[i].verdict.faulty /\ own[i].verdict.type # "none"
                      THEN own[i].verdict.type ELSE "missed"
           Hosts(type) == {i \in pairs : Type(i) = type}
<1>1. pairs = Counted(j) /\ IsFiniteSet(pairs)
  BY CountingRows DEF Counted
<1>2. \A i \in pairs : /\ own[i] = rows[i]
                       /\ Type(i) \in FailureTypes \cup {"none"}
                       /\ Type(i) # "none" => Catalogue[own[i].id].faulty
                       /\ own[i].verdict.type \in FailureTypes \cup {"none"}
  BY <1>1, CountedFacts
<1>3. "none" \notin FailureTypes /\ "missed" \notin FailureTypes
  BY DEF FailureTypes
<1>4. Sum([type \in FailureTypes |-> k[type].of]) =< s.silent + s.loud
  <2> DEFINE f == [type \in FailureTypes |-> k[type].of]
             typed == {i \in pairs : Type(i) \in FailureTypes}
             value == [i \in pairs |-> Type(i)]
  <2>1. \A type \in FailureTypes : f[type] = Cardinality(WithValue(value, pairs, type))
    <3>1. \A type \in FailureTypes : k[type].of = Cardinality(Hosts(type))
      BY DEF PerType
    <3>2. \A type \in FailureTypes : Hosts(type) = WithValue(value, pairs, type)
      BY DEF WithValue
    <3> QED
      BY <3>1, <3>2
  <2>2. typed = WithValueIn(value, pairs, FailureTypes)
    BY DEF WithValueIn
  <2>3. Sum(f) = Total(f, FailureTypes)
    BY SumIsTotal
  <2>4. typed \subseteq faulty /\ silent \cup loud = faulty /\ silent \cap loud = {} /\ faulty \subseteq pairs
    BY <1>2, <1>3 DEF Silent, Loud
  <2>5. s.silent = Cardinality(silent) /\ s.loud = Cardinality(loud)
    BY DEF Scores
  <2> HIDE DEF f, typed, value, pairs, faulty, silent, loud, s
  <2>6. Total(f, FailureTypes) = Cardinality(typed)
    BY <1>1, <2>1, <2>2, TypesAreFinite, CountedByValue
  <2>7. IsFiniteSet(faulty) /\ Cardinality(typed) =< Cardinality(faulty)
    BY <1>1, <2>4, Within
  <2>8. Cardinality(faulty) = Cardinality(silent) + Cardinality(loud)
    BY <2>4, <2>7, Parts
  <2>9. Sum(f) =< s.silent + s.loud
    BY <2>3, <2>5, <2>6, <2>7, <2>8
  <2> QED
    BY <2>9 DEF f
<1>5. ASSUME NEW type \in FailureTypes
      PROVE  Sum(c[type]) = k[type].of /\ Sum(c[type]) - c[type]["missed"] =< k[type].caught
  <2> DEFINE hosts  == Hosts(type)
             all    == FailureTypes \cup {"missed"}
             value  == [i \in hosts |-> Said(i)]
             missed == {i \in hosts : value[i] = "missed"}
             caught == {i \in hosts : own[i].verdict.faulty}
  <2>1. k[type].of = Cardinality(hosts) /\ k[type].caught = Cardinality(caught)
    BY DEF PerType
  <2>2. /\ DOMAIN c[type] = all
        /\ \A predicted \in all : c[type][predicted] = Cardinality(WithValue(value, hosts, predicted))
    <3>1. c[type] = [predicted \in all |-> Cardinality({i \in pairs :
                        /\ Catalogue[own[i].id].faulty /\ Catalogue[own[i].id].type = type
                        /\ predicted = Said(i)})]
      BY DEF Confusion
    <3>2. ASSUME NEW predicted \in all
          PROVE  {i \in pairs : /\ Catalogue[own[i].id].faulty /\ Catalogue[own[i].id].type = type
                                /\ predicted = Said(i)} = WithValue(value, hosts, predicted)
      <4> HIDE DEF pairs, own
      <4> QED
        BY <1>2, <1>3 DEF WithValue
    <3> HIDE DEF pairs, own, hosts, value
    <3> QED
      BY <3>1, <3>2
  <2>3. \A i \in hosts : value[i] \in all
    BY <1>2
  <2>4. hosts \subseteq pairs /\ hosts \ missed \subseteq caught /\ caught \subseteq hosts
        /\ missed \cup (hosts \ missed) = hosts
    <3>1. \A i \in hosts : value[i] # "missed" => own[i].verdict.faulty
      OBVIOUS
    <3> HIDE DEF value
    <3> QED
      BY <3>1
  <2> HIDE DEF c, k, hosts, all, value, caught, pairs
  <2>5. IsFiniteSet(hosts) /\ IsFiniteSet(caught)
    <3>1. IsFiniteSet(hosts)
      BY <1>1, <2>4, Within
    <3> QED
      BY <2>4, <3>1, Within
  <2>6. Total(c[type], all) = Cardinality(hosts)
    <3>1. WithValueIn(value, hosts, all) = hosts
      BY <2>3 DEF WithValueIn
    <3>2. IsFiniteSet(all)
      BY TypesAreFinite DEF all
    <3> QED
      BY <2>2, <2>5, <3>1, <3>2, CountedByValue
  <2>7. Sum(c[type]) = Cardinality(hosts)
    BY <2>2, <2>6, SumIsTotal
  <2>8. c[type]["missed"] = Cardinality(missed)
    BY <2>2 DEF all, WithValue
  <2> HIDE DEF missed
  <2>9. Cardinality(hosts) = Cardinality(missed) + Cardinality(hosts \ missed)
        /\ Cardinality(missed) \in Nat /\ Cardinality(hosts \ missed) \in Nat
    <3>1. missed \cap (hosts \ missed) = {}
      OBVIOUS
    <3> QED
      BY <2>4, <2>5, <3>1, Parts
  <2>10. Cardinality(hosts \ missed) =< Cardinality(caught)
    BY <2>4, <2>5, Within
  <2> QED
    BY <2>1, <2>7, <2>8, <2>9, <2>10
<1> QED
  BY <1>4, <1>5

\* The calibration bins: a confidence, at least a half, is in one of them.
LEMMA OneBin ==
    ASSUME NEW c \in 50 .. 100, NEW bin \in 0 .. 9
    PROVE  /\ BinOf(c) = (c + 9) \div 10 - 1 /\ BinOf(c) \in 0 .. 9
           /\ (10 * bin < c /\ c =< 10 * (bin + 1)) <=> BinOf(c) = bin
           /\ ((10 * bin < c /\ c =< 10 * (bin + 1)) \/ (bin = 0 /\ c = 0)) <=> BinOf(c) = bin
<1> DEFINE b == (c + 9) \div 10 - 1
<1>1. b \in Int /\ 10 * (b + 1) =< c + 9 /\ c + 9 < 10 * (b + 2)
  OBVIOUS
<1>2. BinOf(c) = b /\ b \in 0 .. 9
  BY <1>1 DEF BinOf
<1> HIDE DEF b
<1>3. (10 * bin < c /\ c =< 10 * (bin + 1)) <=> b = bin
  BY <1>1
<1>4. c # 0
  OBVIOUS
<1> QED
  BY <1>2, <1>3, <1>4 DEF b

LEMMA BinsAddUp ==
    ASSUME JInv, NEW j
    PROVE  LET own  == RowsOf(rows, j)
               s    == Scores(Catalogue, listed, own)
               bins == Bins(Catalogue, listed, own)
           IN  /\ Sum([bin \in 0 .. 9 |-> bins[bin].of]) = s.n
               /\ Sum([bin \in 0 .. 9 |-> bins[bin].right]) = s.n - s.falsePositive - s.falseNegative
               /\ Curve(Catalogue, listed, own) = {bin \in 0 .. 9 : bins[bin].of > 0}
<1> DEFINE own     == RowsOf(rows, j)
           pairs   == Paired(listed, own)
           s       == Scores(Catalogue, listed, own)
           bins    == Bins(Catalogue, listed, own)
           flagged == {i \in pairs : own[i].verdict.faulty}
           faulty  == {i \in pairs : Catalogue[own[i].id].faulty}
           right   == {i \in pairs : Right(Catalogue, own[i])}
           value   == [i \in pairs |-> BinOf(own[i].verdict.confidence)]
           of      == [bin \in 0 .. 9 |-> bins[bin].of]
           well    == [bin \in 0 .. 9 |-> bins[bin].right]
           In(c, bin) == (10 * bin < c /\ c =< 10 * (bin + 1)) \/ (bin = 0 /\ c = 0)
           Members(bin) == {i \in pairs : In(own[i].verdict.confidence, bin)}
<1>1. pairs = Counted(j) /\ IsFiniteSet(pairs)
  BY CountingRows DEF Counted
<1>2. \A i \in pairs : /\ own[i].verdict.confidence \in 50 .. 100
                       /\ own[i].verdict.faulty \in BOOLEAN /\ Catalogue[own[i].id].faulty \in BOOLEAN
  BY <1>1, CountedFacts
<1>3. /\ s.n = Cardinality(pairs) /\ s.falsePositive = Cardinality(flagged \ faulty)
      /\ s.falseNegative = Cardinality(faulty \ flagged)
  BY DEF Scores
<1>4. \A bin \in 0 .. 9 : /\ bins[bin].of = Cardinality(Members(bin))
                          /\ bins[bin].right = Cardinality({i \in Members(bin) : Right(Catalogue, own[i])})
  BY DEF Bins
<1>5. Curve(Catalogue, listed, own) =
        {bin \in 0 .. 9 : \E i \in pairs :
            10 * bin < own[i].verdict.confidence /\ own[i].verdict.confidence =< 10 * (bin + 1)}
  BY DEF Curve
<1>6. right \subseteq pairs /\ \A i \in pairs : i \in right <=> Right(Catalogue, own[i])
  OBVIOUS
<1>7. /\ flagged \subseteq pairs /\ faulty \subseteq pairs
      /\ \A i \in pairs : i \in right <=> (i \in flagged <=> i \in faulty)
  BY <1>2 DEF Right
<1> HIDE DEF own, pairs, s, bins, right, flagged, faulty
<1>8. \A bin \in 0 .. 9 : Members(bin) = WithValue(value, pairs, bin)
  <2> SUFFICES ASSUME NEW bin \in 0 .. 9 PROVE Members(bin) = WithValue(value, pairs, bin)
    OBVIOUS
  <2>1. \A i \in pairs : In(own[i].verdict.confidence, bin) <=> value[i] = bin
    BY <1>2, OneBin
  <2> HIDE DEF In, value
  <2> QED
    BY <2>1 DEF WithValue
<1>9. \A i \in pairs : value[i] \in 0 .. 9
  <2> SUFFICES ASSUME NEW i \in pairs PROVE value[i] \in 0 .. 9
    OBVIOUS
  <2>1. 0 \in 0 .. 9
    OBVIOUS
  <2>2. BinOf(own[i].verdict.confidence) \in 0 .. 9
    BY <1>2, <2>1, OneBin
  <2> QED
    BY <2>2
<1>10. IsFiniteSet(0 .. 9)
  <2>1. 0 \in Int /\ 9 \in Int
    OBVIOUS
  <2> QED
    BY <2>1, FS_Interval
<1>11. Sum(of) = s.n
  <2>1. Sum(of) = Total(of, 0 .. 9)
    BY SumIsTotal
  <2>2. \A bin \in 0 .. 9 : of[bin] = Cardinality(WithValue(value, pairs, bin))
    BY <1>4, <1>8
  <2> HIDE DEF of, value
  <2>3. Total(of, 0 .. 9) = Cardinality(WithValueIn(value, pairs, 0 .. 9))
    BY <1>1, <1>10, <2>2, CountedByValue
  <2>4. WithValueIn(value, pairs, 0 .. 9) = pairs
    BY <1>9 DEF WithValueIn
  <2> QED
    BY <1>3, <2>1, <2>3, <2>4
<1>12. Sum(well) = Cardinality(right)
  <2>1. Sum(well) = Total(well, 0 .. 9)
    BY SumIsTotal
  <2>2. \A bin \in 0 .. 9 : well[bin] = Cardinality(WithValue(value, right, bin))
    <3> SUFFICES ASSUME NEW bin \in 0 .. 9 PROVE well[bin] = Cardinality(WithValue(value, right, bin))
      OBVIOUS
    <3>1. {i \in Members(bin) : Right(Catalogue, own[i])} = WithValue(value, right, bin)
      <4>1. Members(bin) = WithValue(value, pairs, bin)
        BY <1>8
      <4> HIDE DEF Members, value
      <4> QED
        BY <1>6, <4>1 DEF WithValue
    <3> QED
      BY <1>4, <3>1
  <2>3. IsFiniteSet(right)
    BY <1>1, <1>6, Within
  <2> HIDE DEF well, value
  <2>4. Total(well, 0 .. 9) = Cardinality(WithValueIn(value, right, 0 .. 9))
    BY <1>10, <2>2, <2>3, CountedByValue
  <2>5. WithValueIn(value, right, 0 .. 9) = right
    BY <1>6, <1>9 DEF WithValueIn
  <2> QED
    BY <2>1, <2>4, <2>5
<1>13. Cardinality(pairs) = Cardinality(right) + Cardinality(flagged \ faulty) + Cardinality(faulty \ flagged)
  <2> DEFINE wrong == (flagged \ faulty) \cup (faulty \ flagged)
  <2>1. \A x : x \in pairs <=> x \in right \/ x \in wrong
    BY <1>6, <1>7
  <2>2. \A x : ~ (x \in right /\ x \in wrong)
    BY <1>6, <1>7
  <2>3. wrong \subseteq pairs
    BY <1>7
  <2>4. Cardinality(wrong) = Cardinality(flagged \ faulty) + Cardinality(faulty \ flagged)
    <3>1. IsFiniteSet(wrong)
      BY <1>1, <2>3, Within
    <3>2. \A x : x \in wrong <=> x \in flagged \ faulty \/ x \in faulty \ flagged
      OBVIOUS
    <3> HIDE DEF wrong
    <3> QED
      BY <3>1, <3>2, Parts
  <2> HIDE DEF wrong
  <2>5. Cardinality(pairs) = Cardinality(right) + Cardinality(wrong)
    <3>1. IsFiniteSet(pairs)
      BY <1>1
    <3> QED
      BY <2>1, <2>2, <3>1, Parts
  <2>6. /\ Cardinality(right) \in Nat /\ Cardinality(flagged \ faulty) \in Nat
        /\ Cardinality(faulty \ flagged) \in Nat
    BY <1>1, <1>6, <1>7, Within
  <2> QED
    BY <2>4, <2>5, <2>6
<1>14. Sum(well) = s.n - s.falsePositive - s.falseNegative
  <2>1. /\ Cardinality(right) \in Nat /\ Cardinality(flagged \ faulty) \in Nat
        /\ Cardinality(faulty \ flagged) \in Nat
    BY <1>1, <1>6, <1>7, Within
  <2> QED
    BY <1>3, <1>12, <1>13, <2>1
<1>15. Curve(Catalogue, listed, own) = {bin \in 0 .. 9 : bins[bin].of > 0}
  <2> SUFFICES ASSUME NEW bin \in 0 .. 9
               PROVE  (\E i \in pairs : 10 * bin < own[i].verdict.confidence
                                        /\ own[i].verdict.confidence =< 10 * (bin + 1))
                        <=> bins[bin].of > 0
    BY <1>5
  <2>1. \A i \in pairs : (10 * bin < own[i].verdict.confidence /\ own[i].verdict.confidence =< 10 * (bin + 1))
                            <=> i \in WithValue(value, pairs, bin)
    <3>1. \A i \in pairs : (10 * bin < own[i].verdict.confidence /\ own[i].verdict.confidence =< 10 * (bin + 1))
                            <=> value[i] = bin
      BY <1>2, OneBin
    <3> HIDE DEF value
    <3> QED
      BY <3>1 DEF WithValue
  <2>2. bins[bin].of = Cardinality(WithValue(value, pairs, bin))
    BY <1>4, <1>8
  <2>3. WithValue(value, pairs, bin) \subseteq pairs
    BY DEF WithValue
  <2> HIDE DEF value
  <2>4. /\ Cardinality(WithValue(value, pairs, bin)) \in Nat
        /\ Cardinality(WithValue(value, pairs, bin)) = 0 <=> WithValue(value, pairs, bin) = {}
    <3>1. IsFiniteSet(WithValue(value, pairs, bin))
      BY <1>1, <2>3, Within
    <3> QED
      BY <3>1, FS_EmptySet, FS_CardinalityType
  <2> QED
    BY <2>1, <2>2, <2>3, <2>4
<1> QED
  BY <1>11, <1>14, <1>15 DEF own, bins, s

\* The table of the agents' runs is over the set itself.
LEMMA AgentsAddUp ==
    ASSUME JInv
    PROVE  LET agents == AgentTable(Catalogue, listed)
           IN  /\ agents.flagged = agents.silent + Cardinality({t \in listed : Loud(Catalogue[t])})
               /\ Sum(agents.types) =< agents.flagged
<1> DEFINE agents == AgentTable(Catalogue, listed)
           faulty == {t \in listed : Catalogue[t].faulty}
           silent == {t \in listed : Silent(Catalogue[t])}
           loud   == {t \in listed : Loud(Catalogue[t])}
           value  == [t \in listed |-> Catalogue[t].type]
<1>1. /\ agents.flagged = Cardinality(faulty) /\ agents.silent = Cardinality(silent)
      /\ agents.types = [type \in FailureTypes |-> Cardinality({t \in listed : Catalogue[t].type = type})]
  BY DEF AgentTable
<1>2. IsFiniteSet(listed) /\ listed \subseteq DOMAIN Catalogue
  BY ListedIsFinite
<1>3. \A x : x \in faulty <=> x \in silent \/ x \in loud
  BY DEF Silent, Loud
<1>4. \A x : ~ (x \in silent /\ x \in loud)
  BY DEF Silent, Loud
<1>5. IsFiniteSet(faulty)
  BY <1>2, Within
<1>6. \A type \in FailureTypes : agents.types[type] = Cardinality(WithValue(value, listed, type))
  <2>1. \A type \in FailureTypes : {t \in listed : Catalogue[t].type = type} = WithValue(value, listed, type)
    BY DEF WithValue
  <2> HIDE DEF value
  <2> QED
    BY <1>1, <2>1
<1>7. DOMAIN agents.types = FailureTypes
  BY <1>1
<1>8. WithValueIn(value, listed, FailureTypes) \subseteq faulty
  <2>1. "none" \notin FailureTypes
    BY DEF FailureTypes
  <2>2. \A t \in listed : value[t] \in FailureTypes => Catalogue[t].faulty
    BY <1>2, <2>1, LabelsAssumption
  <2> HIDE DEF value
  <2> QED
    BY <2>2 DEF WithValueIn
<1> HIDE DEF agents, faulty, silent, loud, value
<1>9. Cardinality(faulty) = Cardinality(silent) + Cardinality(loud)
  BY <1>3, <1>4, <1>5, Parts
<1>10. Sum(agents.types) = Cardinality(WithValueIn(value, listed, FailureTypes))
  <2>1. Sum(agents.types) = Total(agents.types, FailureTypes)
    BY <1>7, SumIsTotal
  <2>2. Total(agents.types, FailureTypes) = Cardinality(WithValueIn(value, listed, FailureTypes))
    BY <1>2, <1>6, TypesAreFinite, CountedByValue
  <2> QED
    BY <2>1, <2>2
<1>11. Cardinality(WithValueIn(value, listed, FailureTypes)) =< Cardinality(faulty)
  BY <1>5, <1>8, Within
<1> QED
  BY <1>1, <1>9, <1>10, <1>11 DEF agents, loud

\* The report hangs together whatever was judged under whatever set, by any judge, one after
\* another: the columns of the scores, the types and the confusions, the bins and the agents
\* (score, per_type_recall, type_confusion, expected_calibration_error, agent_table).
THEOREM TablesDoAddUp == ASSUME NamedOnce PROVE Spec => []TablesAddUp
<1>1. OInv => TablesAddUp
  <2> SUFFICES ASSUME OInv PROVE TablesAddUp
    OBVIOUS
  <2> DEFINE table == Report(Catalogue, listed, rows)
  <2>1. /\ DOMAIN table = DOMAIN JudgeOrder(rows)
        /\ \A p \in DOMAIN table : table[p].judge = JudgeOrder(rows)[p]
    BY DEF Report
  <2>2. \A p, q \in DOMAIN table : p # q => table[p].judge # table[q].judge
    BY <2>1, OneRowToAJudge DEF OInv
  <2>3. \A p \in DOMAIN table : table[p].judge = "programmatic" => p = 1
    BY <2>1, OneRowToAJudge DEF OInv
  <2>4. ASSUME NEW p \in DOMAIN table
        PROVE  LET s == table[p].scores
                   c == table[p].confusion
                   k == table[p].perType
                   types == Sum([type \in FailureTypes |-> k[type].of])
               IN  /\ s.n =< Cardinality(listed)
                   /\ s.silent + s.loud + s.clean = s.n
                   /\ s.silentCaught + s.loudCaught = s.truePositive
                   /\ s.truePositive + s.falseNegative = s.silent + s.loud
                   /\ s.falsePositive =< s.clean
                   /\ s.stepExact =< s.stepWithinOne /\ s.stepWithinOne =< s.stepScored
                   /\ s.stepScored =< s.truePositive
                   /\ types =< s.silent + s.loud
                   /\ \A type \in FailureTypes :
                       /\ Sum(c[type]) = k[type].of
                       /\ Sum(c[type]) - c[type]["missed"] =< k[type].caught
                   /\ Sum([bin \in 0 .. 9 |-> table[p].bins[bin].of]) = s.n
                   /\ Sum([bin \in 0 .. 9 |-> table[p].bins[bin].right])
                       = s.n - s.falsePositive - s.falseNegative
                   /\ table[p].curve = {bin \in 0 .. 9 : table[p].bins[bin].of > 0}
    <3> DEFINE j   == JudgeOrder(rows)[p]
               own == RowsOf(rows, j)
    <3>1. /\ table[p].scores = Scores(Catalogue, listed, own)
          /\ table[p].confusion = Confusion(Catalogue, listed, own)
          /\ table[p].perType = PerType(Catalogue, listed, own)
          /\ table[p].bins = Bins(Catalogue, listed, own)
          /\ table[p].curve = Curve(Catalogue, listed, own)
      BY <2>1, <2>4 DEF Report
    <3> HIDE DEF table, j
    <3>2. JInv
      BY DEF OInv
    <3> QED
      BY <3>1, <3>2, ScoresAddUp, TypesAddUp, BinsAddUp
  <2>5. LET agents == AgentTable(Catalogue, listed)
        IN  /\ agents.flagged = agents.silent + Cardinality({t \in listed : Loud(Catalogue[t])})
            /\ Sum(agents.types) =< agents.flagged
    BY AgentsAddUp DEF OInv
  <2> HIDE DEF table
  <2> QED
    BY <2>2, <2>3, <2>4, <2>5 DEF TablesAddUp, table
<1> QED
  BY <1>1, OnceInvariance, PTL
-----------------------------------------------------------------------------
(* The scripts of the paper, over any labels and any verdicts on them *)

Labelled(label) ==
    /\ IsFiniteSet(DOMAIN label)
    /\ \A t \in DOMAIN label : label[t] \in Label /\ (label[t].type # "none" => label[t].faulty)

Answered(label, verdict) == \A t \in DOMAIN label : verdict[t] \in Verdict

LEMMA LabelFacts ==
    ASSUME NEW label, Labelled(label), NEW verdict, Answered(label, verdict), NEW t \in DOMAIN label
    PROVE  /\ label[t].faulty \in BOOLEAN /\ label[t].correct \in BOOLEAN
           /\ label[t].step \in Nat \cup {None} /\ label[t].instance \in Nat
           /\ label[t].type \in FailureTypes \cup {"none"} /\ (label[t].type # "none" => label[t].faulty)
           /\ verdict[t].faulty \in BOOLEAN /\ verdict[t].step \in Nat \cup {None}
           /\ verdict[t].type \in FailureTypes \cup {"none"} /\ verdict[t].confidence \in 0 .. 100
<1>1. label[t] \in Label /\ (label[t].type # "none" => label[t].faulty)
  BY DEF Labelled
<1>2. verdict[t] \in Verdict
  BY DEF Answered
<1> QED
  BY <1>1, <1>2 DEF Label, Verdict

\* The localisation counts of both scripts, and the alarms.
LEMMA StepsAgree ==
    ASSUME NEW label, Labelled(label), NEW verdict, Answered(label, verdict)
    PROVE  LET counts  == Metrics(label, verdict)
               located == Located(label, verdict)
               whole   == TrajectoryMetrics(label, verdict)
           IN  /\ located.detected = counts.truePositive
               /\ located.exact = counts.stepExact
               /\ located.valid + located.invalid = located.detected
               /\ whole.detected = located.detected /\ whole.exact = located.exact
               /\ whole.typed + located.mistyped = whole.detected
               /\ whole.keptExact =< whole.keptFound
               /\ whole.kept - whole.keptFound =< counts.falseNegative
               /\ CleanFlags(label, verdict) = counts.falsePositive
               /\ whole.alarms = counts.falsePositive
<1> DEFINE T        == DOMAIN label
           flagged  == {t \in T : verdict[t].faulty}
           faulty   == {t \in T : label[t].faulty}
           scored   == {t \in faulty \cap flagged : label[t].step >= 0 /\ verdict[t].step >= 0}
           detected == faulty \cap flagged
           valid    == {t \in detected : verdict[t].step >= 0}
           invalid  == {t \in detected : verdict[t].step < 0}
           exact    == {t \in detected : verdict[t].step >= 0 /\ verdict[t].step = label[t].step}
           typed    == {t \in detected : verdict[t].type = label[t].type}
           mistyped == {t \in detected : verdict[t].type # label[t].type}
           kept     == {t \in faulty : label[t].type # "premature_stop"}
           counts   == Metrics(label, verdict)
           located  == Located(label, verdict)
           whole    == TrajectoryMetrics(label, verdict)
<1>1. IsFiniteSet(T) /\ detected \subseteq T /\ kept \subseteq T /\ faulty \ flagged \subseteq T
  BY DEF Labelled
<1>2. /\ counts.truePositive = Cardinality(detected)
      /\ counts.falsePositive = Cardinality(flagged \ faulty)
      /\ counts.falseNegative = Cardinality(faulty \ flagged)
      /\ counts.stepExact = Cardinality({t \in scored : label[t].step = verdict[t].step})
  BY DEF Metrics
<1>3. {t \in scored : label[t].step = verdict[t].step} = exact
  OBVIOUS
<1>4. /\ located.detected = Cardinality(detected) /\ located.valid = Cardinality(valid)
      /\ located.invalid = Cardinality(invalid) /\ located.exact = Cardinality(exact)
      /\ located.mistyped = Cardinality(mistyped)
  <2>1. {t \in T : label[t].faulty /\ verdict[t].faulty} = detected
    OBVIOUS
  <2>2. {t \in valid : verdict[t].step = label[t].step} = exact
    OBVIOUS
  <2> QED
    BY <2>1, <2>2 DEF Located
<1>5. /\ whole.detected = Cardinality(detected) /\ whole.exact = Cardinality(exact)
      /\ whole.kept = Cardinality(kept) /\ whole.keptFound = Cardinality(kept \cap detected)
      /\ whole.keptExact = Cardinality(kept \cap exact) /\ whole.typed = Cardinality(typed)
      /\ whole.alarms = Cardinality(flagged \ faulty)
  <2>1. {t \in faulty : verdict[t].faulty} = detected
    OBVIOUS
  <2>2. {t \in T \ faulty : verdict[t].faulty} = flagged \ faulty
    OBVIOUS
  <2> QED
    BY <2>1, <2>2 DEF TrajectoryMetrics
<1>6. CleanFlags(label, verdict) = Cardinality(flagged \ faulty)
  <2>1. {t \in T : ~ label[t].faulty /\ verdict[t].faulty} = flagged \ faulty
    OBVIOUS
  <2> QED
    BY <2>1 DEF CleanFlags
<1>7. Cardinality(detected) = Cardinality(valid) + Cardinality(invalid)
  <2>1. \A x : x \in detected <=> x \in valid \/ x \in invalid
    <3>1. \A x \in detected : verdict[x].step >= 0 \/ verdict[x].step < 0
      BY LabelFacts DEF None
    <3> QED
      BY <3>1
  <2>2. \A x : ~ (x \in valid /\ x \in invalid)
    <3>1. \A x \in detected : ~ (verdict[x].step >= 0 /\ verdict[x].step < 0)
      BY LabelFacts DEF None
    <3> QED
      BY <3>1
  <2>3. IsFiniteSet(detected)
    BY <1>1, Within
  <2> HIDE DEF detected, valid, invalid
  <2> QED
    BY <2>1, <2>2, <2>3, Parts
<1>8. Cardinality(detected) = Cardinality(typed) + Cardinality(mistyped)
  <2>1. \A x : x \in detected <=> x \in typed \/ x \in mistyped
    OBVIOUS
  <2>2. \A x : ~ (x \in typed /\ x \in mistyped)
    OBVIOUS
  <2>3. IsFiniteSet(detected)
    BY <1>1, Within
  <2> HIDE DEF detected, typed, mistyped
  <2> QED
    BY <2>1, <2>2, <2>3, Parts
<1>9. Cardinality(kept \cap exact) =< Cardinality(kept \cap detected)
  <2>1. kept \cap exact \subseteq kept \cap detected /\ kept \cap detected \subseteq T
    OBVIOUS
  <2>2. IsFiniteSet(kept \cap detected)
    BY <1>1, <2>1, Within
  <2> QED
    BY <2>1, <2>2, Within
<1>10. Cardinality(kept) - Cardinality(kept \cap detected) =< Cardinality(faulty \ flagged)
  <2>1. \A x : x \in kept <=> x \in kept \cap detected \/ x \in kept \ detected
    OBVIOUS
  <2>2. kept \ detected \subseteq faulty \ flagged
    OBVIOUS
  <2>3. IsFiniteSet(kept)
    BY <1>1, Within
  <2>4. IsFiniteSet(faulty \ flagged)
    BY <1>1, Within
  <2> HIDE DEF kept, detected, faulty, flagged
  <2>5. /\ Cardinality(kept) = Cardinality(kept \cap detected) + Cardinality(kept \ detected)
        /\ Cardinality(kept \cap detected) \in Nat /\ Cardinality(kept \ detected) \in Nat
    <3>1. \A x : ~ (x \in kept \cap detected /\ x \in kept \ detected)
      OBVIOUS
    <3> QED
      BY <2>1, <2>3, <3>1, Parts
  <2>6. /\ Cardinality(kept \ detected) =< Cardinality(faulty \ flagged)
        /\ Cardinality(faulty \ flagged) \in Nat
    BY <2>2, <2>4, Within
  <2> QED
    BY <2>5, <2>6
<1> HIDE DEF counts, located, whole, detected, valid, invalid, exact, typed, mistyped, kept, faulty, flagged, scored
<1>11. /\ located.detected = counts.truePositive
       /\ located.exact = counts.stepExact
       /\ located.valid + located.invalid = located.detected
  BY <1>2, <1>3, <1>4, <1>7
<1>12. /\ whole.detected = located.detected /\ whole.exact = located.exact
       /\ whole.typed + located.mistyped = whole.detected
  BY <1>4, <1>5, <1>8
<1>13. /\ whole.keptExact =< whole.keptFound
       /\ whole.kept - whole.keptFound =< counts.falseNegative
  BY <1>2, <1>5, <1>9, <1>10
<1>14. /\ CleanFlags(label, verdict) = counts.falsePositive
       /\ whole.alarms = counts.falsePositive
  BY <1>2, <1>5, <1>6
<1> QED
  BY <1>11, <1>12, <1>13, <1>14 DEF counts, located, whole

\* The flags among the loud and the silent faults, those of a type, and those whose reply stayed
\* the same.
LEMMA CellsAgree ==
    ASSUME NEW label, Labelled(label), NEW verdict, Answered(label, verdict)
    PROVE  LET counts == Metrics(label, verdict)
               types  == TypeCounts(label, verdict)
               flags  == CellFlags(label, verdict)
           IN  /\ flags["loud"] = counts.loudCaught /\ flags["silent"] = counts.silentCaught
               /\ flags["reply_same_kept"] + flags["reply_same_broke"] = flags["reply_same"]
               /\ \A type \in FailureTypes : /\ types[type].caught = FlagsByType(label, verdict)[type]
                                             /\ flags[type] = types[type].caught
<1> DEFINE T         == DOMAIN label
           flagged   == {t \in T : verdict[t].faulty}
           counts    == Metrics(label, verdict)
           types     == TypeCounts(label, verdict)
           flags     == CellFlags(label, verdict)
           In(cell)  == {t \in FaultsIn(label, cell) : verdict[t].faulty}
<1>1. \A cell \in CellNames : flags[cell] = Cardinality(In(cell))
  BY DEF CellFlags
<1>2. flags["loud"] = counts.loudCaught
  <2> DEFINE loud == {t \in T : label[t].faulty /\ ~ label[t].correct}
  <2>1. counts.loudCaught = Cardinality(loud \cap flagged)
    BY DEF Metrics
  <2>2. In("loud") = loud \cap flagged
    <3>1. \A t \in T : InCell(label[t], "loud") <=> ~ label[t].correct
      BY LabelFacts DEF InCell, FailureTypes
    <3> QED
      BY <3>1 DEF FaultsIn
  <2>3. "loud" \in CellNames
    BY DEF CellNames
  <2> QED
    BY <1>1, <2>1, <2>2, <2>3
<1>3. flags["silent"] = counts.silentCaught
  <2> DEFINE silent == {t \in T : label[t].faulty /\ label[t].correct}
  <2>1. counts.silentCaught = Cardinality(silent \cap flagged)
    BY DEF Metrics
  <2>2. In("silent") = silent \cap flagged
    <3>1. \A t \in T : InCell(label[t], "silent") <=> label[t].correct
      BY LabelFacts DEF InCell, FailureTypes
    <3> QED
      BY <3>1 DEF FaultsIn
  <2>3. "silent" \in CellNames
    BY DEF CellNames
  <2> QED
    BY <1>1, <2>1, <2>2, <2>3
<1>4. flags["reply_same_kept"] + flags["reply_same_broke"] = flags["reply_same"]
  <2> DEFINE same  == In("reply_same")
             kept  == In("reply_same_kept")
             broke == In("reply_same_broke")
  <2>1. \A t \in T : /\ InCell(label[t], "reply_same") <=> label[t].type \in ReplySame
                     /\ InCell(label[t], "reply_same_kept") <=> label[t].type \in ReplySame /\ label[t].correct
                     /\ InCell(label[t], "reply_same_broke") <=> label[t].type \in ReplySame /\ ~ label[t].correct
    BY LabelFacts DEF InCell, FailureTypes
  <2>2. \A x : x \in same <=> x \in kept \/ x \in broke
    BY <2>1 DEF FaultsIn
  <2>3. \A x : ~ (x \in kept /\ x \in broke)
    BY <2>1 DEF FaultsIn
  <2>4. IsFiniteSet(same)
    <3>1. same \subseteq T /\ IsFiniteSet(T)
      BY DEF FaultsIn, Labelled
    <3> QED
      BY <3>1, Within
  <2>5. /\ flags["reply_same"] = Cardinality(same) /\ flags["reply_same_kept"] = Cardinality(kept)
        /\ flags["reply_same_broke"] = Cardinality(broke)
    BY <1>1 DEF CellNames
  <2> HIDE DEF same, kept, broke
  <2>6. Cardinality(same) = Cardinality(kept) + Cardinality(broke)
    BY <2>2, <2>3, <2>4, Parts
  <2> QED
    BY <2>5, <2>6
<1>5. ASSUME NEW type \in FailureTypes
      PROVE  types[type].caught = FlagsByType(label, verdict)[type] /\ flags[type] = types[type].caught
  <2> DEFINE typed == {t \in T : label[t].faulty /\ label[t].type # "none"}
             is    == {t \in typed : label[t].type = type}
             hit   == {t \in T : label[t].faulty /\ label[t].type = type /\ verdict[t].faulty}
  <2>1. types[type].caught = Cardinality({t \in is : verdict[t].faulty})
    BY DEF TypeCounts
  <2>2. FlagsByType(label, verdict)[type] = Cardinality(hit)
    BY DEF FlagsByType
  <2>3. {t \in is : verdict[t].faulty} = hit
    BY DEF FailureTypes
  <2>4. In(type) = hit
    <3>1. \A t \in T : InCell(label[t], type) <=> label[t].type = type
      BY LabelFacts DEF InCell, FailureTypes
    <3> QED
      BY <3>1 DEF FaultsIn
  <2>5. type \in CellNames
    BY DEF CellNames
  <2> QED
    BY <1>1, <2>1, <2>2, <2>3, <2>4, <2>5
<1> QED
  BY <1>2, <1>3, <1>4, <1>5

\* The six scenarios between them have every instance.
LEMMA EveryScene ==
    /\ IsFiniteSet({Strata[i] : i \in DOMAIN Strata})
    /\ \A index \in Nat : /\ Stratum(index) \in {Strata[i] : i \in DOMAIN Strata}
                          /\ Stratum(index) = DifficultyOf(index)
<1>1. DOMAIN Strata = 1 .. 6
  BY DEF Strata
<1>2. IsFiniteSet({Strata[i] : i \in DOMAIN Strata})
  <2>1. {Strata[i] : i \in DOMAIN Strata}
            = {"happy", "restocking", "expired", "non_refundable", "wrong_customer", "already_refunded"}
    BY DEF Strata
  <2>2. IsFiniteSet({"happy", "restocking", "expired", "non_refundable", "wrong_customer", "already_refunded"})
    <3>1. IsFiniteSet({})
      BY FS_EmptySet
    <3>2. IsFiniteSet({"happy"})
      BY FS_Singleton
    <3>3. IsFiniteSet({"happy"} \cup {"restocking"})
      BY <3>2, FS_AddElement
    <3>4. IsFiniteSet({"happy"} \cup {"restocking"} \cup {"expired"})
      BY <3>3, FS_AddElement
    <3>5. IsFiniteSet({"happy"} \cup {"restocking"} \cup {"expired"} \cup {"non_refundable"})
      BY <3>4, FS_AddElement
    <3>6. IsFiniteSet({"happy"} \cup {"restocking"} \cup {"expired"} \cup {"non_refundable"} \cup {"wrong_customer"})
      BY <3>5, FS_AddElement
    <3>7. IsFiniteSet({"happy"} \cup {"restocking"} \cup {"expired"} \cup {"non_refundable"} \cup {"wrong_customer"}
                        \cup {"already_refunded"})
      BY <3>6, FS_AddElement
    <3>8. {"happy"} \cup {"restocking"} \cup {"expired"} \cup {"non_refundable"} \cup {"wrong_customer"}
                        \cup {"already_refunded"}
            = {"happy", "restocking", "expired", "non_refundable", "wrong_customer", "already_refunded"}
      OBVIOUS
    <3> QED
      BY <3>7, <3>8
  <2> QED
    BY <2>1, <2>2
<1>3. ASSUME NEW index \in Nat
      PROVE  /\ Stratum(index) \in {Strata[i] : i \in DOMAIN Strata}
             /\ Stratum(index) = DifficultyOf(index)
  <2>1. (index % 6) + 1 \in 1 .. 6
    OBVIOUS
  <2>2. Strata = Difficulties
    BY DEF Strata, Difficulties
  <2> QED
    BY <1>1, <2>1, <2>2 DEF Stratum, DifficultyOf
<1> QED
  BY <1>2, <1>3

\* What is counted by scenario is counted once.
LEMMA ScenesAgree ==
    ASSUME NEW label, Labelled(label), NEW verdict, Answered(label, verdict)
    PROVE  LET scenes == ByScenario(label, verdict)
           IN  /\ Sum([scene \in DOMAIN scenes |-> scenes[scene].cleanFlagged])
                    = Metrics(label, verdict).falsePositive
               /\ Sum([scene \in DOMAIN scenes |-> scenes[scene].sameFlagged])
                    = CellFlags(label, verdict)["reply_same"]
               /\ Sum([scene \in DOMAIN scenes |-> scenes[scene].same])
                    = Design(label).within["reply_same"]
<1> DEFINE T      == DOMAIN label
           scenes == ByScenario(label, verdict)
           names  == {Strata[i] : i \in DOMAIN Strata}
           value  == [t \in T |-> Stratum(label[t].instance)]
           alarms == {t \in T : ~ label[t].faulty /\ verdict[t].faulty}
           same   == FaultsIn(label, "reply_same")
           caught == {t \in same : verdict[t].faulty}
           cleanFlagged == [scene \in DOMAIN scenes |-> scenes[scene].cleanFlagged]
           sameFlagged  == [scene \in DOMAIN scenes |-> scenes[scene].sameFlagged]
           sames        == [scene \in DOMAIN scenes |-> scenes[scene].same]
<1>1. IsFiniteSet(T) /\ alarms \subseteq T /\ same \subseteq T /\ caught \subseteq T
  BY DEF Labelled, FaultsIn
<1>2. DOMAIN scenes = names
  BY DEF ByScenario
<1>3. ASSUME NEW scene \in names
      PROVE  /\ scenes[scene].cleanFlagged = Cardinality(WithValue(value, alarms, scene))
             /\ scenes[scene].sameFlagged = Cardinality(WithValue(value, caught, scene))
             /\ scenes[scene].same = Cardinality(WithValue(value, same, scene))
  <2> DEFINE here  == {t \in T : Stratum(label[t].instance) = scene}
             clean == {t \in here : ~ label[t].faulty}
             its   == here \cap same
             alarmed == {t \in clean : verdict[t].faulty}
             caughtHere == {t \in its : verdict[t].faulty}
  <2>1. scenes[scene] = [ clean        |-> Cardinality(clean),
                          cleanFlagged |-> Cardinality(alarmed),
                          same         |-> Cardinality(its),
                          sameFlagged  |-> Cardinality(caughtHere) ]
    BY DEF ByScenario
  <2>2. alarmed = WithValue(value, alarms, scene)
    BY DEF WithValue
  <2>3. its = WithValue(value, same, scene)
    BY <1>1 DEF WithValue
  <2>4. caughtHere = WithValue(value, caught, scene)
    BY <1>1 DEF WithValue
  <2> HIDE DEF clean, its, alarmed, caughtHere, scenes, value, alarms, caught, same, here
  <2> QED
    BY <2>1, <2>2, <2>3, <2>4
<1>4. \A t \in T : value[t] \in names
  <2>1. \A t \in T : label[t].instance \in Nat
    BY LabelFacts
  <2> QED
    BY <2>1, EveryScene
<1>5. ASSUME NEW part, part \subseteq T, NEW f, DOMAIN f = names,
             \A scene \in names : f[scene] = Cardinality(WithValue(value, part, scene))
      PROVE  Sum(f) = Cardinality(part)
  <2>1. WithValueIn(value, part, names) = part
    BY <1>4, <1>5 DEF WithValueIn
  <2>2. IsFiniteSet(part) /\ IsFiniteSet(names)
    <3>1. IsFiniteSet(part)
      BY <1>1, <1>5, Within
    <3> QED
      BY <3>1, EveryScene
  <2> HIDE DEF names, value
  <2>3. Total(f, names) = Cardinality(WithValueIn(value, part, names))
    BY <1>5, <2>2, CountedByValue
  <2> QED
    BY <1>5, <2>1, <2>3, SumIsTotal
<1>6. Sum(cleanFlagged) = Cardinality(alarms)
  <2>1. DOMAIN cleanFlagged = names /\ \A scene \in names : cleanFlagged[scene] = scenes[scene].cleanFlagged
    BY <1>2
  <2> HIDE DEF cleanFlagged, names, value, alarms, scenes
  <2> QED
    BY <1>1, <1>3, <1>5, <2>1
<1>7. Sum(sameFlagged) = Cardinality(caught)
  <2>1. DOMAIN sameFlagged = names /\ \A scene \in names : sameFlagged[scene] = scenes[scene].sameFlagged
    BY <1>2
  <2> HIDE DEF sameFlagged, names, value, caught, scenes
  <2> QED
    BY <1>1, <1>3, <1>5, <2>1
<1>8. Sum(sames) = Cardinality(same)
  <2>1. DOMAIN sames = names /\ \A scene \in names : sames[scene] = scenes[scene].same
    BY <1>2
  <2> HIDE DEF sames, names, value, same, scenes
  <2> QED
    BY <1>1, <1>3, <1>5, <2>1
<1>9. Metrics(label, verdict).falsePositive = Cardinality(alarms)
  <2>1. {t \in T : verdict[t].faulty} \ {t \in T : label[t].faulty} = alarms
    OBVIOUS
  <2> QED
    BY <2>1 DEF Metrics
<1>10. /\ CellFlags(label, verdict)["reply_same"] = Cardinality(caught)
       /\ Design(label).within["reply_same"] = Cardinality(same)
  BY DEF CellFlags, Design, CellNames
<1> HIDE DEF cleanFlagged, sameFlagged, sames, alarms, caught, same
<1>11. /\ Sum(cleanFlagged) = Metrics(label, verdict).falsePositive
       /\ Sum(sameFlagged) = CellFlags(label, verdict)["reply_same"]
       /\ Sum(sames) = Design(label).within["reply_same"]
  BY <1>6, <1>7, <1>8, <1>9, <1>10
<1> QED
  BY <1>11 DEF cleanFlagged, sameFlagged, sames

\* Two pairs with one fault are the same.
LEMMA PairFacts ==
    ASSUME NEW label, NEW p \in Pairs(label)
    PROVE  /\ p[1] \in DOMAIN label /\ p[2] \in DOMAIN label /\ label[p[1]].faulty
           /\ p[2] = <<label[p[1]].instance, "clean">> /\ p = <<p[1], p[2]>>
  BY DEF Pairs

LEMMA PairsAreFinite ==
    ASSUME NEW label, IsFiniteSet(DOMAIN label), NEW X, X \subseteq Pairs(label),
           NEW Y, Y \subseteq DOMAIN label, \A p \in X : p[1] \in Y
    PROVE  IsFiniteSet(X) /\ Cardinality(X) \in Nat /\ Cardinality(X) =< Cardinality(Y)
<1> DEFINE fault == [p \in X |-> p[1]]
<1>1. \A p \in X : fault[p] \in Y
  OBVIOUS
<1>2. \A p, q \in X : fault[p] = fault[q] => p = q
  <2> SUFFICES ASSUME NEW p \in X, NEW q \in X, p[1] = q[1] PROVE p = q
    OBVIOUS
  <2>1. /\ p[2] = <<label[p[1]].instance, "clean">> /\ p = <<p[1], p[2]>>
        /\ q[2] = <<label[q[1]].instance, "clean">> /\ q = <<q[1], q[2]>>
    BY PairFacts
  <2> QED
    BY <2>1
<1>3. IsFiniteSet(Y)
  BY Within
<1> HIDE DEF fault
<1> QED
  BY <1>1, <1>2, <1>3, NoMoreThan

\* The table of pairs: what it has of a cell, and of the cells that are two halves.
LEMMA TableAgrees ==
    ASSUME NEW label, Labelled(label), NEW verdict, Answered(label, verdict)
    PROVE  LET pairs  == PairedTable(label, verdict)
               design == Design(label)
               flags  == CellFlags(label, verdict)
           IN  /\ \A cell \in CellNames :
                    /\ pairs[cell].b10 - pairs[cell].b01
                        = Cardinality({q \in Pairs(label) : InCell(label[q[1]], cell) /\ verdict[q[1]].faulty})
                          - Cardinality({q \in Pairs(label) : InCell(label[q[1]], cell) /\ verdict[q[2]].faulty})
                    /\ pairs[cell].b10 =< flags[cell] /\ pairs[cell].n =< design.within[cell]
               /\ pairs["loud"].n + pairs["silent"].n = design.pairs
               /\ pairs["reply_same"].n + pairs["reply_changed"].n = design.pairs
<1> DEFINE pairs   == PairedTable(label, verdict)
           design  == Design(label)
           flags   == CellFlags(label, verdict)
           In(cell) == {p \in Pairs(label) : InCell(label[p[1]], cell)}
<1>1. IsFiniteSet(DOMAIN label)
  BY DEF Labelled
<1>2. \A p \in Pairs(label) : /\ p[1] \in DOMAIN label /\ p[2] \in DOMAIN label
                              /\ label[p[1]].faulty
  BY PairFacts
<1>3. \A X \in SUBSET Pairs(label) : IsFiniteSet(X) /\ Cardinality(X) \in Nat
  BY <1>1, <1>2, PairsAreFinite
<1>4. ASSUME NEW cell \in CellNames
      PROVE  /\ pairs[cell].b10 - pairs[cell].b01
                    = Cardinality({q \in Pairs(label) : InCell(label[q[1]], cell) /\ verdict[q[1]].faulty})
                      - Cardinality({q \in Pairs(label) : InCell(label[q[1]], cell) /\ verdict[q[2]].faulty})
             /\ pairs[cell].b10 =< flags[cell] /\ pairs[cell].n =< design.within[cell]
  <2> DEFINE its   == In(cell)
             fault == {q \in Pairs(label) : InCell(label[q[1]], cell) /\ verdict[q[1]].faulty}
             clean == {q \in Pairs(label) : InCell(label[q[1]], cell) /\ verdict[q[2]].faulty}
             only  == {p \in its : verdict[p[1]].faulty /\ ~ verdict[p[2]].faulty}
             other == {p \in its : ~ verdict[p[1]].faulty /\ verdict[p[2]].faulty}
             both  == {p \in its : verdict[p[1]].faulty /\ verdict[p[2]].faulty}
  <2>1. /\ pairs[cell].n = Cardinality(its) /\ pairs[cell].b10 = Cardinality(only)
        /\ pairs[cell].b01 = Cardinality(other)
    BY DEF PairedTable
  <2>2. /\ \A x : x \in fault <=> x \in only \/ x \in both
        /\ \A x : ~ (x \in only /\ x \in both)
    OBVIOUS
  <2>3. /\ \A x : x \in clean <=> x \in other \/ x \in both
        /\ \A x : ~ (x \in other /\ x \in both)
    OBVIOUS
  <2>4. fault \in SUBSET Pairs(label) /\ clean \in SUBSET Pairs(label)
    OBVIOUS
  <2>5. Cardinality(only) =< flags[cell]
    <3> DEFINE flagged == {t \in FaultsIn(label, cell) : verdict[t].faulty}
    <3>1. flags[cell] = Cardinality(flagged)
      BY DEF CellFlags
    <3>2. flagged \subseteq DOMAIN label
      BY DEF FaultsIn
    <3>3. \A p \in only : p[1] \in flagged
      BY <1>2 DEF FaultsIn
    <3>4. only \subseteq Pairs(label)
      OBVIOUS
    <3> HIDE DEF flagged, only
    <3> QED
      BY <1>1, <3>1, <3>2, <3>3, <3>4, PairsAreFinite
  <2>6. Cardinality(its) =< design.within[cell]
    <3> DEFINE faults == FaultsIn(label, cell)
    <3>1. design.within[cell] = Cardinality(faults)
      BY DEF Design
    <3>2. faults \subseteq DOMAIN label
      BY DEF FaultsIn
    <3>3. \A p \in its : p[1] \in faults
      BY <1>2 DEF FaultsIn
    <3>4. its \subseteq Pairs(label)
      OBVIOUS
    <3> HIDE DEF faults, its
    <3> QED
      BY <1>1, <3>1, <3>2, <3>3, <3>4, PairsAreFinite
  <2> HIDE DEF its, fault, clean, only, other, both
  <2>7. /\ Cardinality(fault) = Cardinality(only) + Cardinality(both)
        /\ Cardinality(only) \in Nat /\ Cardinality(both) \in Nat
    <3>1. IsFiniteSet(fault)
      BY <1>3, <2>4
    <3> QED
      BY <2>2, <3>1, Parts
  <2>8. /\ Cardinality(clean) = Cardinality(other) + Cardinality(both)
        /\ Cardinality(other) \in Nat
    <3>1. IsFiniteSet(clean)
      BY <1>3, <2>4
    <3> QED
      BY <2>3, <3>1, Parts
  <2>9. pairs[cell].b10 - pairs[cell].b01 = Cardinality(fault) - Cardinality(clean)
    BY <2>1, <2>7, <2>8
  <2> QED
    BY <2>1, <2>5, <2>6, <2>9 DEF fault, clean
<1>5. design.pairs = Cardinality(Pairs(label))
  BY DEF Design
<1>6. ASSUME NEW a \in CellNames, NEW b \in CellNames,
             \A t \in DOMAIN label : InCell(label[t], a) <=> ~ InCell(label[t], b)
      PROVE  pairs[a].n + pairs[b].n = design.pairs
  <2> DEFINE A == In(a)
             B == In(b)
  <2>1. pairs[a].n = Cardinality(A) /\ pairs[b].n = Cardinality(B)
    BY DEF PairedTable
  <2>2. \A x : x \in Pairs(label) <=> x \in A \/ x \in B
    BY <1>2, <1>6
  <2>3. \A x : ~ (x \in A /\ x \in B)
    BY <1>2, <1>6
  <2>4. IsFiniteSet(Pairs(label))
    BY <1>3
  <2> HIDE DEF A, B
  <2>5. Cardinality(Pairs(label)) = Cardinality(A) + Cardinality(B)
    BY <2>2, <2>3, <2>4, Parts
  <2> QED
    BY <1>5, <2>1, <2>5
<1>7. pairs["loud"].n + pairs["silent"].n = design.pairs
  <2>1. \A t \in DOMAIN label : InCell(label[t], "loud") <=> ~ InCell(label[t], "silent")
    BY LabelFacts DEF InCell, FailureTypes
  <2>2. "loud" \in CellNames /\ "silent" \in CellNames
    BY DEF CellNames
  <2> QED
    BY <1>6, <2>1, <2>2
<1>8. pairs["reply_same"].n + pairs["reply_changed"].n = design.pairs
  <2>1. \A t \in DOMAIN label : InCell(label[t], "reply_same") <=> ~ InCell(label[t], "reply_changed")
    BY LabelFacts DEF InCell, FailureTypes
  <2>2. "reply_same" \in CellNames /\ "reply_changed" \in CellNames
    BY DEF CellNames
  <2> QED
    BY <1>6, <2>1, <2>2
<1> QED
  BY <1>4, <1>7, <1>8

\* The faults without a pair are no fewer than the instances that only they come from.
LEMMA LateOnes ==
    ASSUME NEW label, Labelled(label)
    PROVE  Design(label).latePairs >= Design(label).lateParents
<1> DEFINE T       == DOMAIN label
           faults  == {t \in T : label[t].faulty}
           paired  == {p[1] : p \in Pairs(label)}
           alone   == faults \ paired
           late    == {label[t].instance : t \in faults} \ {label[t].instance : t \in paired}
           own     == [instance \in late |-> CHOOSE t \in alone : label[t].instance = instance]
<1>1. /\ Design(label).lateParents = Cardinality(late)
      /\ Design(label).latePairs = Cardinality(faults) - Cardinality(Pairs(label))
  BY DEF Design
<1>2. IsFiniteSet(T) /\ faults \subseteq T
  BY DEF Labelled
<1>3. paired \subseteq faults
  BY PairFacts
<1>4. Cardinality(Pairs(label)) =< Cardinality(paired) /\ Cardinality(Pairs(label)) \in Nat
  <2>1. \A p \in Pairs(label) : p[1] \in paired
    OBVIOUS
  <2>2. paired \subseteq T
    BY <1>2, <1>3
  <2> HIDE DEF paired
  <2> QED
    BY <1>2, <2>1, <2>2, PairsAreFinite
<1>5. /\ Cardinality(faults) = Cardinality(paired) + Cardinality(alone)
      /\ IsFiniteSet(alone) /\ Cardinality(paired) \in Nat /\ Cardinality(alone) \in Nat
  <2>1. \A x : x \in faults <=> x \in paired \/ x \in alone
    BY <1>3
  <2>2. \A x : ~ (x \in paired /\ x \in alone)
    OBVIOUS
  <2>3. IsFiniteSet(faults)
    BY <1>2, Within
  <2> HIDE DEF paired, alone, faults
  <2> QED
    BY <2>1, <2>2, <2>3, Parts
<1>6. \A instance \in late : own[instance] \in alone /\ label[own[instance]].instance = instance
  <2> SUFFICES ASSUME NEW instance \in late
               PROVE  own[instance] \in alone /\ label[own[instance]].instance = instance
    OBVIOUS
  <2>1. PICK t \in faults : label[t].instance = instance
    OBVIOUS
  <2>2. t \in alone
    BY <2>1
  <2> QED
    BY <2>1, <2>2
<1> HIDE DEF own, alone, late
<1>7. Cardinality(late) =< Cardinality(alone) /\ Cardinality(late) \in Nat
  <2>1. \A x \in late : own[x] \in alone
    BY <1>6
  <2>2. \A x, y \in late : own[x] = own[y] => x = y
    BY <1>6
  <2>3. IsFiniteSet(alone)
    BY <1>5
  <2> QED
    BY <2>1, <2>2, <2>3, NoMoreThan
<1> QED
  BY <1>1, <1>4, <1>5, <1>7

\* The labels on file, as the scripts read them.
OnFile == [t \in listed |-> Catalogue[t]]

LEMMA FilesAreRead ==
    ASSUME OInv, NEW j, listed \subseteq DOMAIN Held(rows, j)
    PROVE  /\ Labelled(OnFile) /\ Answered(OnFile, Held(rows, j)) /\ DOMAIN OnFile = listed
           /\ \A i \in Counted(j) :
                /\ rows[i].id \in listed /\ RowsOf(rows, j)[i] = rows[i]
                /\ OnFile[rows[i].id] = Catalogue[rows[i].id]
                /\ Held(rows, j)[rows[i].id] = rows[i].verdict
<1>1. DOMAIN OnFile = listed /\ \A t \in listed : OnFile[t] = Catalogue[t]
  BY DEF OnFile
<1>2. IsFiniteSet(listed) /\ listed \subseteq DOMAIN Catalogue
  BY ListedIsFinite DEF OInv
<1>3. Labelled(OnFile)
  BY <1>1, <1>2, CatalogueAssumption, LabelsAssumption DEF Labelled
<1>4. Answered(OnFile, Held(rows, j))
  <2> SUFFICES ASSUME NEW t \in listed PROVE Held(rows, j)[t] \in Verdict
    BY <1>1 DEF Answered
  <2>1. PICK i \in DOMAIN rows : rows[i].judge = j /\ rows[i].id = t
    <3>1. DOMAIN Held(rows, j) = {rows[i].id : i \in {k \in DOMAIN rows : rows[k].judge = j}}
      BY HeldOnce
    <3> QED
      BY <3>1
  <2>2. Held(rows, j)[t] = rows[i].verdict
    BY <2>1, HeldOnce
  <2>3. RowWhole(rows[i])
    BY DEF OInv, JInv, RowsWhole
  <2> QED
    BY <2>2, <2>3 DEF RowWhole, Whole
<1>5. ASSUME NEW i \in Counted(j)
      PROVE  /\ rows[i].id \in listed /\ RowsOf(rows, j)[i] = rows[i]
             /\ Held(rows, j)[rows[i].id] = rows[i].verdict
  <2>1. i \in DOMAIN rows /\ rows[i].judge = j /\ rows[i].id \in listed /\ RowsOf(rows, j)[i] = rows[i]
    BY CountedFacts DEF OInv
  <2>2. \A k \in DOMAIN rows : rows[k].judge = j => Held(rows, j)[rows[k].id] = rows[k].verdict
    BY HeldOnce
  <2> QED
    BY <2>1, <2>2
<1> QED
  BY <1>1, <1>3, <1>4, <1>5

\* What the report counts over the rows, the scripts count over the trajectories.
LEMMA ScoresAlike ==
    ASSUME OInv, NEW j, listed \subseteq DOMAIN Held(rows, j)
    PROVE  LET s == Scores(Catalogue, listed, RowsOf(rows, j))
               m == Metrics(OnFile, Held(rows, j))
           IN  /\ m.truePositive = s.truePositive /\ m.falsePositive = s.falsePositive
               /\ m.falseNegative = s.falseNegative /\ m.clean = s.clean
               /\ m.silent = s.silent /\ m.silentCaught = s.silentCaught
               /\ m.loud = s.loud /\ m.loudCaught = s.loudCaught
               /\ m.stepScored = s.stepScored /\ m.stepExact = s.stepExact
<1> DEFINE own       == RowsOf(rows, j)
           pairs     == Paired(listed, own)
           s         == Scores(Catalogue, listed, own)
           flagged   == {i \in pairs : own[i].verdict.faulty}
           faulty    == {i \in pairs : Catalogue[own[i].id].faulty}
           silent    == {i \in pairs : Silent(Catalogue[own[i].id])}
           loud      == {i \in pairs : Loud(Catalogue[own[i].id])}
           localised == {i \in flagged \cap faulty :
                            Catalogue[own[i].id].step # None /\ own[i].verdict.step # None}
           exact     == {i \in localised : own[i].verdict.step = Catalogue[own[i].id].step}
           label     == OnFile
           held      == Held(rows, j)
           m         == Metrics(label, held)
           T         == DOMAIN label
           flaggedT  == {t \in T : held[t].faulty}
           faultyT   == {t \in T : label[t].faulty}
           silentT   == {t \in T : label[t].faulty /\ label[t].correct}
           loudT     == {t \in T : label[t].faulty /\ ~ label[t].correct}
           localT    == {t \in faultyT \cap flaggedT : label[t].step >= 0 /\ held[t].step >= 0}
           exactT    == {t \in localT : label[t].step = held[t].step}
<1>1. /\ s.truePositive = Cardinality(flagged \cap faulty)
      /\ s.falsePositive = Cardinality(flagged \ faulty)
      /\ s.falseNegative = Cardinality(faulty \ flagged)
      /\ s.silent = Cardinality(silent) /\ s.silentCaught = Cardinality(silent \cap flagged)
      /\ s.loud = Cardinality(loud) /\ s.loudCaught = Cardinality(loud \cap flagged)
      /\ s.clean = Cardinality(pairs \ faulty)
      /\ s.stepScored = Cardinality(localised) /\ s.stepExact = Cardinality(exact)
  BY DEF Scores
<1>2. /\ m.truePositive = Cardinality(faultyT \cap flaggedT)
      /\ m.falsePositive = Cardinality(flaggedT \ faultyT)
      /\ m.falseNegative = Cardinality(faultyT \ flaggedT)
      /\ m.silent = Cardinality(silentT) /\ m.silentCaught = Cardinality(silentT \cap flaggedT)
      /\ m.loud = Cardinality(loudT) /\ m.loudCaught = Cardinality(loudT \cap flaggedT)
      /\ m.clean = Cardinality(T \ faultyT)
      /\ m.stepScored = Cardinality(localT) /\ m.stepExact = Cardinality(exactT)
  BY DEF Metrics
<1>3. pairs = Counted(j) /\ T = listed
  BY FilesAreRead DEF Counted
<1>4. \A i \in pairs : /\ own[i] = rows[i] /\ rows[i].id \in T
                       /\ label[rows[i].id] = Catalogue[rows[i].id]
                       /\ held[rows[i].id] = rows[i].verdict
                       /\ Catalogue[rows[i].id].step \in Nat \cup {None}
                       /\ rows[i].verdict.step \in Nat \cup {None}
  BY <1>3, FilesAreRead, CountedFacts DEF OInv
<1> HIDE DEF s, m, own, pairs, label, held, T
<1>5. \A i \in pairs : /\ i \in flagged <=> rows[i].id \in flaggedT
                       /\ i \in faulty <=> rows[i].id \in faultyT
                       /\ i \in silent <=> rows[i].id \in silentT
                       /\ i \in loud <=> rows[i].id \in loudT
  BY <1>4 DEF Silent, Loud
<1>6. \A i \in pairs : i \in localised <=> rows[i].id \in localT
  <2> SUFFICES ASSUME NEW i \in pairs PROVE i \in localised <=> rows[i].id \in localT
    OBVIOUS
  <2>1. /\ Catalogue[own[i].id].step # None <=> label[rows[i].id].step >= 0
        /\ own[i].verdict.step # None <=> held[rows[i].id].step >= 0
    BY <1>4 DEF None
  <2> HIDE DEF flagged, faulty, flaggedT, faultyT
  <2> QED
    BY <1>5, <2>1
<1>7. \A i \in pairs : i \in exact <=> rows[i].id \in exactT
  <2> SUFFICES ASSUME NEW i \in pairs PROVE i \in exact <=> rows[i].id \in exactT
    OBVIOUS
  <2>1. own[i].verdict.step = Catalogue[own[i].id].step <=> label[rows[i].id].step = held[rows[i].id].step
    BY <1>4
  <2> HIDE DEF localised, localT
  <2> QED
    BY <1>6, <2>1
<1>8. /\ flagged \subseteq pairs /\ faulty \subseteq pairs /\ silent \subseteq pairs
      /\ loud \subseteq pairs /\ localised \subseteq pairs /\ exact \subseteq pairs
      /\ flaggedT \subseteq T /\ faultyT \subseteq T /\ silentT \subseteq T
      /\ loudT \subseteq T /\ localT \subseteq T /\ exactT \subseteq T
  OBVIOUS
<1> HIDE DEF flagged, faulty, silent, loud, localised, exact, flaggedT, faultyT, silentT, loudT, localT, exactT
<1>9. ASSUME NEW X, NEW Y, X \subseteq pairs, Y \subseteq T, \A i \in pairs : i \in X <=> rows[i].id \in Y
      PROVE  Cardinality(X) = Cardinality(Y)
  BY <1>3, <1>9, CountedAlike DEF held
<1>10. m.truePositive = s.truePositive
  <2>1. /\ flagged \cap faulty \subseteq pairs /\ faultyT \cap flaggedT \subseteq T
        /\ \A i \in pairs : i \in flagged \cap faulty <=> rows[i].id \in faultyT \cap flaggedT
    BY <1>5, <1>8
  <2> QED
    BY <1>1, <1>2, <1>9, <2>1
<1>11. m.falsePositive = s.falsePositive
  <2>1. /\ flagged \ faulty \subseteq pairs /\ flaggedT \ faultyT \subseteq T
        /\ \A i \in pairs : i \in flagged \ faulty <=> rows[i].id \in flaggedT \ faultyT
    BY <1>5, <1>8
  <2> QED
    BY <1>1, <1>2, <1>9, <2>1
<1>12. m.falseNegative = s.falseNegative
  <2>1. /\ faulty \ flagged \subseteq pairs /\ faultyT \ flaggedT \subseteq T
        /\ \A i \in pairs : i \in faulty \ flagged <=> rows[i].id \in faultyT \ flaggedT
    BY <1>5, <1>8
  <2> QED
    BY <1>1, <1>2, <1>9, <2>1
<1>13. m.clean = s.clean
  <2>1. /\ pairs \ faulty \subseteq pairs /\ T \ faultyT \subseteq T
        /\ \A i \in pairs : i \in pairs \ faulty <=> rows[i].id \in T \ faultyT
    BY <1>4, <1>5
  <2> QED
    BY <1>1, <1>2, <1>9, <2>1
<1>14. m.silent = s.silent /\ m.loud = s.loud
  <2>1. Cardinality(silent) = Cardinality(silentT)
    BY <1>5, <1>8, <1>9
  <2>2. Cardinality(loud) = Cardinality(loudT)
    BY <1>5, <1>8, <1>9
  <2> QED
    BY <1>1, <1>2, <2>1, <2>2
<1>15. m.silentCaught = s.silentCaught
  <2>1. /\ silent \cap flagged \subseteq pairs /\ silentT \cap flaggedT \subseteq T
        /\ \A i \in pairs : i \in silent \cap flagged <=> rows[i].id \in silentT \cap flaggedT
    BY <1>5, <1>8
  <2> QED
    BY <1>1, <1>2, <1>9, <2>1
<1>16. m.loudCaught = s.loudCaught
  <2>1. /\ loud \cap flagged \subseteq pairs /\ loudT \cap flaggedT \subseteq T
        /\ \A i \in pairs : i \in loud \cap flagged <=> rows[i].id \in loudT \cap flaggedT
    BY <1>5, <1>8
  <2> QED
    BY <1>1, <1>2, <1>9, <2>1
<1>17. m.stepScored = s.stepScored /\ m.stepExact = s.stepExact
  <2>1. Cardinality(localised) = Cardinality(localT)
    BY <1>6, <1>8, <1>9
  <2>2. Cardinality(exact) = Cardinality(exactT)
    BY <1>7, <1>8, <1>9
  <2> QED
    BY <1>1, <1>2, <2>1, <2>2
<1> QED
  BY <1>10, <1>11, <1>12, <1>13, <1>14, <1>15, <1>16, <1>17 DEF s, m, own, label, held

\* The bins, whose one is found by a ceiling there and by a comparison here.
LEMMA BinsAlike ==
    ASSUME OInv, NEW j, listed \subseteq DOMAIN Held(rows, j)
    PROVE  BinCounts(OnFile, Held(rows, j)) = Bins(Catalogue, listed, RowsOf(rows, j))
<1> DEFINE own   == RowsOf(rows, j)
           pairs == Paired(listed, own)
           label == OnFile
           held  == Held(rows, j)
           T     == DOMAIN label
           In(c, bin) == (10 * bin < c /\ c =< 10 * (bin + 1)) \/ (bin = 0 /\ c = 0)
<1>1. pairs = Counted(j) /\ T = listed
  BY FilesAreRead DEF Counted
<1>2. \A i \in pairs : /\ own[i] = rows[i] /\ rows[i].id \in T
                       /\ label[rows[i].id] = Catalogue[rows[i].id]
                       /\ held[rows[i].id] = rows[i].verdict
                       /\ rows[i].verdict.confidence \in 50 .. 100
  BY <1>1, FilesAreRead, CountedFacts DEF OInv
<1>3. ASSUME NEW bin \in 0 .. 9
      PROVE  BinCounts(label, held)[bin] = Bins(Catalogue, listed, own)[bin]
  <2> DEFINE members == {i \in pairs : In(own[i].verdict.confidence, bin)}
             right   == {i \in members : Right(Catalogue, own[i])}
             those   == {t \in T : BinOf(held[t].confidence) = bin}
             well    == {t \in those : label[t].faulty = held[t].faulty}
  <2>1. Bins(Catalogue, listed, own)[bin] = [of |-> Cardinality(members), right |-> Cardinality(right)]
    BY DEF Bins
  <2>2. BinCounts(label, held)[bin] = [of |-> Cardinality(those), right |-> Cardinality(well)]
    BY DEF BinCounts
  <2>3. \A i \in pairs : i \in members <=> rows[i].id \in those
    <3> SUFFICES ASSUME NEW i \in pairs PROVE i \in members <=> rows[i].id \in those
      OBVIOUS
    <3>1. In(rows[i].verdict.confidence, bin) <=> BinOf(rows[i].verdict.confidence) = bin
      BY <1>2, OneBin
    <3> HIDE DEF In, own, pairs, label, held, T
    <3> QED
      BY <1>2, <3>1
  <2>4. \A i \in pairs : i \in right <=> rows[i].id \in well
    <3> SUFFICES ASSUME NEW i \in pairs PROVE i \in right <=> rows[i].id \in well
      OBVIOUS
    <3>1. Right(Catalogue, own[i]) <=> label[rows[i].id].faulty = held[rows[i].id].faulty
      BY <1>2 DEF Right
    <3> HIDE DEF members, those, own, pairs, label, held, T
    <3> QED
      BY <2>3, <3>1
  <2>5. members \subseteq pairs /\ right \subseteq pairs /\ those \subseteq T /\ well \subseteq T
    OBVIOUS
  <2> HIDE DEF members, right, those, well, In, own, pairs, label, T
  <2>6. Cardinality(members) = Cardinality(those)
    BY <1>1, <2>3, <2>5, CountedAlike
  <2>7. Cardinality(right) = Cardinality(well)
    BY <1>1, <2>4, <2>5, CountedAlike
  <2> QED
    BY <2>1, <2>2, <2>6, <2>7
<1>4. /\ BinCounts(label, held) = [bin \in 0 .. 9 |-> BinCounts(label, held)[bin]]
      /\ Bins(Catalogue, listed, own) = [bin \in 0 .. 9 |-> Bins(Catalogue, listed, own)[bin]]
  BY DEF BinCounts, Bins
<1> HIDE DEF own, label, held
<1>5. BinCounts(label, held) = Bins(Catalogue, listed, own)
  BY <1>3, <1>4
<1> QED
  BY <1>5 DEF own, label, held

\* The types: what is hit, missed and caught.
LEMMA TypesAlike ==
    ASSUME OInv, NEW j, listed \subseteq DOMAIN Held(rows, j), NEW type \in FailureTypes
    PROVE  LET types == TypeCounts(OnFile, Held(rows, j))
               own   == RowsOf(rows, j)
               per   == PerType(Catalogue, listed, own)
           IN  /\ types[type].hit = Confusion(Catalogue, listed, own)[type][type]
               /\ types[type].hit + types[type].missed = per[type].of
               /\ types[type].caught = per[type].caught
<1> DEFINE own   == RowsOf(rows, j)
           pairs == Paired(listed, own)
           label == OnFile
           held  == Held(rows, j)
           T     == DOMAIN label
           types == TypeCounts(label, held)
           per   == PerType(Catalogue, listed, own)
           typed == {t \in T : label[t].faulty /\ label[t].type # "none"}
           pred(t) == IF held[t].faulty /\ held[t].type # "none" THEN held[t].type ELSE "missed"
           Said(i) == IF own[i].verdict.faulty /\ own[i].verdict.type # "none"
                      THEN own[i].verdict.type ELSE "missed"
           Is    == {t \in typed : label[t].type = type}
           Told0 == {t \in typed : pred(t) = type}
           found == {t \in Is : held[t].faulty}
           hosts == {i \in pairs : Catalogue[own[i].id].type = type}
           caught == {i \in hosts : own[i].verdict.faulty}
           hit   == {i \in pairs : /\ Catalogue[own[i].id].faulty /\ Catalogue[own[i].id].type = type
                                   /\ type = Said(i)}
<1>1. pairs = Counted(j) /\ T = listed
  BY FilesAreRead DEF Counted
<1>2. \A i \in pairs : /\ own[i] = rows[i] /\ rows[i].id \in T
                       /\ label[rows[i].id] = Catalogue[rows[i].id]
                       /\ held[rows[i].id] = rows[i].verdict
                       /\ Catalogue[rows[i].id].type # "none" => Catalogue[rows[i].id].faulty
  BY <1>1, FilesAreRead, CountedFacts DEF OInv
<1>3. /\ types[type].hit = Cardinality(Is \cap Told0) /\ types[type].missed = Cardinality(Is \ Told0)
      /\ types[type].caught = Cardinality(found)
  BY DEF TypeCounts
<1>4. per[type].of = Cardinality(hosts) /\ per[type].caught = Cardinality(caught)
  BY DEF PerType
<1>5. Confusion(Catalogue, listed, own)[type][type] = Cardinality(hit)
  BY DEF Confusion
<1>6. type # "none"
  BY DEF FailureTypes
<1>7. \A i \in pairs : i \in hosts <=> rows[i].id \in Is
  <2> HIDE DEF own, pairs, label, held, T
  <2> QED
    BY <1>2, <1>6
<1>8. \A i \in pairs : i \in caught <=> rows[i].id \in found
  <2> SUFFICES ASSUME NEW i \in pairs PROVE i \in caught <=> rows[i].id \in found
    OBVIOUS
  <2>1. own[i].verdict.faulty <=> held[rows[i].id].faulty
    BY <1>2
  <2> HIDE DEF hosts, Is, own, pairs, label, held, T
  <2> QED
    BY <1>7, <2>1
<1>9. \A i \in pairs : i \in hit <=> rows[i].id \in Is \cap Told0
  <2> SUFFICES ASSUME NEW i \in pairs PROVE i \in hit <=> rows[i].id \in Is \cap Told0
    OBVIOUS
  <2>1. Said(i) = pred(rows[i].id)
    BY <1>2
  <2>2. i \in hit <=> i \in hosts /\ type = Said(i)
    <3> HIDE DEF own, pairs, Said
    <3> QED
      BY <1>2, <1>6
  <2>3. rows[i].id \in Is \cap Told0 <=> rows[i].id \in Is /\ pred(rows[i].id) = type
    <3> HIDE DEF label, held, T, pred
    <3> QED
      OBVIOUS
  <2> HIDE DEF hit, hosts, Is, Told0, Said, pred, pairs
  <2> QED
    BY <1>7, <2>1, <2>2, <2>3
<1>10. /\ hosts \subseteq pairs /\ caught \subseteq pairs /\ hit \subseteq pairs
       /\ Is \subseteq T /\ found \subseteq T /\ Is \cap Told0 \subseteq T
  OBVIOUS
<1> HIDE DEF own, pairs, label, T, types, per, typed, Is, Told0, found, hosts, caught, hit
<1>11. Cardinality(hosts) = Cardinality(Is)
  BY <1>1, <1>7, <1>10, CountedAlike
<1>12. Cardinality(caught) = Cardinality(found)
  BY <1>1, <1>8, <1>10, CountedAlike
<1>13. Cardinality(hit) = Cardinality(Is \cap Told0)
  BY <1>1, <1>9, <1>10, CountedAlike
<1>14. Cardinality(Is) = Cardinality(Is \cap Told0) + Cardinality(Is \ Told0)
  <2>1. \A x : x \in Is <=> x \in Is \cap Told0 \/ x \in Is \ Told0
    OBVIOUS
  <2>2. \A x : ~ (x \in Is \cap Told0 /\ x \in Is \ Told0)
    OBVIOUS
  <2>3. IsFiniteSet(Is)
    BY <1>1, <1>7, <1>10, CountedAlike
  <2> QED
    BY <2>1, <2>2, <2>3, Parts
<1> QED
  BY <1>3, <1>4, <1>5, <1>11, <1>12, <1>13, <1>14 DEF types, per, own, label

\* A vote that flags had a call that said so.
LEMMA VotesWereTold ==
    ASSUME OInv, listed \subseteq DOMAIN Held(rows, "selfcons")
    PROVE  AnyVote(OnFile, Told("selfcons")).sens >= Located(OnFile, Held(rows, "selfcons")).detected
<1> DEFINE label    == OnFile
           held     == Held(rows, "selfcons")
           detected == {t \in DOMAIN label : label[t].faulty /\ held[t].faulty}
           told     == {t \in DOMAIN label : label[t].faulty /\ Told("selfcons")[t] >= 1}
<1>1. DOMAIN label = listed /\ IsFiniteSet(listed)
  BY FilesAreRead, ListedIsFinite DEF OInv
<1>2. ASSUME NEW t \in listed, held[t].faulty PROVE Told("selfcons")[t] >= 1
  <2> DEFINE place == CHOOSE i \in DOMAIN rows : rows[i].id = t /\ rows[i].judge = "selfcons"
  <2>1. \E i \in DOMAIN rows : rows[i].id = t /\ rows[i].judge = "selfcons"
    <3>1. DOMAIN held = {rows[i].id : i \in {k \in DOMAIN rows : rows[k].judge = "selfcons"}}
      BY HeldOnce
    <3> QED
      BY <3>1
  <2>2. place \in DOMAIN rows /\ rows[place].id = t /\ rows[place].judge = "selfcons"
    BY <2>1
  <2>3. Told("selfcons")[t] = rows[place].told
    BY DEF Told
  <2> HIDE DEF place
  <2>4. rows[place].verdict.faulty
    BY <1>2, <2>2, HeldOnce
  <2>5. RowWhole(rows[place])
    BY <2>2 DEF OInv, JInv, RowsWhole
  <2>6. rows[place].told \in Nat /\ 2 * rows[place].told > K
    BY <2>2, <2>4, <2>5 DEF RowWhole, LlmJudges
  <2> QED
    BY <2>3, <2>6, VoteAssumption
<1>3. detected \subseteq told /\ told \subseteq listed
  BY <1>1, <1>2
<1>4. /\ Located(label, held).detected = Cardinality(detected)
      /\ AnyVote(label, Told("selfcons")).sens = Cardinality(told)
  BY DEF Located, AnyVote
<1> HIDE DEF detected, told
<1>5. IsFiniteSet(told) /\ Cardinality(told) \in Nat
  BY <1>1, <1>3, Within
<1>6. Cardinality(detected) =< Cardinality(told) /\ Cardinality(detected) \in Nat
  BY <1>3, <1>5, Within
<1> QED
  BY <1>4, <1>5, <1>6

\* Whatever is judged, whatever a model answers and whatever set is on file: once a judge has
\* judged all of it, the scripts of the paper and the report read the same numbers out of the
\* file, and the pairs and the scenarios add up to them (bootstrap_ci.py, paired_ci.py).
THEOREM ReadersDoAgree == ASSUME NamedOnce PROVE Spec => []ReadersAgree
<1>1. ASSUME OInv, NEW p \in DOMAIN Report(Catalogue, listed, rows),
             listed \subseteq DOMAIN Held(rows, Report(Catalogue, listed, rows)[p].judge)
      PROVE  LET row     == Report(Catalogue, listed, rows)[p]
                 held    == Held(rows, row.judge)
                 label   == [t \in listed |-> Catalogue[t]]
                 counts  == Metrics(label, held)
                 types   == TypeCounts(label, held)
                 located == Located(label, held)
                 pairs   == PairedTable(label, held)
                 design  == Design(label)
                 whole   == TrajectoryMetrics(label, held)
                 flags   == CellFlags(label, held)
                 scenes  == ByScenario(label, held)
             IN /\ \A f \in DOMAIN counts : counts[f] = row.scores[f]
                /\ BinCounts(label, held) = row.bins
                /\ \A type \in FailureTypes :
                    /\ types[type].hit = row.confusion[type][type]
                    /\ types[type].hit + types[type].missed = row.perType[type].of
                    /\ types[type].caught = row.perType[type].caught
                    /\ types[type].caught = FlagsByType(label, held)[type]
                /\ located.detected = row.scores.truePositive
                /\ located.exact = row.scores.stepExact
                /\ located.valid + located.invalid = located.detected
                /\ whole.detected = located.detected /\ whole.exact = located.exact
                /\ whole.typed + located.mistyped = whole.detected
                /\ whole.keptExact =< whole.keptFound /\ whole.kept - whole.keptFound =< row.scores.falseNegative
                /\ CleanFlags(label, held) = row.scores.falsePositive
                /\ whole.alarms = row.scores.falsePositive
                /\ flags["loud"] = row.scores.loudCaught /\ flags["silent"] = row.scores.silentCaught
                /\ flags["reply_same_kept"] + flags["reply_same_broke"] = flags["reply_same"]
                /\ Sum([scene \in DOMAIN scenes |-> scenes[scene].cleanFlagged]) = row.scores.falsePositive
                /\ Sum([scene \in DOMAIN scenes |-> scenes[scene].sameFlagged]) = flags["reply_same"]
                /\ Sum([scene \in DOMAIN scenes |-> scenes[scene].same]) = design.within["reply_same"]
                /\ \A t \in listed : Stratum(label[t].instance) = DifficultyOf(t[1])
                /\ \A cell \in CellNames :
                    pairs[cell].b10 - pairs[cell].b01
                        = Cardinality({q \in Pairs(label) : InCell(label[q[1]], cell) /\ held[q[1]].faulty})
                          - Cardinality({q \in Pairs(label) : InCell(label[q[1]], cell) /\ held[q[2]].faulty})
                /\ \A cell \in CellNames :
                    pairs[cell].b10 =< flags[cell] /\ pairs[cell].n =< design.within[cell]
                /\ \A type \in FailureTypes : flags[type] = types[type].caught
                /\ pairs["loud"].n + pairs["silent"].n = design.pairs
                /\ pairs["reply_same"].n + pairs["reply_changed"].n = design.pairs
                /\ design.latePairs >= design.lateParents
                /\ row.judge = "selfcons" => AnyVote(label, Told(row.judge)).sens >= located.detected
  <2> DEFINE row     == Report(Catalogue, listed, rows)[p]
             j       == row.judge
             held    == Held(rows, j)
             label   == [t \in listed |-> Catalogue[t]]
             counts  == Metrics(label, held)
             types   == TypeCounts(label, held)
             located == Located(label, held)
             pairs   == PairedTable(label, held)
             design  == Design(label)
             whole   == TrajectoryMetrics(label, held)
             flags   == CellFlags(label, held)
             scenes  == ByScenario(label, held)
             s       == Scores(Catalogue, listed, RowsOf(rows, j))
  <2>1. /\ row.scores = s /\ row.bins = Bins(Catalogue, listed, RowsOf(rows, j))
        /\ row.perType = PerType(Catalogue, listed, RowsOf(rows, j))
        /\ row.confusion = Confusion(Catalogue, listed, RowsOf(rows, j))
    <3> DEFINE k == JudgeOrder(rows)[p]
    <3>1. DOMAIN Report(Catalogue, listed, rows) = DOMAIN JudgeOrder(rows)
      BY DEF Report
    <3>2. /\ row.judge = k
          /\ row.scores = Scores(Catalogue, listed, RowsOf(rows, k))
          /\ row.bins = Bins(Catalogue, listed, RowsOf(rows, k))
          /\ row.perType = PerType(Catalogue, listed, RowsOf(rows, k))
          /\ row.confusion = Confusion(Catalogue, listed, RowsOf(rows, k))
      BY <1>1, <3>1 DEF Report
    <3> HIDE DEF k, row
    <3> QED
      BY <3>2
  <2>2. label = OnFile /\ OInv /\ listed \subseteq DOMAIN Held(rows, j)
    BY <1>1 DEF OnFile
  <2> HIDE DEF row, j, label
  <2>3. Labelled(label) /\ Answered(label, held) /\ DOMAIN label = listed
    BY <2>2, FilesAreRead
  <2>4. /\ counts.truePositive = s.truePositive /\ counts.falsePositive = s.falsePositive
        /\ counts.falseNegative = s.falseNegative /\ counts.clean = s.clean
        /\ counts.silent = s.silent /\ counts.silentCaught = s.silentCaught
        /\ counts.loud = s.loud /\ counts.loudCaught = s.loudCaught
        /\ counts.stepScored = s.stepScored /\ counts.stepExact = s.stepExact
    BY <2>2, ScoresAlike
  <2>5. \A f \in DOMAIN counts : counts[f] = row.scores[f]
    <3>1. DOMAIN counts = {"truePositive", "falsePositive", "falseNegative", "silentCaught", "silent",
                           "loudCaught", "loud", "clean", "stepScored", "stepExact"}
      BY DEF Metrics
    <3> HIDE DEF counts, s
    <3> QED
      BY <2>1, <2>4, <3>1
  <2>6. BinCounts(label, held) = row.bins
    BY <2>1, <2>2, BinsAlike
  <2>7. \A type \in FailureTypes : /\ types[type].hit = row.confusion[type][type]
                                   /\ types[type].hit + types[type].missed = row.perType[type].of
                                   /\ types[type].caught = row.perType[type].caught
    BY <2>1, <2>2, TypesAlike
  <2>8. /\ located.detected = counts.truePositive
        /\ located.exact = counts.stepExact
        /\ located.valid + located.invalid = located.detected
        /\ whole.detected = located.detected /\ whole.exact = located.exact
        /\ whole.typed + located.mistyped = whole.detected
        /\ whole.keptExact =< whole.keptFound
        /\ whole.kept - whole.keptFound =< counts.falseNegative
        /\ CleanFlags(label, held) = counts.falsePositive
        /\ whole.alarms = counts.falsePositive
    BY <2>3, StepsAgree
  <2>9. /\ flags["loud"] = counts.loudCaught /\ flags["silent"] = counts.silentCaught
        /\ flags["reply_same_kept"] + flags["reply_same_broke"] = flags["reply_same"]
        /\ \A type \in FailureTypes : /\ types[type].caught = FlagsByType(label, held)[type]
                                      /\ flags[type] = types[type].caught
    BY <2>3, CellsAgree
  <2>10. /\ Sum([scene \in DOMAIN scenes |-> scenes[scene].cleanFlagged]) = counts.falsePositive
         /\ Sum([scene \in DOMAIN scenes |-> scenes[scene].sameFlagged]) = flags["reply_same"]
         /\ Sum([scene \in DOMAIN scenes |-> scenes[scene].same]) = design.within["reply_same"]
    BY <2>3, ScenesAgree
  <2>11. \A t \in listed : Stratum(label[t].instance) = DifficultyOf(t[1])
    <3> SUFFICES ASSUME NEW t \in listed PROVE Stratum(label[t].instance) = DifficultyOf(t[1])
      OBVIOUS
    <3>1. t \in DOMAIN Catalogue
      BY <2>2, ListedIsFinite DEF OInv
    <3>2. label[t].instance = t[1] /\ t[1] \in Nat
      BY <2>2, <3>1, CatalogueAssumption, LabelsAssumption DEF OnFile
    <3> QED
      BY <3>2, EveryScene
  <2>12. /\ \A cell \in CellNames :
              /\ pairs[cell].b10 - pairs[cell].b01
                    = Cardinality({q \in Pairs(label) : InCell(label[q[1]], cell) /\ held[q[1]].faulty})
                      - Cardinality({q \in Pairs(label) : InCell(label[q[1]], cell) /\ held[q[2]].faulty})
              /\ pairs[cell].b10 =< flags[cell] /\ pairs[cell].n =< design.within[cell]
         /\ pairs["loud"].n + pairs["silent"].n = design.pairs
         /\ pairs["reply_same"].n + pairs["reply_changed"].n = design.pairs
    BY <2>3, TableAgrees
  <2>13. design.latePairs >= design.lateParents
    BY <2>3, LateOnes
  <2>14. row.judge = "selfcons" => AnyVote(label, Told(row.judge)).sens >= located.detected
    BY <2>2, VotesWereTold DEF j
  <2> HIDE DEF held, counts, types, located, pairs, design, whole, flags, scenes, s
  <2>15. /\ located.detected = row.scores.truePositive
         /\ located.exact = row.scores.stepExact
         /\ whole.kept - whole.keptFound =< row.scores.falseNegative
         /\ CleanFlags(label, held) = row.scores.falsePositive
         /\ whole.alarms = row.scores.falsePositive
         /\ flags["loud"] = row.scores.loudCaught /\ flags["silent"] = row.scores.silentCaught
         /\ Sum([scene \in DOMAIN scenes |-> scenes[scene].cleanFlagged]) = row.scores.falsePositive
    BY <2>1, <2>4, <2>8, <2>9, <2>10
  <2>16. \A type \in FailureTypes : /\ types[type].hit = row.confusion[type][type]
                                    /\ types[type].hit + types[type].missed = row.perType[type].of
                                    /\ types[type].caught = row.perType[type].caught
                                    /\ types[type].caught = FlagsByType(label, held)[type]
    BY <2>7, <2>9
  <2> QED
    BY <2>5, <2>6, <2>8, <2>9, <2>10, <2>11, <2>12, <2>13, <2>14, <2>15, <2>16
       DEF held, counts, types, located, pairs, design, whole, flags, scenes, label, j, row
<1>2. OInv => ReadersAgree
  BY <1>1 DEF ReadersAgree
<1> QED
  BY <1>2, OnceInvariance, PTL
=============================================================================
