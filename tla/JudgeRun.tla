------------------------------- MODULE JudgeRun -------------------------------
(* The run command (cli.py) over the files of store.py: one process at a time  *)
(* judges a set of trajectories, appends what it gets, may die at any point,   *)
(* and is started again, with the same arguments or with others.               *)
EXTENDS Integers, Sequences, FiniteSets

CONSTANTS
    Trajectories,   \* trajectory ids
    JudgeIds,       \* judge ids, the second half of a verdict's key
    CallsOf,        \* model calls one verdict of a judge takes
    Sampled,        \* the self-consistency judges
    Invocations,    \* the command lines considered
    MaxFailures,    \* MAX_CONSECUTIVE_FAILURES
    Replies,        \* what a model call may come to
    DyingAt,        \* where the process may be killed
    MaxStarts       \* bound: how many times the command is started

\* A command line: the judges in order, the set in judging order, how much of it
\* the self-consistency judge covers, and --keep-responses.
Invocation == [judges : Seq(JudgeIds), order : Seq(Trajectories), subset : Nat, keep : BOOLEAN]

ASSUME CallsAssumption == CallsOf \in [JudgeIds -> Nat] /\ Sampled \subseteq JudgeIds
ASSUME InvocationsAssumption == Invocations \subseteq Invocation
ASSUME BoundsAssumption == MaxFailures \in Nat \ {0} /\ MaxStarts \in Nat
ASSUME RepliesAssumption == Replies \subseteq {"ok", "unusable", "failed"}

VARIABLES
    verdicts,    \* verdicts.jsonl
    responses,   \* responses.jsonl, the keys of its rows
    meta,        \* run.json: "absent", "empty" or "written"
    pc,          \* where the process is, "down" when there is none
    inv,         \* its command line
    done,        \* the resume set it read
    at,          \* index of the judge
    index,       \* index of the target
    verdict,     \* the verdict in hand
    streak, unjudged,
    exit,        \* how the last process ended
    starts

files == <<verdicts, responses, meta>>
memory == <<inv, done, at, index, verdict, streak, unjudged>>
vars == <<verdicts, responses, meta, pc, inv, done, at, index, verdict, streak, unjudged,
          exit, starts>>

Point == {"meta", "next", "call", "keep", "store"}
Key == Trajectories \X JudgeIds

\* error is that of the verdict; failed says that some call it took got no answer,
\* which the row does not hold.
Verdict == [key : Key, error : {"none", "unusable", "failed"}, failed : BOOLEAN]
NoVerdict == [key |-> <<>>, error |-> "none", failed |-> FALSE]

\* judged_keys
Keys == {verdicts[i].key : i \in DOMAIN verdicts}

\* How many of the set a judge covers: all of it, or a prefix.
Covered(i, judge) ==
    IF judge \in Sampled /\ i.subset < Len(i.order) THEN i.subset ELSE Len(i.order)

Judge == inv.judges[at]
Current == <<inv.order[index], Judge>>

\* The judges whose response can be kept: LlmJudge, one call to a verdict.
IsLlmJudge(judge) == judge \notin Sampled /\ CallsOf[judge] = 1

\* The error of a verdict, from those of its calls in order: the first one there is.
ErrorOf(replies) ==
    IF \A c \in DOMAIN replies : replies[c] = "ok" THEN "none"
    ELSE replies[CHOOSE c \in DOMAIN replies :
                    /\ replies[c] # "ok"
                    /\ \A b \in DOMAIN replies : b < c => replies[b] = "ok"]

\* Mutant: an answer that cannot be parsed counts as no answer, and the reverse.
UnusableIsFailed(v) == v.error = "unusable"

\* _call_failed
CallFailed(v) == v.error = "failed"

Init ==
    /\ verdicts = <<>> /\ responses = <<>> /\ meta = "absent"
    /\ pc = "down"
    /\ inv \in Invocations
    /\ done = {} /\ at = 1 /\ index = 1 /\ verdict = NoVerdict
    /\ streak = 0 /\ unjudged = 0
    /\ exit = "none" /\ starts = 0

\* The command starts: it writes the set, reads run.json and opens it for writing,
\* which empties it.
Start(i) ==
    /\ pc = "down" /\ starts < MaxStarts
    /\ meta # "empty"
    /\ meta' = "empty"
    /\ pc' = "meta"
    /\ inv' = i
    /\ starts' = starts + 1
    /\ exit' = "none"
    /\ UNCHANGED <<verdicts, responses, done, at, index, verdict, streak, unjudged>>

\* An empty run.json is no JSON: json.loads raises and the command ends.
StartFails(i) ==
    /\ pc = "down" /\ starts < MaxStarts
    /\ meta = "empty"
    /\ inv' = i
    /\ starts' = starts + 1
    /\ exit' = "traceback"
    /\ UNCHANGED <<files, pc, done, at, index, verdict, streak, unjudged>>

\* Mutant: the resume set is not read.
ResumeForgotten ==
    /\ pc = "meta"
    /\ meta' = "written"
    /\ done' = {}
    /\ at' = 1 /\ index' = 1 /\ streak' = 0 /\ unjudged' = 0 /\ verdict' = NoVerdict
    /\ pc' = "next"
    /\ UNCHANGED <<verdicts, responses, inv, exit, starts>>

\* run.json gets its text; then the resume set is read, once.
WriteMeta ==
    /\ pc = "meta"
    /\ meta' = "written"
    /\ done' = Keys
    /\ at' = 1 /\ index' = 1 /\ streak' = 0 /\ unjudged' = 0 /\ verdict' = NoVerdict
    /\ pc' = "next"
    /\ UNCHANGED <<verdicts, responses, inv, exit, starts>>

\* There is a target left for this judge.
HasTarget == pc = "next" /\ at =< Len(inv.judges) /\ index =< Covered(inv, Judge)

\* A target that the resume set holds.
Skip ==
    /\ HasTarget /\ Current \in done
    /\ index' = index + 1
    /\ UNCHANGED <<files, pc, inv, done, at, verdict, streak, unjudged, exit, starts>>

\* A pending one.
Take ==
    /\ HasTarget /\ Current \notin done
    /\ pc' = "call"
    /\ UNCHANGED <<files, memory, exit, starts>>

\* Mutant: the failed calls are counted for each judge.
UnjudgedPerJudge ==
    /\ pc = "next" /\ at =< Len(inv.judges) /\ index > Covered(inv, Judge)
    /\ at' = at + 1 /\ index' = 1 /\ streak' = 0 /\ unjudged' = 0
    /\ UNCHANGED <<files, pc, inv, done, verdict, exit, starts>>

NextJudge ==
    /\ pc = "next" /\ at =< Len(inv.judges) /\ index > Covered(inv, Judge)
    /\ at' = at + 1 /\ index' = 1 /\ streak' = 0
    /\ UNCHANGED <<files, pc, inv, done, verdict, unjudged, exit, starts>>

\* Mutant: only the response behind a good verdict is kept.
KeepsGoodOnes(replies) ==
    /\ verdict' = [key |-> Current, error |-> ErrorOf(replies),
                   failed |-> \E c \in DOMAIN replies : replies[c] = "failed"]
    /\ pc' = IF inv.keep /\ IsLlmJudge(Judge) /\ ErrorOf(replies) = "none" THEN "keep" ELSE "store"
    /\ UNCHANGED <<files, inv, done, at, index, streak, unjudged, exit, starts>>

\* judge.judge: it never raises, a call without an answer is in the verdict.  The
\* response of an LlmJudge that got an answer is kept.
Judged(replies) ==
    /\ verdict' = [key |-> Current, error |-> ErrorOf(replies),
                   failed |-> \E c \in DOMAIN replies : replies[c] = "failed"]
    /\ pc' = IF inv.keep /\ IsLlmJudge(Judge) /\ ~CallFailed(verdict') THEN "keep" ELSE "store"
    /\ UNCHANGED <<files, inv, done, at, index, streak, unjudged, exit, starts>>

Call ==
    /\ pc = "call"
    /\ \E replies \in [1 .. CallsOf[Judge] -> Replies] : Judged(replies)

\* append_response
KeepResponse ==
    /\ pc = "keep"
    /\ responses' = Append(responses, verdict.key)
    /\ pc' = "store"
    /\ UNCHANGED <<verdicts, meta, memory, exit, starts>>

\* Mutant: the streak is compared with > instead of >=.
OneMoreFailure(s) == s > MaxFailures

StopsAt(s) == s >= MaxFailures

\* Mutant: whatever is not a good verdict counts as unjudged.
CountsUnusable ==
    /\ pc = "store"
    /\ streak' = IF verdict.error = "none" THEN 0 ELSE streak + 1
    /\ unjudged' = IF verdict.error # "none" THEN unjudged + 1 ELSE unjudged
    /\ verdicts' = IF CallFailed(verdict) THEN verdicts ELSE Append(verdicts, verdict)
    /\ index' = index + 1
    /\ verdict' = NoVerdict
    /\ pc' = IF StopsAt(streak') THEN "down" ELSE "next"
    /\ exit' = IF StopsAt(streak') THEN "2" ELSE exit
    /\ UNCHANGED <<responses, meta, inv, done, at, starts>>

\* append_verdict, unless the call failed, and the end of the loop's body.
Store ==
    /\ pc = "store"
    /\ streak' = IF verdict.error = "none" THEN 0 ELSE streak + 1
    /\ unjudged' = IF CallFailed(verdict) THEN unjudged + 1 ELSE unjudged
    /\ verdicts' = IF CallFailed(verdict) THEN verdicts ELSE Append(verdicts, verdict)
    /\ index' = index + 1
    /\ verdict' = NoVerdict
    /\ pc' = IF StopsAt(streak') THEN "down" ELSE "next"
    /\ exit' = IF StopsAt(streak') THEN "2" ELSE exit
    /\ UNCHANGED <<responses, meta, inv, done, at, starts>>

\* Every judge has had its targets.
End ==
    /\ pc = "next" /\ at > Len(inv.judges)
    /\ pc' = "down"
    /\ exit' = IF unjudged > 0 THEN "3" ELSE "0"
    /\ UNCHANGED <<files, memory, starts>>

\* The process is killed; the files stay as they are.
Die ==
    /\ pc \in DyingAt
    /\ pc' = "down"
    /\ exit' = "killed"
    /\ UNCHANGED <<files, memory, starts>>

Process ==
    \/ WriteMeta \/ Skip \/ Take \/ NextJudge \/ Call \/ KeepResponse \/ Store \/ End

Next ==
    \/ \E i \in Invocations : Start(i) \/ StartFails(i)
    \/ Process
    \/ Die

Spec == Init /\ [][Next]_vars

-------------------------------------------------------------------------------
(* Properties *)

\* Every variable keeps its type, and a process stops at MaxFailures errors in a row.
TypeOK ==
    /\ verdicts \in Seq(Verdict)
    /\ responses \in Seq(Key)
    /\ meta \in {"absent", "empty", "written"}
    /\ pc \in Point \cup {"down"}
    /\ inv \in Invocations
    /\ done \in SUBSET Key
    /\ at \in Nat \ {0} /\ index \in Nat \ {0}
    /\ verdict \in Verdict \cup {NoVerdict}
    /\ streak \in 0 .. MaxFailures /\ unjudged \in Nat
    /\ exit \in {"none", "traceback", "killed", "0", "2", "3"}
    /\ starts \in 0 .. MaxStarts

\* Whatever kills and reruns there were, with the same command line or with another,
\* verdicts.jsonl holds at most one row of a trajectory and a judge (store.py: "keyed
\* by (trajectory_id, judge_id)"; cli.py: "already-judged pairs are skipped").
AtMostOneVerdict ==
    \A a, b \in DOMAIN verdicts : verdicts[a].key = verdicts[b].key => a = b

\* No stored verdict of a judge of one call, or of none, rests on a call that got no
\* answer (cli.py: such a verdict "is not stored").
SingleCallsAnswered ==
    \A a \in DOMAIN verdicts : CallsOf[verdicts[a].key[2]] =< 1 => ~verdicts[a].failed

\* No stored verdict at all does (test_run_guard.py: "never a failed call").
StoredWereAnswered == \A a \in DOMAIN verdicts : ~verdicts[a].failed

\* All that the process was asked for: a judge and a target by their places.
Places == {p \in (DOMAIN inv.judges) \X (DOMAIN inv.order) :
                p[2] =< Covered(inv, inv.judges[p[1]])}
KeyAt(p) == <<inv.order[p[2]], inv.judges[p[1]]>>
AskedFor == {KeyAt(p) : p \in Places}

\* A process that exits with 0 leaves a verdict on file for all it was asked for, the
\* ones of earlier processes included.
ZeroMeansAllJudged == exit = "0" => AskedFor \subseteq Keys

\* One that exits with 3 leaves something for the rerun.
ThreeMeansAGap == exit = "3" => ~(AskedFor \subseteq Keys)

\* A response without a verdict is what a kill between the two appends leaves: no more of
\* them than the command was started.
StraysAreKills == Len(responses) =< Len(verdicts) + starts

\* A process that keeps responses appends a verdict of an LLM judge only right after the
\* response it was read from, and what it keeps beyond that are strays (store.py: "kept next
\* to the verdict that was coerced from it").
ResponseComesFirst ==
    /\ [][ verdicts' # verdicts /\ inv.keep /\ IsLlmJudge(Judge) =>
              /\ responses # <<>>
              /\ responses[Len(responses)] = verdicts'[Len(verdicts')].key ]_vars
    /\ []StraysAreKills

\* The command can always be run again after it was interrupted (store.py: "the resume
\* logic that makes a long run survive being interrupted").
RerunStarts == exit # "traceback"

=============================================================================
