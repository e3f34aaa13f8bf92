------------------------------- MODULE Review -------------------------------
(***************************************************************************)
(* The GitHub action (examples/github-action/entrypoint.py, comment.py,    *)
(* gh.py): for every push to a pull request a run of the command line over *)
(* the changed files, whose exit code is the check, and its delivery: one  *)
(* summary comment that each push edits, and inline suggestions.           *)
(***************************************************************************)
EXTENDS Patch, FiniteSets

CONSTANTS
    Policies,      \* fail-on inputs of the workflow: none, any
    PageSize,      \* comments a listing returns (100)
    MaxPushes,     \* bound: pushes
    MaxHuman       \* bound: comments of people

ASSUME ReviewAssumption == PageSize \in Nat /\ MaxPushes \in Nat /\ MaxHuman \in Nat

Push == 1 .. MaxPushes

VARIABLES
    policy,     \* fail-on of the workflow
    heads,      \* the texts pushed
    job,        \* the action's run of each push; reported: its report is taken over
    comments,   \* the pull request's comments, oldest first: a push, or 0
    notes,      \* inline suggestions posted: [push, func]
    check,      \* the exit code the run ended with
    raced       \* history: did two runs of the action ever overlap?

reviewVars == <<policy, heads, job, comments, notes, check, raced>>

-----------------------------------------------------------------------------
(* cli/render.py, _fail_on_exit: the action always passes --fail-on.       *)
ExitCode(accepted) == IF policy = "any" /\ accepted # {} THEN 1 ELSE 0

InAction(p) == job[p] # None /\ job[p].at # "done"

PushText(t) ==
    /\ Len(heads) < MaxPushes
    /\ heads' = Append(heads, t)
    /\ job' = [job EXCEPT ![Len(heads) + 1] = 
                [at |-> "cli", found |-> {}, reported |-> FALSE, code |-> 0, seen |-> 0]]
    /\ raced' = (raced \/ \E p \in Push : InAction(p))
    /\ UNCHANGED <<policy, comments, notes, check>>

(* The command fails as a whole (2, or 1 for what nothing catches), having *)
(* printed nothing, which reads as no findings, or what is no report; or   *)
(* it reports what the gate accepted.  A unit that failed has none.  The   *)
(* report file and the step's outputs are written outside any try: where   *)
(* that fails, whatever the command said, the action ends here with a      *)
(* traceback, which is exit code 1 and no report.                          *)
RunCli(p) ==
    /\ InAction(p) /\ job[p].at = "cli"
    /\ \/ \E code \in {1, 2}, at \in {"list", "end"} :
            job' = [job EXCEPT ![p].at = at, ![p].code = code]
       \/ \E acc \in SUBSET Findable(heads[p]) :
            job' = [job EXCEPT ![p].at = "list", ![p].found = acc, ![p].reported = TRUE,
                               ![p].code = ExitCode(acc)]
    /\ UNCHANGED <<policy, heads, comments, notes, check, raced>>

(* The marker is looked for on the first page only.                        *)
Marked == {i \in DOMAIN comments : comments[i] # 0 /\ i <= PageSize}
Summaries == {i \in DOMAIN comments : comments[i] # 0}
Oldest(S) == CHOOSE i \in S : \A j \in S : i <= j

(* No token or no pull request, a request that fails: the delivery goes on *)
(* with the suggestions, or not at all.                                    *)
ListComments(p) ==
    /\ InAction(p) /\ job[p].at = "list"
    /\ \/ job' = [job EXCEPT ![p].at = "put", ![p].seen = IF Marked = {} THEN 0
                                                          ELSE Oldest(Marked)]
       \/ job' = [job EXCEPT ![p].at = "suggest"]
       \/ job' = [job EXCEPT ![p].at = "end"]
    /\ UNCHANGED <<policy, heads, comments, notes, check, raced>>

(* As a bug would have it: every run posts a comment of its own.           *)
PostSummary(p) ==
    /\ InAction(p) /\ job[p].at = "put"
    /\ \/ comments' = Append(comments, p)
       \/ UNCHANGED comments
    /\ job' = [job EXCEPT ![p].at = "suggest"]
    /\ UNCHANGED <<policy, heads, notes, check, raced>>

PutSummary(p) ==
    /\ InAction(p) /\ job[p].at = "put"
    /\ \/ comments' = IF job[p].seen = 0 THEN Append(comments, p)
                      ELSE [comments EXCEPT ![job[p].seen] = p]
       \/ UNCHANGED comments
    /\ job' = [job EXCEPT ![p].at = "suggest"]
    /\ UNCHANGED <<policy, heads, notes, check, raced>>

(* One request per hunk; GitHub refuses those outside the diff.            *)
Suggest(p) ==
    /\ InAction(p) /\ job[p].at = "suggest"
    /\ \E f \in SUBSET job[p].found : notes' = notes \union {[push |-> p, func |-> g] : g \in f}
    /\ job' = [job EXCEPT ![p].at = "end"]
    /\ UNCHANGED <<policy, heads, comments, check, raced>>

(* As a bug would have it: what goes wrong in the delivery fails the run.  *)
EndFailing(p) ==
    /\ InAction(p) /\ job[p].at = "end"
    /\ check' = [check EXCEPT ![p] = IF \E i \in DOMAIN comments : comments[i] = p
                                     THEN job[p].code ELSE 1]
    /\ job' = [job EXCEPT ![p].at = "done"]
    /\ UNCHANGED <<policy, heads, comments, notes, raced>>

(* Whatever became of the delivery, the command's exit code is returned.   *)
End(p) ==
    /\ InAction(p) /\ job[p].at = "end"
    /\ check' = [check EXCEPT ![p] = job[p].code]
    /\ job' = [job EXCEPT ![p].at = "done"]
    /\ UNCHANGED <<policy, heads, comments, notes, raced>>

HumanComments ==
    /\ Cardinality({i \in DOMAIN comments : comments[i] = 0}) < MaxHuman
    /\ comments' = Append(comments, 0)
    /\ UNCHANGED <<policy, heads, job, notes, check, raced>>

ReviewInit ==
    /\ policy \in Policies
    /\ heads = <<>> /\ comments = <<>> /\ notes = {} /\ raced = FALSE
    /\ job = [p \in Push |-> None]
    /\ check = [p \in Push |-> None]

ActionNext ==
    \/ \E p \in Push : RunCli(p) \/ ListComments(p) \/ PutSummary(p) \/ Suggest(p) \/ End(p)
    \/ HumanComments

-----------------------------------------------------------------------------
ReviewTypeOK ==
    /\ comments \in Seq({0} \union Push) /\ Len(heads) <= MaxPushes
    /\ \A n \in notes : n.func \in job[n.push].found \intersect Findable(heads[n.push])
    /\ check \in [Push -> {None, 0, 1, 2}]

(* "each push updates one comment instead of spamming" (gh.py:81): as long *)
(* as runs do not overlap and the first summary is on the page that is     *)
(* listed, there is one summary, whatever people write in between.         *)
OneSummary ==
    ~raced /\ Summaries # {} /\ Oldest(Summaries) <= PageSize => Summaries = {Oldest(Summaries)}

(* A posting failure never changes the check (entrypoint.py:170): once the *)
(* command's report is taken over, the check is what the policy makes of   *)
(* it (render.py:206), and where there is no report, or it could not be    *)
(* written down (entrypoint.py:164-168), it is never green.                *)
CheckTells ==
    \A p \in Push : check[p] # None =>
        IF job[p].reported
        THEN check[p] = IF policy = "any" /\ job[p].found # {} THEN 1 ELSE 0
        ELSE check[p] # 0
=============================================================================
