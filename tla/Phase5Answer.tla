---------------------------- MODULE Phase5Answer ----------------------------
(***************************************************************************)
(* One question on its way through Phase5Pipeline.answer: the Phase 4       *)
(* pipeline retrieves, generates with retries and settles an answer status; *)
(* nine agents then run one after the other, most of them through the model *)
(* router with its retries and fallback profiles; the consensus engine      *)
(* accepts, rejects or asks for one revision; the finalizer chooses the     *)
(* answer.  The dashboard state follows the events the pipeline publishes.  *)
(***************************************************************************)
EXTENDS Integers, Sequences

CONSTANTS
    GenerationRetries, \* generation_retries of Phase 4
    RouterRetries,     \* retries of every model profile
    Fallbacks,         \* fallback profiles of every model profile
    MaxRevisionLoops,  \* max_revision_loops of the Phase 5 configuration
    WeakAnswers,       \* weak_evidence_answer_allowed
    WeakExcerpts,      \* allow_extractive_fallback_for_weak_evidence
    MaxQuestions       \* bound: questions asked of the pipeline

ASSUME AnswerAssumption == /\ {GenerationRetries, RouterRetries, Fallbacks,
                               MaxRevisionLoops, MaxQuestions} \subseteq Nat
                           /\ {WeakAnswers, WeakExcerpts} \subseteq BOOLEAN

VARIABLES
    pc,        \* where the run is
    asked,     \* questions so far
    evidence,  \* what retrieval and selection found
    tries,     \* attempts made in the current generation or router call
    status4,   \* phase4_answer_status
    step,      \* the agent whose turn it is, an index of Agents
    revision,  \* 0, or 1 in the one-time revision
    draft,     \* AgentState.draft_answer
    reviews,   \* the four reviews: the draft reviewed and the verdict
    verdict,   \* consensus_decision, and the draft it was taken on
    answer,    \* the final answer and its status
    board      \* CommandCenterState: agents, run status, progress, revision, texts

vars == <<pc, asked, evidence, tries, status4, step, revision, draft, reviews,
          verdict, answer, board>>

Agents == <<"query_analyzer", "response_planner", "prompt_composer",
            "draft_generator", "critic_agent", "compliance_agent", "risk_agent",
            "evidence_verifier", "consensus_engine">>
Progress == <<25, 32, 42, 52, 60, 67, 74, 82, 89>>
Reviewers == {"critic_agent", "compliance_agent", "risk_agent", "evidence_verifier"}
Shown == {Agents[i] : i \in DOMAIN Agents}
            \cup {"phase4_retrieval", "evidence_selection", "finalizer"}
Agent == Agents[step]

Preserved == {"unsupported_query", "insufficient_evidence"}
Statuses == Preserved \cup {"answered"}
Outcomes == Statuses \cup {"none", "rejected"}
Drafts == {"none", "phase4", "first", "second"}
AgentStates == {"pending", "running", "completed", "failed", "skipped"}

NoEvidence == [confidence |-> "none", scored |-> FALSE, current |-> FALSE,
               support |-> FALSE, chunks |-> FALSE]
\* confidence: of the selected chunks; scored: their scores reach the minimum of
\* the fallback and, unless they are weak, not all came in by the adaptive
\* fallback; current: the question asks for current data, which the chunks may
\* support; chunks: some are left in the context.
Evidence == {e \in [confidence : {"none", "weak", "mixed", "strong"},
                    scored : BOOLEAN, current : BOOLEAN, support : BOOLEAN,
                    chunks : BOOLEAN] :
                e.confidence = "none" => ~e.scored /\ ~e.support /\ ~e.chunks}

NoReviews == [r \in Reviewers |-> [of |-> "none", passed |-> FALSE, high |-> FALSE]]
NoVerdict == [of |-> "none", decision |-> "none", status |-> "none"]
NoAnswer == [text |-> "none", status |-> "none"]
EmptyBoard == [agents |-> [a \in Shown |-> "pending"], run |-> "idle",
               progress |-> 0, revision |-> "none", draft |-> "none", final |-> "none"]

Init == /\ pc = "idle"
        /\ asked = 0
        /\ evidence = NoEvidence
        /\ tries = 0
        /\ status4 = "none"
        /\ step = 1
        /\ revision = 0
        /\ draft = "none"
        /\ reviews = NoReviews
        /\ verdict = NoVerdict
        /\ answer = NoAnswer
        /\ board = EmptyBoard

-----------------------------------------------------------------------------
(* The dashboard. *)

\* An event of an agent, and one that only carries progress.
Showing(agent, status, progress) ==
    [board EXCEPT !.agents[agent] = status, !.progress = progress]

\* Mutant of Panel: a draft is displayed even when there is a final answer.
PanelDraftFirst == IF board.draft # "none" THEN board.draft ELSE board.final

\* The answer panel of the browser: the final answer or, until there is one, the draft.
Panel == IF board.final # "none" THEN board.final ELSE board.draft

\* Mutant of Failed: agents that were not reached stay pending.
FailedOnly == [board EXCEPT !.run = "failed"]

\* run_failed: the agents that were not reached are skipped.
Failed == [board EXCEPT !.run = "failed",
               !.agents = [a \in Shown |-> IF @[a] = "pending" THEN "skipped" ELSE @[a]]]

-----------------------------------------------------------------------------
(* Phase 4 *)

\* A question starts with a fresh state, on the board and in the pipeline.
Ask == /\ pc \in {"idle", "completed", "failed"}
       /\ asked < MaxQuestions
       /\ asked' = asked + 1
       /\ pc' = "retrieve"
       /\ evidence' = NoEvidence
       /\ tries' = 0
       /\ status4' = "none"
       /\ step' = 1
       /\ revision' = 0
       /\ draft' = "none"
       /\ reviews' = NoReviews
       /\ verdict' = NoVerdict
       /\ answer' = NoAnswer
       /\ board' = [EmptyBoard EXCEPT !.run = "running", !.progress = 3,
                                      !.agents["phase4_retrieval"] = "running"]

\* Retrieval, reranking and selection; without context there is no generation.
Retrieve == /\ pc = "retrieve"
            /\ evidence' \in Evidence
            /\ pc' = IF evidence'.chunks THEN "generate" ELSE "settle"
            /\ status4' = "insufficient_evidence"
            /\ UNCHANGED <<asked, tries, step, revision, draft, reviews, verdict,
                           answer, board>>

\* _generate_grounded_answer: an answer, which may say that it has none, or an
\* error; a retryable one leads to another attempt while there are any.  The call
\* has no timeout: nothing makes this step happen (see Spec).
Generate == /\ pc = "generate"
            /\ tries' = tries + 1
            /\ \/ /\ status4' \in {"answered", "insufficient_evidence"}
                  /\ pc' = "settle"
               \/ \E retryable \in BOOLEAN :
                    /\ pc' = IF retryable /\ tries' < GenerationRetries + 1
                             THEN "generate" ELSE "raise"
                    /\ UNCHANGED status4
            /\ UNCHANGED <<asked, evidence, step, revision, draft, reviews, verdict,
                           answer, board>>

\* _fallback_evidence_is_sufficient
Sufficient(e) == /\ e.chunks
                 /\ e.scored
                 /\ e.confidence \in {"strong", "mixed"}
                        \/ (e.confidence = "weak" /\ WeakExcerpts)

\* Mutant of Settled: the fallback is tried before the unsupported query.
SettledFallbackFirst(e, base) ==
    IF base # "answered" /\ Sufficient(e) THEN "answered"
    ELSE IF e.current /\ ~(Sufficient(e) /\ e.support) THEN "unsupported_query"
    ELSE IF e.confidence = "weak" /\ ~WeakAnswers THEN "insufficient_evidence"
    ELSE base

\* Phase4RAGPipeline.answer: unsupported queries first, then weak evidence; an
\* answer that was not generated becomes one of excerpts if the evidence allows.
Settled(e, base) ==
    IF e.current /\ ~(Sufficient(e) /\ e.support) THEN "unsupported_query"
    ELSE IF base # "answered" /\ Sufficient(e) THEN "answered"
    ELSE IF e.confidence = "weak" /\ ~WeakAnswers THEN "insufficient_evidence"
    ELSE base

\* The response of Phase 4 becomes the first AgentState.
Settle == /\ pc = "settle"
          /\ status4' = Settled(evidence, status4)
          /\ draft' = "phase4"
          /\ board' = [board EXCEPT !.progress = 18,
                                    !.agents["phase4_retrieval"] = "completed",
                                    !.agents["evidence_selection"] = "completed"]
          /\ pc' = "agent"
          /\ UNCHANGED <<asked, evidence, tries, step, revision, reviews, verdict, answer>>

-----------------------------------------------------------------------------
(* The agents *)

\* Mutant of At: an agent of the revision shows its progress of the first pass.
AtAlways == Progress[step]

At == IF revision = 0 THEN Progress[step] ELSE 93

Start == /\ pc = "agent"
         /\ board' = Showing(Agent, "running", At)
         /\ tries' = 0
         /\ pc' = "call"
         /\ UNCHANGED <<asked, evidence, status4, step, revision, draft, reviews,
                        verdict, answer>>

\* The agents that ask a model.  The verifier's own call, about images, cannot fail it.
AsksModel == /\ Agent \notin {"prompt_composer", "evidence_verifier", "consensus_engine"}
             /\ Agent = "draft_generator" => status4 \notin Preserved

Attempts == (Fallbacks + 1) * (RouterRetries + 1)

\* Mutant of AttemptLeft: one attempt too many.
AttemptLeftToo == tries <= Attempts

AttemptLeft == tries < Attempts

\* ModelRouter.generate: an attempt that raises is followed by the next one, of
\* this profile or of its next fallback, and the last one makes the agent fail.
Retry == /\ pc = "call"
         /\ AsksModel
         /\ tries' = tries + 1
         /\ pc' = IF AttemptLeft' THEN "call" ELSE "agent_failed"
         /\ UNCHANGED <<asked, evidence, status4, step, revision, draft, reviews,
                        verdict, answer, board>>

\* The model replies with something that is not a JSON object, or with an empty
\* draft: the agent fails without another attempt.
Garble == /\ pc = "call"
          /\ AsksModel
          /\ tries' = tries + 1
          /\ pc' = "agent_failed"
          /\ UNCHANGED <<asked, evidence, status4, step, revision, draft, reviews,
                         verdict, answer, board>>

\* Mutant of Decided: a review that did not pass asks for a revision before the
\* combination of risk and compliance is looked at.
DecidedRevisionFirst(r) ==
    IF status4 \in Preserved THEN [decision |-> "reject", status |-> status4]
    ELSE IF \E a \in Reviewers : ~r[a].passed
    THEN [decision |-> "revise_once", status |-> "answered"]
    ELSE IF r["risk_agent"].high /\ ~r["compliance_agent"].passed
    THEN [decision |-> "reject", status |-> "rejected"]
    ELSE [decision |-> "accept", status |-> "answered"]

\* Mutant of Decided: the reviews are looked at before the Phase 4 status.
DecidedOnReviews(r) ==
    IF \A a \in Reviewers : r[a].passed
    THEN [decision |-> "accept", status |-> "answered"]
    ELSE IF status4 \in Preserved THEN [decision |-> "reject", status |-> status4]
    ELSE IF r["risk_agent"].high /\ ~r["compliance_agent"].passed
    THEN [decision |-> "reject", status |-> "rejected"]
    ELSE [decision |-> "revise_once", status |-> "answered"]

\* ConsensusEngine.run.  Its rule on high-risk claims of high severity is left
\* out: the verifier calls every unsupported claim medium.
Decided(r) ==
    IF status4 \in Preserved THEN [decision |-> "reject", status |-> status4]
    ELSE IF r["risk_agent"].high /\ ~r["compliance_agent"].passed
    THEN [decision |-> "reject", status |-> "rejected"]
    ELSE IF \E a \in Reviewers : ~r[a].passed
    THEN [decision |-> "revise_once", status |-> "answered"]
    ELSE [decision |-> "accept", status |-> "answered"]

\* What the agent whose turn it is puts into the state.
Outcome ==
    /\ IF Agent = "draft_generator" /\ status4 \notin Preserved
       THEN draft' = IF revision = 0 THEN "first" ELSE "second"
       ELSE UNCHANGED draft
    /\ IF Agent \in Reviewers
       THEN \E passed, high \in BOOLEAN :
                /\ high => Agent = "risk_agent"
                /\ reviews' = [reviews EXCEPT ![Agent] =
                                [of |-> draft, passed |-> passed, high |-> high]]
       ELSE UNCHANGED reviews
    /\ IF Agent = "consensus_engine"
       THEN LET d == Decided(reviews)
            IN  verdict' = [of |-> draft, decision |-> d.decision, status |-> d.status]
       ELSE UNCHANGED verdict

\* Mutant of Following: the revised draft is not verified again.
FollowingUnverified == IF revision = 1 /\ Agents[step] = "risk_agent" THEN step + 2 ELSE step + 1

\* The order of the agents, the same in the revision.
Following == step + 1

\* The draft is published as soon as it is generated, before it is reviewed.
Finish == /\ pc = "call"
          /\ Outcome
          /\ board' = [Showing(Agent, "completed", At) EXCEPT
                          !.draft = IF Agent = "draft_generator" THEN draft' ELSE @]
          /\ tries' = IF AsksModel THEN tries + 1 ELSE tries
          /\ IF Agent = "consensus_engine"
             THEN pc' = "decided" /\ UNCHANGED step
             ELSE pc' = "agent" /\ step' = Following
          /\ UNCHANGED <<asked, evidence, status4, revision, answer>>

FirstOfRevision == 4

\* min(1, max_revision_loops) revisions, however large the setting.
MayRevise == verdict.decision = "revise_once" /\ revision = 0 /\ MaxRevisionLoops > 0

Revise == /\ pc = "decided"
          /\ MayRevise
          /\ revision' = 1
          /\ step' = FirstOfRevision
          /\ board' = [board EXCEPT !.progress = 90, !.revision = "running"]
          /\ pc' = "agent"
          /\ UNCHANGED <<asked, evidence, tries, status4, draft, reviews, verdict, answer>>

\* The finalizer's choice between the draft and a notice.
Text == IF verdict.decision # "reject" \/ verdict.status \in Preserved
        THEN draft ELSE "notice"

\* The revision is closed and the finalizer started.
Finalize == /\ pc = "decided"
            /\ ~MayRevise
            /\ answer' = [text |-> Text, status |-> verdict.status]
            /\ board' = [Showing("finalizer", "running", 97) EXCEPT
                           !.revision = IF revision = 1 THEN "completed" ELSE @]
            /\ pc' = "finalizing"
            /\ UNCHANGED <<asked, evidence, tries, status4, step, revision, draft,
                           reviews, verdict>>

FinishFinalizer == /\ pc = "finalizing"
                   /\ board' = Showing("finalizer", "completed", 99)
                   /\ pc' = "responding"
                   /\ UNCHANGED <<asked, evidence, tries, status4, step, revision, draft,
                                  reviews, verdict, answer>>

\* The response is built and returned; it holds the draft next to the answer.
Complete == /\ pc = "responding"
            /\ board' = [board EXCEPT !.run = "completed", !.progress = 100,
                                      !.final = answer.text]
            /\ pc' = "completed"
            /\ UNCHANGED <<asked, evidence, tries, status4, step, revision, draft,
                           reviews, verdict, answer>>

\* Mutant of AfterFailure: an agent that failed is started over.
AfterFailureAgain == "agent"

AfterFailure == "raise"

\* agent_failed is published, then the error escapes _run_agent.
FailAgent == /\ pc = "agent_failed"
             /\ board' = Showing(Agent, "failed", At)
             /\ pc' = AfterFailure
             /\ UNCHANGED <<asked, evidence, tries, status4, step, revision, draft,
                            reviews, verdict, answer>>

\* Retrieval, generation, an agent or the building of the response raised:
\* run_failed, and the error goes on.
Fail == /\ pc \in {"raise", "retrieve", "responding"}
        /\ board' = Failed
        /\ pc' = "failed"
        /\ UNCHANGED <<asked, evidence, tries, status4, step, revision, draft,
                       reviews, verdict, answer>>

\* The steps that come about without the model of Phase 4.
Run == \/ Retrieve \/ Settle
       \/ Start \/ Retry \/ Garble \/ Finish
       \/ Revise \/ Finalize \/ FinishFinalizer \/ Complete
       \/ FailAgent \/ Fail

Next == Ask \/ Generate \/ Run

\* The pipeline is sequential code that keeps running, and the calls of the model
\* router time out.  The model of Phase 4 is called without a timeout and may never
\* answer, so that Generate is not fair.
Spec == Init /\ [][Next]_vars /\ WF_vars(Run)

-----------------------------------------------------------------------------
(* Properties. *)

InPhase4 == pc \in {"retrieve", "generate", "settle"}
AtAgent == pc \in {"agent", "call", "agent_failed"}
Judged == pc \in {"decided", "finalizing", "responding", "completed"}

Boards == [agents : [Shown -> AgentStates], progress : 0..100,
           run : {"idle", "running", "completed", "failed"},
           revision : {"none", "running", "completed"},
           draft : Drafts, final : Drafts \cup {"notice"}]

\* The types, and the numbers of attempts: neither Phase 4 nor the router asks a
\* model more often than configured.
TypeOK ==
    /\ pc \in {"idle", "retrieve", "generate", "settle", "agent", "call", "agent_failed",
               "raise", "decided", "finalizing", "responding", "completed", "failed"}
    /\ asked \in 0..MaxQuestions
    /\ evidence \in Evidence
    /\ tries \in Nat
    /\ pc \in {"generate", "settle"} => tries <= GenerationRetries + 1
    /\ pc \in {"call", "agent_failed"} => tries <= Attempts
    /\ status4 \in Statuses \cup {"none"}
    /\ step \in DOMAIN Agents
    /\ revision \in {0, 1}
    /\ draft \in Drafts
    /\ reviews \in [Reviewers -> [of : Drafts, passed : BOOLEAN, high : BOOLEAN]]
    /\ verdict \in [of : Drafts, decision : {"none", "accept", "revise_once", "reject"},
                    status : Outcomes]
    /\ answer \in [text : Drafts \cup {"notice"}, status : Outcomes]
    /\ board \in Boards

\* The answer that is delivered was judged as it stands: the decision and all four
\* reviews behind it are of this very draft, in a revision too, where the state
\* still holds the reviews of the draft before it.
ReviewsAreOfTheAnswer ==
    pc \in {"finalizing", "responding", "completed"} =>
        /\ verdict.of = draft
        /\ \A r \in Reviewers : reviews[r].of = draft

\* Agents must not "bypass Phase 4 answer statuses": a question Phase 4 found
\* unsupported or without evidence ends with that status and Phase 4's own text,
\* whatever the reviewers say, and never with a text a model was asked for.
StatusIsPreserved ==
    pc = "completed" /\ status4 \in Preserved =>
        answer = [text |-> "phase4", status |-> status4]

\* A query for current data without direct support in good evidence never gets an
\* answer, neither from Phase 4's excerpts nor from a draft.
UnsupportedNeverAnswered ==
    pc = "completed" /\ evidence.current /\ ~(evidence.scored /\ evidence.support) =>
        answer.status = "unsupported_query"

\* A draft that is delivered as the answer has survived its own reviews: it was never
\* both of high risk and out of compliance, and one that some reviewer did not pass
\* is the revision that was asked for, unless none may be made.  (Every draft is
\* displayed while it is reviewed, and returned as draft_answer: this is about what
\* is called the answer.)
ObjectionsAreHeeded ==
    pc = "completed" /\ status4 \notin Preserved /\ answer.text # "notice" =>
        /\ ~(reviews["risk_agent"].high /\ ~reviews["compliance_agent"].passed)
        /\ (\A r \in Reviewers : reviews[r].passed) \/ revision = 1 \/ MaxRevisionLoops = 0

\* The drafts of this question have been displayed.
Drafted == \/ AtAgent /\ (step > 4 \/ revision = 1)
           \/ pc \in {"decided", "finalizing", "responding"}

\* What the browser displays as the answer is of the question under way: nothing, then
\* the draft that is being reviewed, through the revision too, and the answer as
\* soon as the run is completed, which replaces a draft that was rejected.  A
\* run that fails leaves the draft it had.
PanelIsCurrent ==
    /\ pc # "completed" => Panel \in {"none", draft}
    /\ Drafted => Panel = draft
    /\ pc = "completed" => Panel = answer.text

\* When a run is over, no agent is left pending on the dashboard, and only the
\* retrieval of a failed run, for which nothing is published, is left running.
BoardSettles ==
    pc \in {"completed", "failed"} =>
        /\ board.run = pc
        /\ \A a \in Shown : board.agents[a] \in {"pending", "running"} =>
                a = "phase4_retrieval" /\ pc = "failed"
        /\ pc = "completed" => \A a \in Shown : board.agents[a] = "completed"

\* During a run the progress bar never goes back, not even in a revision.
ProgressNeverFalls ==
    [][asked' = asked => board'.progress >= board.progress]_vars

\* Every question comes to an end, since the retries and the revision are bounded,
\* unless the model of Phase 4 never answers a call.
RunEnds == pc = "retrieve" ~> (pc \in {"completed", "failed"} \/ [](pc = "generate"))

-----------------------------------------------------------------------------
(* What the proofs need. *)

\* A further attempt is only begun where one is left.
AttemptsLeft == /\ pc = "retrieve" => tries = 0
                /\ pc = "generate" => tries <= GenerationRetries
                /\ pc = "call" => tries < Attempts

\* The reviewers are asked in the order of their numbers, 5 to 8, and the engine after
\* them: those before the current step have judged the draft there is.
ReviewedSoFar ==
    /\ AtAgent => \A i \in 5..8 : i < step => reviews[Agents[i]].of = draft
    /\ Judged => /\ step = 9
                 /\ \A i \in 5..8 : reviews[Agents[i]].of = draft
                 /\ verdict = [of |-> draft, decision |-> Decided(reviews).decision,
                             status |-> Decided(reviews).status]
    /\ pc \in {"finalizing", "responding", "completed"} =>
          /\ answer = [text |-> Text, status |-> verdict.status]
          /\ ~MayRevise

\* A status that must be preserved keeps the generator away from the draft.
DraftOfStatus ==
    /\ pc \in {"generate", "settle"} => status4 # "none"
    /\ AtAgent \/ Judged =>
          /\ status4 # "none"
          /\ status4 \in Preserved => draft = "phase4"
          /\ evidence.current /\ ~(evidence.scored /\ evidence.support) =>
                status4 = "unsupported_query"

\* Who is shown as what in the course of a run.
BoardSoFar ==
    /\ InPhase4 => \A a \in Shown : board.agents[a] =
                      IF a = "phase4_retrieval" THEN "running" ELSE "pending"
    /\ AtAgent => /\ board.agents["phase4_retrieval"] = "completed"
                  /\ board.agents["evidence_selection"] = "completed"
                  /\ board.agents["finalizer"] = "pending"
                  /\ \A i \in DOMAIN Agents \ {step} :
                        \/ board.agents[Agents[i]] = "completed"
                        \/ revision = 0 /\ i > step /\ board.agents[Agents[i]] = "pending"
                  /\ pc = "agent" => board.agents[Agent] \in {"pending", "completed"}
    /\ Judged => \A a \in Shown \ {"finalizer"} : board.agents[a] = "completed"
    /\ pc = "decided" => board.agents["finalizer"] = "pending"
    /\ pc \in {"responding", "completed"} => board.agents["finalizer"] = "completed"
    /\ pc = "raise" => /\ board.agents["phase4_retrieval"] # "pending"
                       /\ \A a \in Shown \ {"phase4_retrieval"} :
                             board.agents[a] # "running"
    /\ pc \in {"completed", "failed"} => board.run = pc

\* How far the progress bar and the turn of the agents can be.
ProgressSoFar == /\ InPhase4 => board.progress <= 18
                 /\ AtAgent => board.progress <= At
                 /\ pc = "decided" => board.progress <= IF revision = 0 THEN 89 ELSE 93
                 /\ pc = "finalizing" => board.progress <= 97
                 /\ pc = "responding" => board.progress <= 99
                 /\ InPhase4 => step = 1 /\ revision = 0
                 /\ AtAgent /\ revision = 1 => step >= FirstOfRevision

\* Which texts are on the board, and that there is something to deliver.
PanelSoFar == /\ InPhase4 => board.draft = "none"
              /\ board.draft \in {"none", draft}
              /\ Drafted => board.draft = draft
              /\ pc = "completed" => board.final = answer.text
              /\ pc # "completed" => board.final = "none"
              /\ AtAgent \/ Judged => draft # "none"

IInv == /\ TypeOK
        /\ AttemptsLeft
        /\ ReviewedSoFar
        /\ DraftOfStatus
        /\ BoardSoFar
        /\ BoardSettles
        /\ ProgressSoFar
        /\ PanelSoFar
=============================================================================
