------------------------- MODULE Phase5AnswerProofs -------------------------
(***************************************************************************)
(* Theorems about Phase5Answer for every number of retries, fallbacks,      *)
(* revisions and questions and every configuration of the evidence rules:   *)
(* what is delivered was judged as it stands, statuses of Phase 4 survive,  *)
(* and the dashboard settles and never goes back.                           *)
(***************************************************************************)
EXTENDS Phase5Answer, TLAPS

-----------------------------------------------------------------------------
(* The agents and the attempts. *)

\* The nine agents are different, and none is one of the three other boxes shown.
LEMMA AgentFacts ==
    /\ DOMAIN Agents = 1..9
    /\ \A i \in 1..9 : /\ Agents[i] \in Shown
                       /\ Agents[i] # "phase4_retrieval"
                       /\ Agents[i] # "evidence_selection"
                       /\ Agents[i] # "finalizer"
    /\ \A i, j \in 1..9 : Agents[i] = Agents[j] => i = j
    /\ {"phase4_retrieval", "evidence_selection", "finalizer"} \subseteq Shown
    /\ \A a \in Shown : \/ a \in {"phase4_retrieval", "evidence_selection", "finalizer"}
                        \/ \E i \in 1..9 : a = Agents[i]
    /\ Agents[4] = "draft_generator" /\ Agents[9] = "consensus_engine"
    /\ \A i \in 1..9 : Agents[i] \in Reviewers <=> i \in 5..8
    /\ \A r \in Reviewers : \E i \in 5..8 : r = Agents[i]
  BY DEF Agents, Shown, Reviewers

LEMMA OthersShown == /\ "phase4_retrieval" \in Shown
                     /\ "evidence_selection" \in Shown
                     /\ "finalizer" \in Shown
  BY AgentFacts

\* The progress of the agents grows with their number.
LEMMA ProgressFacts ==
    \A i \in 1..9 : /\ Progress[i] \in 25..89
                    /\ i < 9 => Progress[i] <= Progress[i + 1]
  BY DEF Progress

\* The bounds are natural numbers and the switches Boolean.
LEMMA ConstantFacts ==
    /\ GenerationRetries \in Nat /\ RouterRetries \in Nat /\ Fallbacks \in Nat
    /\ MaxRevisionLoops \in Nat /\ MaxQuestions \in Nat
    /\ WeakAnswers \in BOOLEAN /\ WeakExcerpts \in BOOLEAN
  BY AnswerAssumption

\* At least one attempt is made of every model call.
LEMMA AttemptsFacts == Attempts \in Nat /\ Attempts >= 1
<1> DEFINE f == Fallbacks + 1
           r == RouterRetries + 1
<1>1. f \in Nat /\ f >= 1 /\ r \in Nat /\ r >= 1
  BY ConstantFacts
<1>2. \A x, y \in Nat : x >= 1 /\ y >= 1 => x * y \in Nat /\ x * y >= 1
  OBVIOUS
<1>3. f * r \in Nat /\ f * r >= 1
  BY <1>1, <1>2
<1> QED
  BY <1>3 DEF Attempts

\* Where the bar is for the agent whose turn it is.
LEMMA AtFacts ==
    ASSUME TypeOK
    PROVE  /\ step \in 1..9 /\ Agent \in Shown
           /\ At \in 25..93
           /\ revision = 0 => At = Progress[step] /\ At <= 89
           /\ revision = 1 => At = 93
<1>1. step \in 1..9 /\ revision \in {0, 1}
  BY AgentFacts DEF TypeOK
<1>2. Agent \in Shown
  BY <1>1, AgentFacts DEF Agent
<1>3. Progress[step] \in 25..89
  BY <1>1, ProgressFacts
<1> QED
  BY <1>1, <1>2, <1>3 DEF At

\* The empty board is a board.
LEMMA EmptyBoardTyped == EmptyBoard \in Boards
  BY DEF EmptyBoard, Boards, AgentStates, Drafts

-----------------------------------------------------------------------------
(* The inductive invariant. *)

\* It holds at first.
LEMMA InitInv == Init => IInv
<1> SUFFICES ASSUME Init PROVE IInv
  OBVIOUS
<1>1. TypeOK
  BY AgentFacts, ConstantFacts, EmptyBoardTyped
  DEF Init, TypeOK, NoEvidence, Evidence, NoReviews, NoVerdict, NoAnswer, Drafts, Statuses, Preserved, Outcomes, AgentStates
<1>2. AttemptsLeft /\ ReviewedSoFar /\ DraftOfStatus /\ BoardSoFar /\ BoardSettles
      /\ ProgressSoFar
  BY DEF Init, AttemptsLeft, ReviewedSoFar, DraftOfStatus, BoardSoFar, BoardSettles,
         ProgressSoFar, InPhase4, AtAgent, Judged
<1>3. PanelSoFar
  BY DEF Init, EmptyBoard, PanelSoFar, Drafted, InPhase4, AtAgent, Judged
<1> QED
  BY <1>1, <1>2, <1>3 DEF IInv

\* A new question.
LEMMA AskInv == ASSUME IInv, Ask PROVE IInv'
<1> USE DEF IInv
<1>1. TypeOK'
  <2> DEFINE first == [a \in Shown |-> IF a = "phase4_retrieval" THEN "running" ELSE "pending"]
  <2>6. first \in [Shown -> AgentStates]
    BY DEF AgentStates
  <2>7. [EmptyBoard.agents EXCEPT !["phase4_retrieval"] = "running"] = first
    BY DEF EmptyBoard
  <2>8. board' = [agents |-> first, run |-> "running", progress |-> 3,
                  revision |-> "none", draft |-> "none", final |-> "none"]
    BY <2>7 DEF Ask, EmptyBoard
  <2>1. board' \in Boards
    BY <2>6, <2>8 DEF Boards, Drafts
  <2>2. evidence' \in Evidence
    BY DEF Ask, NoEvidence, Evidence
  <2>3. reviews' \in [Reviewers -> [of : Drafts, passed : BOOLEAN, high : BOOLEAN]]
    BY DEF Ask, NoReviews, Drafts
  <2>4. /\ verdict' \in [of : Drafts,
                          decision : {"none", "accept", "revise_once", "reject"},
                          status : Outcomes]
        /\ answer' \in [text : Drafts \cup {"notice"}, status : Outcomes]
    BY DEF Ask, NoVerdict, NoAnswer, Drafts, Outcomes
  <2>5. asked' \in 0..MaxQuestions /\ step' \in DOMAIN Agents /\ draft' \in Drafts
    BY AgentFacts, ConstantFacts DEF Ask, TypeOK, Drafts
  <2> QED
    BY <2>1, <2>2, <2>3, <2>4, <2>5, ConstantFacts DEF Ask, TypeOK
<1>2. AttemptsLeft' /\ ReviewedSoFar' /\ DraftOfStatus' /\ BoardSettles'
  BY DEF Ask, AttemptsLeft, ReviewedSoFar, DraftOfStatus, BoardSettles,
         AtAgent, Judged
<1>3. BoardSoFar'
  BY AgentFacts DEF Ask, EmptyBoard, BoardSoFar, InPhase4, AtAgent, Judged
<1>4. ProgressSoFar' /\ PanelSoFar'
  BY DEF Ask, EmptyBoard, ProgressSoFar, PanelSoFar, Drafted, InPhase4, AtAgent, Judged
<1> QED
  BY <1>1, <1>2, <1>3, <1>4

\* Retrieval and selection.
LEMMA RetrieveInv == ASSUME IInv, Retrieve PROVE IInv'
<1> USE DEF IInv
<1>1. TypeOK'
  BY ConstantFacts DEF Retrieve, TypeOK, AttemptsLeft, Statuses, Preserved
<1>2. AttemptsLeft' /\ ReviewedSoFar' /\ DraftOfStatus' /\ BoardSettles'
  BY ConstantFacts
  DEF Retrieve, TypeOK, AttemptsLeft, ReviewedSoFar, DraftOfStatus, BoardSettles,
      AtAgent, Judged
<1>3. BoardSoFar' /\ ProgressSoFar' /\ PanelSoFar'
  BY DEF Retrieve, BoardSoFar, ProgressSoFar, PanelSoFar, Drafted, InPhase4, AtAgent, Judged
<1> QED
  BY <1>1, <1>2, <1>3

\* An attempt to generate.
LEMMA GenerateInv == ASSUME IInv, Generate PROVE IInv'
<1> USE DEF IInv
<1>1. TypeOK'
  BY ConstantFacts DEF Generate, TypeOK, AttemptsLeft, Statuses, Preserved
<1>2. AttemptsLeft' /\ ReviewedSoFar' /\ DraftOfStatus' /\ BoardSettles'
  BY ConstantFacts
  DEF Generate, TypeOK, AttemptsLeft, ReviewedSoFar, DraftOfStatus, BoardSettles,
      AtAgent, Judged
<1>3. BoardSoFar' /\ ProgressSoFar' /\ PanelSoFar'
  BY AgentFacts
  DEF Generate, BoardSoFar, ProgressSoFar, PanelSoFar, Drafted, InPhase4, AtAgent, Judged
<1> QED
  BY <1>1, <1>2, <1>3

\* The status Phase 4 settles on.
LEMMA SettledFacts ==
    ASSUME NEW base \in Statuses
    PROVE  /\ Settled(evidence, base) \in Statuses
           /\ evidence.current /\ ~(evidence.scored /\ evidence.support) =>
                  Settled(evidence, base) = "unsupported_query"
  BY DEF Settled, Sufficient, Statuses, Preserved

\* The response of Phase 4.
LEMMA SettleInv == ASSUME IInv, Settle PROVE IInv'
<1> USE DEF IInv
<1>1. status4 \in Statuses
  BY DEF Settle, TypeOK, DraftOfStatus
<1>2. step = 1 /\ revision = 0
  BY DEF Settle, ProgressSoFar, InPhase4
<1>3. /\ status4' \in Statuses
      /\ evidence.current /\ ~(evidence.scored /\ evidence.support) =>
             status4' = "unsupported_query"
  BY <1>1, SettledFacts DEF Settle
<1>9. board \in Boards
  BY DEF TypeOK
<1> DEFINE seen == [board.agents EXCEPT !["phase4_retrieval"] = "completed",
                                         !["evidence_selection"] = "completed"]
<1>10. /\ seen \in [Shown -> AgentStates]
       /\ seen["phase4_retrieval"] = "completed"
       /\ seen["evidence_selection"] = "completed"
       /\ \A a \in Shown \ {"phase4_retrieval", "evidence_selection"} :
             seen[a] = board.agents[a]
  BY <1>9, OthersShown DEF Boards, AgentStates
<1>11. board' = [agents |-> seen, run |-> board.run, progress |-> 18,
                 revision |-> board.revision, draft |-> board.draft,
                 final |-> board.final]
  BY <1>9 DEF Settle, Boards
<1> HIDE DEF seen
<1>12. PanelSoFar'
  <2>1. board.draft = "none" /\ board.final = "none"
    BY DEF Settle, PanelSoFar, InPhase4
  <2> QED
    BY <1>2, <1>11, <2>1 DEF Settle, PanelSoFar, Drafted, InPhase4, AtAgent, Judged
<1>4. TypeOK'
  <2>1. board' \in Boards
    BY <1>9, <1>10, <1>11 DEF Boards
  <2> QED
    BY <1>3, <2>1 DEF Settle, TypeOK, Drafts
<1>5. AttemptsLeft' /\ DraftOfStatus' /\ BoardSettles'
  BY <1>3 DEF Settle, AttemptsLeft, DraftOfStatus, BoardSettles, Statuses, Preserved
<1>6. ReviewedSoFar'
  BY <1>2 DEF Settle, ReviewedSoFar, AtAgent, Judged
<1>7. BoardSoFar'
  <2>1. \A a \in Shown \ {"phase4_retrieval"} : board.agents[a] = "pending"
    BY DEF Settle, BoardSoFar, InPhase4
  <2>2. board'.agents = seen
    BY <1>11
  <2>3. \A i \in 1..9 : board'.agents[Agents[i]] = "pending"
    BY <1>10, <2>1, <2>2, AgentFacts
  <2>4. board'.agents["finalizer"] = "pending"
    BY <1>10, <2>1, <2>2, OthersShown
  <2>5. pc' = "agent" /\ revision' = 0 /\ step' = 1
    BY <1>2 DEF Settle
  <2>6. Agent' \in Shown /\ board'.agents[Agent'] = "pending"
    BY <2>3, <2>5, AgentFacts DEF Agent
  <2> QED
    BY <1>10, <2>2, <2>3, <2>4, <2>5, <2>6, AgentFacts
    DEF BoardSoFar, InPhase4, AtAgent, Judged
<1>8. ProgressSoFar'
  BY <1>2, ProgressFacts DEF Settle, TypeOK, ProgressSoFar, InPhase4, AtAgent, At
<1> QED
  BY <1>4, <1>5, <1>6, <1>7, <1>8, <1>12

\* Every other agent is completed or, in the first pass and after this one, pending.
OthersAt(agents) == \A i \in 1..9 \ {step} :
                       \/ agents[Agents[i]] = "completed"
                       \/ revision = 0 /\ i > step /\ agents[Agents[i]] = "pending"

\* The boxes that are no agents, while the agents run.
BoxesAt == /\ board.agents["phase4_retrieval"] = "completed"
           /\ board.agents["evidence_selection"] = "completed"
           /\ board.agents["finalizer"] = "pending"

\* What the board says while the agents run, in the words of AgentFacts.
LEMMA BoardAt == ASSUME TypeOK, BoardSoFar, AtAgent PROVE OthersAt(board.agents) /\ BoxesAt
  BY AgentFacts DEF BoardSoFar, OthersAt, BoxesAt

\* An event without a draft leaves the one that is displayed.
LEMMA SameDraft ==
    ASSUME TypeOK, NEW s
    PROVE  Showing(Agent, s, At) = [Showing(Agent, s, At) EXCEPT !.draft = board.draft]
           /\ board.draft \in Drafts
  BY DEF TypeOK, Boards, Showing

\* An event of the agent whose turn it is changes nothing else but the draft displayed.
LEMMA ShowsAgent ==
    ASSUME TypeOK, BoardSoFar, AtAgent,
           NEW s \in AgentStates, NEW d \in Drafts,
           board' = [Showing(Agent, s, At) EXCEPT !.draft = d]
    PROVE  /\ board' \in Boards
           /\ board'.agents[Agent] = s
           /\ OthersAt(board'.agents) /\ BoxesAt'
           /\ board'.progress = At
           /\ board'.run = board.run
           /\ board'.draft = d
           /\ board'.final = board.final
<1>1. board \in Boards /\ step \in 1..9 /\ Agent \in Shown /\ At \in 0..100
  BY AtFacts DEF TypeOK
<1>2. /\ board' \in Boards
      /\ board'.agents[Agent] = s
      /\ \A b \in Shown \ {Agent} : board'.agents[b] = board.agents[b]
      /\ board'.progress = At
      /\ board'.run = board.run
      /\ board'.draft = d
      /\ board'.final = board.final
  BY <1>1 DEF Showing, Boards
<1>3. OthersAt(board.agents) /\ BoxesAt
  BY BoardAt
<1>4. BoxesAt'
  BY <1>1, <1>2, <1>3, AgentFacts DEF BoxesAt, Agent
<1>5. OthersAt(board'.agents)
  <2> SUFFICES ASSUME NEW i \in 1..9 \ {step}
               PROVE  board'.agents[Agents[i]] = board.agents[Agents[i]]
    BY <1>3 DEF OthersAt
  <2> QED
    BY <1>1, <1>2, AgentFacts DEF Agent
<1> QED
  BY <1>2, <1>4, <1>5

\* An agent starts.
LEMMA StartInv == ASSUME IInv, Start PROVE IInv'
<1> USE DEF IInv
<1>1. AtAgent /\ pc = "agent" /\ pc' = "call" /\ step' = step /\ revision' = revision
  BY DEF Start, AtAgent
<1>2. /\ board' \in Boards /\ OthersAt(board'.agents) /\ BoxesAt' /\ board'.progress = At
      /\ board'.draft = board.draft /\ board'.final = board.final
  BY <1>1, SameDraft, ShowsAgent DEF Start, AgentStates
<1>3. TypeOK'
  BY <1>2, AttemptsFacts DEF Start, TypeOK
<1>4. AttemptsLeft' /\ BoardSettles'
  BY AttemptsFacts DEF Start, AttemptsLeft, BoardSettles
<1>5. ReviewedSoFar' /\ DraftOfStatus'
  BY DEF Start, ReviewedSoFar, DraftOfStatus, AtAgent, Judged
<1>6. BoardSoFar'
  BY <1>1, <1>2, AgentFacts DEF BoardSoFar, OthersAt, BoxesAt, InPhase4, Judged
<1>7. ProgressSoFar'
  <2>1. At' = At
    BY <1>1 DEF At
  <2> QED
    BY <1>1, <1>2, <2>1, AtFacts DEF ProgressSoFar, InPhase4, AtAgent
<1>8. PanelSoFar'
  BY <1>1, <1>2 DEF Start, PanelSoFar, Drafted, InPhase4, AtAgent, Judged
<1> QED
  BY <1>3, <1>4, <1>5, <1>6, <1>7, <1>8

\* An attempt of the router that raises, or a reply that is of no use.
LEMMA RetryInv == ASSUME IInv, Retry \/ Garble PROVE IInv'
<1> USE DEF IInv
<1>1. /\ AtAgent /\ pc = "call" /\ pc' \in {"call", "agent_failed"}
      /\ tries' = tries + 1
      /\ UNCHANGED <<asked, evidence, status4, step, revision, draft, reviews, verdict,
                     answer, board>>
  BY DEF Retry, Garble, AtAgent
<1>2. pc' = "call" => tries' < Attempts
  BY DEF Retry, Garble, AttemptLeft
<1>3. tries \in Nat /\ tries < Attempts
  BY <1>1 DEF TypeOK, AttemptsLeft
<1>4. TypeOK'
  BY <1>1, <1>3, AttemptsFacts DEF TypeOK
<1>5. AttemptsLeft' /\ BoardSettles'
  BY <1>1, <1>2 DEF AttemptsLeft, BoardSettles
<1>6. ReviewedSoFar' /\ DraftOfStatus'
  BY <1>1 DEF ReviewedSoFar, DraftOfStatus, AtAgent, Judged
<1>7. BoardSoFar' /\ ProgressSoFar' /\ PanelSoFar'
  BY <1>1 DEF BoardSoFar, ProgressSoFar, PanelSoFar, Drafted, InPhase4, AtAgent, Judged, At
<1> QED
  BY <1>4, <1>5, <1>6, <1>7

\* The failure of an agent is shown.
LEMMA FailAgentInv == ASSUME IInv, FailAgent PROVE IInv'
<1> USE DEF IInv
<1>1. AtAgent /\ pc' = "raise" /\ step' = step /\ revision' = revision
  BY DEF FailAgent, AtAgent, AfterFailure
<1>2. /\ board' \in Boards /\ board'.agents[Agent] = "failed" /\ OthersAt(board'.agents) /\ BoxesAt'
      /\ board'.draft = board.draft /\ board'.final = board.final
  BY <1>1, SameDraft, ShowsAgent DEF FailAgent, AgentStates
<1>3. TypeOK'
  BY <1>1, <1>2 DEF FailAgent, TypeOK
<1>4. AttemptsLeft' /\ BoardSettles' /\ ReviewedSoFar' /\ DraftOfStatus'
  BY <1>1
  DEF AttemptsLeft, BoardSettles, ReviewedSoFar, DraftOfStatus, AtAgent, Judged
<1>5. BoardSoFar'
  <2>1. \A i \in 1..9 : board'.agents[Agents[i]] # "running"
    BY <1>1, <1>2 DEF OthersAt, Agent
  <2>2. \A a \in Shown : board'.agents[a] # "running"
    BY <1>2, <2>1, AgentFacts DEF BoxesAt
  <2> QED
    BY <1>1, <1>2, <2>2 DEF BoardSoFar, BoxesAt, InPhase4, AtAgent, Judged
<1>6. ProgressSoFar' /\ PanelSoFar'
  BY <1>1, <1>2 DEF FailAgent, ProgressSoFar, PanelSoFar, Drafted, InPhase4, AtAgent, Judged
<1> QED
  BY <1>3, <1>4, <1>5, <1>6

\* The run has failed.
LEMMA FailInv == ASSUME IInv, Fail PROVE IInv'
<1> USE DEF IInv
<1> DEFINE left == [a \in Shown |-> IF board.agents[a] = "pending" THEN "skipped"
                                    ELSE board.agents[a]]
<1>1. board \in Boards
  BY DEF TypeOK
<1>2. left \in [Shown -> AgentStates]
  BY <1>1 DEF Boards, AgentStates
<1>3. board' = [agents |-> left, run |-> "failed", progress |-> board.progress,
                revision |-> board.revision, draft |-> board.draft,
                final |-> board.final]
  BY <1>1 DEF Fail, Failed, Boards
<1>4. board' \in Boards
  BY <1>1, <1>2, <1>3 DEF Boards
<1>5. /\ pc' = "failed"
      /\ UNCHANGED <<asked, evidence, tries, status4, step, revision, draft, reviews,
                     verdict, answer>>
  BY DEF Fail
<1>6. TypeOK'
  BY <1>4, <1>5 DEF TypeOK
<1>7. AttemptsLeft' /\ ReviewedSoFar' /\ DraftOfStatus' /\ ProgressSoFar'
  BY <1>5 DEF AttemptsLeft, ReviewedSoFar, DraftOfStatus, ProgressSoFar, InPhase4,
              AtAgent, Judged
<1>8. BoardSoFar' /\ PanelSoFar'
  BY <1>3, <1>5
  DEF Fail, BoardSoFar, PanelSoFar, Drafted, InPhase4, AtAgent, Judged
<1>9. \A a \in Shown \ {"phase4_retrieval"} : board.agents[a] # "running"
  BY DEF Fail, BoardSoFar, InPhase4, Judged
<1>10. \A a \in Shown : left[a] \in {"pending", "running"} => a = "phase4_retrieval"
  BY <1>9
<1>11. BoardSettles'
  BY <1>3, <1>5, <1>10 DEF BoardSettles
<1> QED
  BY <1>6, <1>7, <1>8, <1>11

\* An agent other than the consensus engine finishes: what becomes of the reviews.
LEMMA AgentFinishes ==
    ASSUME IInv, Finish, step # 9
    PROVE  /\ pc' = "agent" /\ step' = step + 1 /\ step \in 1..8
           /\ UNCHANGED <<asked, evidence, status4, revision, answer, verdict>>
           /\ draft' \in Drafts
           /\ step # 4 => draft' = draft
           /\ status4 \in Preserved => draft' = draft
           /\ draft # "none" => draft' # "none"
           /\ reviews' \in [Reviewers -> [of : Drafts, passed : BOOLEAN, high : BOOLEAN]]
           /\ \A i \in 5..8 : i # step => reviews'[Agents[i]] = reviews[Agents[i]]
           /\ step \in 5..8 => reviews'[Agents[step]].of = draft
<1>1. step \in 1..9 /\ draft \in Drafts
  BY AtFacts DEF IInv, TypeOK
<1>2. Agent # "consensus_engine" /\ (Agent = "draft_generator" => step = 4)
      /\ (Agent \in Reviewers <=> step \in 5..8)
  BY <1>1, AgentFacts DEF Agent
<1>3. /\ pc' = "agent" /\ step' = step + 1
      /\ UNCHANGED <<asked, evidence, status4, revision, answer, verdict>>
  BY <1>2 DEF Finish, Following, Outcome
<1>4. /\ draft' \in Drafts
      /\ step # 4 => draft' = draft
      /\ status4 \in Preserved => draft' = draft
      /\ draft # "none" => draft' # "none"
  BY <1>1, <1>2 DEF Finish, Outcome, Drafts
<1>5. reviews \in [Reviewers -> [of : Drafts, passed : BOOLEAN, high : BOOLEAN]]
  BY DEF IInv, TypeOK
<1>6. CASE Agent \in Reviewers
  <2>1. PICK passed \in BOOLEAN, high \in BOOLEAN :
           reviews' = [reviews EXCEPT ![Agent] =
                         [of |-> draft, passed |-> passed, high |-> high]]
    BY <1>6 DEF Finish, Outcome
  <2>2. reviews' \in [Reviewers -> [of : Drafts, passed : BOOLEAN, high : BOOLEAN]]
    BY <1>1, <1>5, <1>6, <2>1
  <2>3. \A i \in 5..8 : i # step => Agents[i] \in Reviewers /\ Agents[i] # Agent
    BY <1>1, AgentFacts DEF Agent
  <2>4. \A i \in 5..8 : i # step => reviews'[Agents[i]] = reviews[Agents[i]]
    BY <1>5, <2>1, <2>3
  <2>5. reviews'[Agent].of = draft
    BY <1>5, <1>6, <2>1
  <2> QED
    BY <1>1, <1>3, <1>4, <2>2, <2>4, <2>5 DEF Agent
<1>7. CASE Agent \notin Reviewers
  <2>1. reviews' = reviews
    BY <1>7 DEF Finish, Outcome
  <2> QED
    BY <1>1, <1>2, <1>3, <1>4, <1>5, <1>7, <2>1
<1> QED
  BY <1>6, <1>7

\* The turn passes to the next agent.
LEMMA FinishAgentInv == ASSUME IInv, Finish, step # 9 PROVE IInv'
<1>1. AtAgent /\ TypeOK /\ BoardSoFar /\ ReviewedSoFar /\ DraftOfStatus /\ ProgressSoFar
  BY DEF IInv, Finish, AtAgent
<1>2. /\ pc' = "agent" /\ step' = step + 1 /\ step \in 1..8
      /\ UNCHANGED <<asked, evidence, status4, revision, answer, verdict>>
      /\ draft' \in Drafts
      /\ step # 4 => draft' = draft
      /\ status4 \in Preserved => draft' = draft
      /\ draft # "none" => draft' # "none"
      /\ reviews' \in [Reviewers -> [of : Drafts, passed : BOOLEAN, high : BOOLEAN]]
      /\ \A i \in 5..8 : i # step => reviews'[Agents[i]] = reviews[Agents[i]]
      /\ step \in 5..8 => reviews'[Agents[step]].of = draft
  BY AgentFinishes
<1>3. /\ board' \in Boards /\ board'.agents[Agent] = "completed"
      /\ OthersAt(board'.agents) /\ BoxesAt' /\ board'.progress = At
      /\ board'.draft = IF step = 4 THEN draft' ELSE board.draft
      /\ board'.final = board.final
  <2> DEFINE d == IF step = 4 THEN draft' ELSE board.draft
  <2>1. d \in Drafts
    BY <1>1, <1>2, SameDraft
  <2>2. Agent = "draft_generator" <=> step = 4
    BY <1>2, AgentFacts DEF Agent
  <2>3. board' = [Showing(Agent, "completed", At) EXCEPT !.draft = d]
    BY <1>1, <2>2 DEF Finish, Showing, TypeOK, Boards
  <2> HIDE DEF d
  <2>4. /\ board' \in Boards /\ board'.agents[Agent] = "completed"
        /\ OthersAt(board'.agents) /\ BoxesAt' /\ board'.progress = At
        /\ board'.draft = d /\ board'.final = board.final
    BY <1>1, <2>1, <2>3, ShowsAgent DEF AgentStates
  <2> QED
    BY <2>4 DEF d
<1>4. tries' \in Nat
  BY <1>1 DEF Finish, TypeOK
<1>5. TypeOK'
  BY <1>1, <1>2, <1>3, <1>4, AgentFacts DEF TypeOK
<1>6. AttemptsLeft' /\ BoardSettles'
  BY <1>2 DEF AttemptsLeft, BoardSettles
<1>7. ReviewedSoFar'
  <2>1. \A i \in 5..8 : i < step => reviews[Agents[i]].of = draft
    BY <1>1 DEF ReviewedSoFar
  <2>2. ASSUME NEW i \in 5..8, i < step' PROVE reviews'[Agents[i]].of = draft'
    <3>1. step # 4 /\ draft' = draft
      BY <1>2, <2>2
    <3>2. CASE i = step
      BY <1>2, <3>1, <3>2
    <3>3. CASE i # step
      BY <1>2, <2>1, <2>2, <3>1, <3>3
    <3> QED
      BY <3>2, <3>3
  <2> QED
    BY <1>2, <2>2 DEF ReviewedSoFar, AtAgent, Judged
<1>8. DraftOfStatus'
  BY <1>1, <1>2 DEF DraftOfStatus, AtAgent, Judged
<1>9. BoardSoFar'
  <2>1. ASSUME NEW i \in 1..9, i # step + 1
        PROVE  \/ board'.agents[Agents[i]] = "completed"
               \/ revision = 0 /\ i > step + 1 /\ board'.agents[Agents[i]] = "pending"
    BY <1>2, <1>3, <2>1 DEF OthersAt, Agent
  <2>2. board'.agents[Agents[step + 1]] \in {"pending", "completed"}
    BY <1>2, <1>3 DEF OthersAt
  <2>3. Agent' = Agents[step + 1]
    BY <1>2 DEF Agent
  <2> QED
    BY <1>2, <1>3, <2>1, <2>2, <2>3, AgentFacts
    DEF BoardSoFar, BoxesAt, InPhase4, AtAgent, Judged
<1>10. ProgressSoFar'
  <2>1. Progress[step] <= Progress[step + 1]
        /\ Progress[step] \in 25..89 /\ Progress[step + 1] \in 25..89
    BY <1>2, ProgressFacts
  <2>2. At <= At'
    BY <1>2, <2>1 DEF At
  <2>3. revision = 1 => step + 1 >= FirstOfRevision
    BY <1>1, <1>2 DEF ProgressSoFar, FirstOfRevision
  <2> QED
    BY <1>2, <1>3, <2>2, <2>3 DEF ProgressSoFar, InPhase4, AtAgent
<1>11. PanelSoFar'
  <2>1. PanelSoFar /\ (revision = 1 => step >= 4)
    BY <1>1 DEF IInv, ProgressSoFar, FirstOfRevision
  <2>2. /\ board.draft \in {"none", draft} /\ draft # "none"
        /\ (step > 4 \/ revision = 1) => board.draft = draft
        /\ board.final = "none"
    BY <1>1, <2>1 DEF PanelSoFar, Drafted, AtAgent
  <2>3. board'.draft \in {"none", draft'}
        /\ (step' > 4 \/ revision' = 1 => board'.draft = draft')
    BY <1>2, <1>3, <2>1, <2>2
  <2> QED
    BY <1>2, <1>3, <2>2, <2>3 DEF PanelSoFar, Drafted, InPhase4, AtAgent, Judged
<1> QED
  BY <1>5, <1>6, <1>7, <1>8, <1>9, <1>10, <1>11 DEF IInv

\* A decision has a decision's type; only a rejection has the status "rejected".
LEMMA DecidedFacts ==
    ASSUME NEW r, status4 \in Statuses
    PROVE  /\ Decided(r).decision \in {"accept", "revise_once", "reject"}
           /\ Decided(r).status \in Outcomes
           /\ status4 \in Preserved => /\ Decided(r).decision = "reject"
                                       /\ Decided(r).status = status4
           /\ Decided(r).status = "rejected" => Decided(r).decision = "reject"
  BY DEF Decided, Statuses, Preserved, Outcomes

\* The consensus engine decides.
LEMMA FinishEngineInv == ASSUME IInv, Finish, step = 9 PROVE IInv'
<1>1. AtAgent /\ TypeOK /\ BoardSoFar /\ ReviewedSoFar /\ DraftOfStatus /\ ProgressSoFar
  BY DEF IInv, Finish, AtAgent
<1>2. Agent = "consensus_engine" /\ Agent \notin Reviewers
  BY AgentFacts DEF Agent
<1>3. /\ pc' = "decided"
      /\ UNCHANGED <<step, asked, evidence, status4, revision, answer, draft, reviews>>
      /\ verdict' = [of |-> draft, decision |-> Decided(reviews).decision,
                     status |-> Decided(reviews).status]
  BY <1>2 DEF Finish, Outcome
<1>4. /\ board' \in Boards /\ board'.agents[Agent] = "completed"
      /\ OthersAt(board'.agents) /\ BoxesAt' /\ board'.progress = At
      /\ board'.draft = board.draft /\ board'.final = board.final
  <2>1. board' = Showing(Agent, "completed", At)
    BY <1>1, <1>2 DEF Finish, Showing, TypeOK, Boards
  <2> QED
    BY <1>1, <2>1, SameDraft, ShowsAgent DEF AgentStates
<1>5. status4 \in Statuses /\ tries' \in Nat
  BY <1>1 DEF Finish, TypeOK, DraftOfStatus
<1>6. verdict' \in [of : Drafts, decision : {"none", "accept", "revise_once", "reject"},
                    status : Outcomes]
  BY <1>1, <1>3, <1>5, DecidedFacts DEF TypeOK
<1>7. TypeOK'
  BY <1>1, <1>3, <1>4, <1>5, <1>6 DEF TypeOK
<1>8. AttemptsLeft' /\ BoardSettles'
  BY <1>3 DEF AttemptsLeft, BoardSettles
<1>9. ReviewedSoFar'
  <2>1. \A i \in 5..8 : reviews[Agents[i]].of = draft
    BY <1>1 DEF ReviewedSoFar
  <2>2. Decided(reviews)' = Decided(reviews)
    BY <1>3 DEF Decided
  <2> QED
    BY <1>3, <2>1, <2>2 DEF ReviewedSoFar, AtAgent, Judged
<1>10. DraftOfStatus'
  BY <1>1, <1>3 DEF DraftOfStatus, AtAgent, Judged
<1>11. BoardSoFar'
  <2>1. \A i \in 1..9 : board'.agents[Agents[i]] = "completed"
    BY <1>4 DEF OthersAt, Agent
  <2>2. \A a \in Shown \ {"finalizer"} : board'.agents[a] = "completed"
    BY <1>4, <2>1, AgentFacts DEF BoxesAt
  <2> QED
    BY <1>3, <1>4, <2>2 DEF BoardSoFar, BoxesAt, InPhase4, AtAgent, Judged
<1>12. ProgressSoFar'
  BY <1>1, <1>3, <1>4, AtFacts DEF ProgressSoFar, InPhase4, AtAgent
<1>13. PanelSoFar'
  BY <1>1, <1>3, <1>4 DEF IInv, PanelSoFar, Drafted, InPhase4, AtAgent, Judged
<1> QED
  BY <1>7, <1>8, <1>9, <1>10, <1>11, <1>12, <1>13 DEF IInv

\* The one revision begins.
LEMMA ReviseInv == ASSUME IInv, Revise PROVE IInv'
<1>1. /\ Judged /\ TypeOK /\ BoardSoFar /\ ReviewedSoFar /\ DraftOfStatus
      /\ ProgressSoFar /\ pc = "decided"
  BY DEF IInv, Revise, Judged
<1>2. /\ pc' = "agent" /\ step' = 4 /\ revision' = 1
      /\ UNCHANGED <<asked, evidence, tries, status4, draft, reviews, verdict, answer>>
  BY DEF Revise, FirstOfRevision
<1>3. board \in Boards /\ board' = [board EXCEPT !.progress = 90, !.revision = "running"]
  BY <1>1 DEF Revise, TypeOK
<1>4. /\ board' \in Boards /\ board'.agents = board.agents /\ board'.progress = 90
      /\ board'.draft = board.draft /\ board'.final = board.final
  <2>1. board' = [agents |-> board.agents, run |-> board.run, progress |-> 90,
                  revision |-> "running", draft |-> board.draft, final |-> board.final]
    BY <1>3 DEF Boards
  <2> QED
    BY <1>3, <2>1 DEF Boards
<1>5. TypeOK'
  BY <1>1, <1>2, <1>4, AgentFacts DEF TypeOK
<1>6. AttemptsLeft' /\ BoardSettles'
  BY <1>2 DEF AttemptsLeft, BoardSettles
<1>7. ReviewedSoFar' /\ DraftOfStatus'
  BY <1>1, <1>2 DEF ReviewedSoFar, DraftOfStatus, AtAgent, Judged
<1>8. BoardSoFar'
  <2>1. \A a \in Shown \ {"finalizer"} : board'.agents[a] = "completed"
    BY <1>1, <1>4 DEF BoardSoFar
  <2>2. board'.agents["finalizer"] = "pending"
    BY <1>1, <1>4 DEF BoardSoFar
  <2>3. \A i \in 1..9 : board'.agents[Agents[i]] = "completed"
    BY <2>1, AgentFacts
  <2>4. board'.agents[Agent'] = "completed"
    BY <1>2, <2>3 DEF Agent
  <2> QED
    BY <1>2, <2>1, <2>2, <2>3, <2>4, AgentFacts
    DEF BoardSoFar, InPhase4, AtAgent, Judged
<1>9. ProgressSoFar'
  BY <1>2, <1>4 DEF ProgressSoFar, InPhase4, AtAgent, At, FirstOfRevision
<1>10. PanelSoFar'
  BY <1>1, <1>2, <1>4 DEF IInv, PanelSoFar, Drafted, InPhase4, AtAgent, Judged
<1> QED
  BY <1>5, <1>6, <1>7, <1>8, <1>9, <1>10 DEF IInv

\* The finalizer chooses the answer.
LEMMA FinalizeInv == ASSUME IInv, Finalize PROVE IInv'
<1>1. /\ Judged /\ TypeOK /\ BoardSoFar /\ ReviewedSoFar /\ DraftOfStatus
      /\ ProgressSoFar /\ pc = "decided"
  BY DEF IInv, Finalize, Judged
<1>2. /\ pc' = "finalizing"
      /\ answer' = [text |-> Text, status |-> verdict.status]
      /\ UNCHANGED <<asked, evidence, tries, status4, step, revision, draft, reviews,
                     verdict>>
  BY DEF Finalize
<1>3. /\ board' = [Showing("finalizer", "running", 97) EXCEPT
                     !.revision = IF revision = 1 THEN "completed" ELSE @]
      /\ "finalizer" \in Shown /\ "running" \in AgentStates /\ 97 \in 0..100
      /\ board \in Boards
  BY <1>1, OthersShown DEF Finalize, TypeOK, AgentStates
<1>4. /\ board' \in Boards /\ board'.progress = 97
      /\ board'.draft = board.draft /\ board'.final = board.final
      /\ \A a \in Shown \ {"finalizer"} : board'.agents[a] = board.agents[a]
  BY <1>3 DEF Showing, Boards
<1>5. answer' \in [text : Drafts \cup {"notice"}, status : Outcomes]
  BY <1>1, <1>2 DEF TypeOK, Text
<1>6. TypeOK'
  BY <1>1, <1>2, <1>4, <1>5 DEF TypeOK
<1>7. AttemptsLeft' /\ BoardSettles'
  BY <1>2 DEF AttemptsLeft, BoardSettles
<1>8. ReviewedSoFar'
  <2>1. Text' = Text /\ Decided(reviews)' = Decided(reviews) /\ MayRevise' = MayRevise
    BY <1>2 DEF Text, Decided, MayRevise
  <2> QED
    BY <1>1, <1>2, <2>1 DEF Finalize, ReviewedSoFar, AtAgent, Judged
<1>9. DraftOfStatus'
  BY <1>1, <1>2 DEF DraftOfStatus, AtAgent, Judged
<1>10. BoardSoFar'
  BY <1>1, <1>2, <1>4 DEF BoardSoFar, InPhase4, AtAgent, Judged
<1>11. ProgressSoFar' /\ PanelSoFar'
  BY <1>1, <1>2, <1>4
  DEF IInv, ProgressSoFar, PanelSoFar, Drafted, InPhase4, AtAgent, Judged
<1> QED
  BY <1>6, <1>7, <1>8, <1>9, <1>10, <1>11 DEF IInv

\* The finalizer is shown as done.
LEMMA FinishFinalizerInv == ASSUME IInv, FinishFinalizer PROVE IInv'
<1>1. /\ Judged /\ TypeOK /\ BoardSoFar /\ ReviewedSoFar /\ DraftOfStatus
      /\ pc = "finalizing"
  BY DEF IInv, FinishFinalizer, Judged
<1>2. /\ pc' = "responding"
      /\ UNCHANGED <<asked, evidence, tries, status4, step, revision, draft, reviews,
                     verdict, answer>>
  BY DEF FinishFinalizer
<1>3. /\ board' = Showing("finalizer", "completed", 99)
      /\ "finalizer" \in Shown /\ "completed" \in AgentStates /\ 99 \in 0..100
      /\ board \in Boards
  BY <1>1, OthersShown DEF FinishFinalizer, TypeOK, AgentStates
<1>4. /\ board' \in Boards /\ board'.progress = 99
      /\ board'.agents["finalizer"] = "completed"
      /\ board'.draft = board.draft /\ board'.final = board.final
      /\ \A a \in Shown \ {"finalizer"} : board'.agents[a] = board.agents[a]
  BY <1>3 DEF Showing, Boards
<1>5. TypeOK'
  BY <1>1, <1>2, <1>4 DEF TypeOK
<1>6. AttemptsLeft' /\ BoardSettles'
  BY <1>2 DEF AttemptsLeft, BoardSettles
<1>7. ReviewedSoFar'
  <2>1. Text' = Text /\ Decided(reviews)' = Decided(reviews) /\ MayRevise' = MayRevise
    BY <1>2 DEF Text, Decided, MayRevise
  <2> QED
    BY <1>1, <1>2, <2>1 DEF ReviewedSoFar, AtAgent, Judged
<1>8. DraftOfStatus'
  BY <1>1, <1>2 DEF DraftOfStatus, AtAgent, Judged
<1>9. BoardSoFar'
  BY <1>1, <1>2, <1>4 DEF BoardSoFar, InPhase4, AtAgent, Judged
<1>10. ProgressSoFar' /\ PanelSoFar'
  BY <1>1, <1>2, <1>4
  DEF IInv, ProgressSoFar, PanelSoFar, Drafted, InPhase4, AtAgent, Judged
<1> QED
  BY <1>5, <1>6, <1>7, <1>8, <1>9, <1>10 DEF IInv

\* The run is over.
LEMMA CompleteInv == ASSUME IInv, Complete PROVE IInv'
<1>1. /\ Judged /\ TypeOK /\ BoardSoFar /\ ReviewedSoFar /\ DraftOfStatus
      /\ pc = "responding"
  BY DEF IInv, Complete, Judged
<1>2. /\ pc' = "completed"
      /\ UNCHANGED <<asked, evidence, tries, status4, step, revision, draft, reviews,
                     verdict, answer>>
  BY DEF Complete
<1>3. board \in Boards /\ answer.text \in Drafts \cup {"notice"}
  BY <1>1 DEF TypeOK
<1>4. /\ board' \in Boards /\ board'.run = "completed"
      /\ board'.final = answer.text /\ board'.draft = board.draft
      /\ board'.agents = board.agents
  <2>1. board' = [agents |-> board.agents, run |-> "completed", progress |-> 100,
                  revision |-> board.revision, draft |-> board.draft,
                  final |-> answer.text]
    BY <1>3 DEF Complete, Boards
  <2> QED
    BY <1>3, <2>1 DEF Boards
<1>5. TypeOK'
  BY <1>1, <1>2, <1>4 DEF TypeOK
<1>6. AttemptsLeft'
  BY <1>2 DEF AttemptsLeft
<1>7. ReviewedSoFar'
  <2>1. Text' = Text /\ Decided(reviews)' = Decided(reviews) /\ MayRevise' = MayRevise
    BY <1>2 DEF Text, Decided, MayRevise
  <2> QED
    BY <1>1, <1>2, <2>1 DEF ReviewedSoFar, AtAgent, Judged
<1>8. DraftOfStatus'
  BY <1>1, <1>2 DEF DraftOfStatus, AtAgent, Judged
<1>9. \A a \in Shown : board'.agents[a] = "completed"
  BY <1>1, <1>4 DEF BoardSoFar
<1>10. BoardSoFar' /\ BoardSettles'
  BY <1>2, <1>4, <1>9, OthersShown
  DEF BoardSoFar, BoardSettles, InPhase4, AtAgent, Judged
<1>11. ProgressSoFar' /\ PanelSoFar'
  BY <1>1, <1>2, <1>4
  DEF IInv, ProgressSoFar, PanelSoFar, Drafted, InPhase4, AtAgent, Judged
<1> QED
  BY <1>5, <1>6, <1>7, <1>8, <1>10, <1>11 DEF IInv

\* Nothing happens.
LEMMA StutterInv == ASSUME IInv, UNCHANGED vars PROVE IInv'
<1> USE DEF IInv, vars
<1>1. TypeOK' /\ AttemptsLeft' /\ BoardSettles' /\ DraftOfStatus'
  BY DEF TypeOK, AttemptsLeft, BoardSettles, DraftOfStatus, AtAgent, Judged
<1>2. ReviewedSoFar'
  BY DEF ReviewedSoFar, AtAgent, Judged, Decided, Text, MayRevise
<1>3. BoardSoFar' /\ ProgressSoFar' /\ PanelSoFar'
  BY DEF BoardSoFar, ProgressSoFar, PanelSoFar, Drafted, InPhase4, AtAgent, Judged, Agent, At
<1> QED
  BY <1>1, <1>2, <1>3

\* Every step preserves the invariant.
LEMMA NextInv == ASSUME IInv, [Next]_vars PROVE IInv'
<1>1. CASE Ask
  BY <1>1, AskInv
<1>2. CASE Retrieve
  BY <1>2, RetrieveInv
<1>3. CASE Generate
  BY <1>3, GenerateInv
<1>4. CASE Settle
  BY <1>4, SettleInv
<1>5. CASE Start
  BY <1>5, StartInv
<1>6. CASE Retry \/ Garble
  BY <1>6, RetryInv
<1>7. CASE Finish
  BY <1>7, FinishAgentInv, FinishEngineInv
<1>8. CASE Revise
  BY <1>8, ReviseInv
<1>9. CASE Finalize
  BY <1>9, FinalizeInv
<1>10. CASE Complete
  BY <1>10, CompleteInv
<1>11. CASE FailAgent
  BY <1>11, FailAgentInv
<1>12. CASE Fail
  BY <1>12, FailInv
<1>13. CASE FinishFinalizer
  BY <1>13, FinishFinalizerInv
<1>14. CASE UNCHANGED vars
  BY <1>14, StutterInv
<1> QED
  BY <1>1, <1>2, <1>3, <1>4, <1>5, <1>6, <1>7, <1>8, <1>9, <1>10, <1>11, <1>12, <1>13,
     <1>14
  DEF Next, Run

\* The progress bar does not fall in a step of a run.
LEMMA NextProgress ==
    ASSUME IInv, [Next]_vars
    PROVE  asked' = asked => board'.progress >= board.progress
<1> SUFFICES ASSUME asked' = asked PROVE board'.progress >= board.progress
  OBVIOUS
<1>1. board \in Boards /\ board.progress \in 0..100 /\ asked \in Nat
  BY ConstantFacts DEF IInv, TypeOK, Boards
<1>2. CASE Ask
  BY <1>1, <1>2 DEF Ask
<1>3. CASE Settle
  BY <1>1, <1>3 DEF Settle, Boards, IInv, ProgressSoFar, InPhase4
<1>4. CASE Start \/ Finish \/ FailAgent
  <2>1. AtAgent /\ board.progress <= At
    BY <1>4 DEF Start, Finish, FailAgent, AtAgent, IInv, ProgressSoFar
  <2>2. board'.progress = At
    BY <1>1, <1>4 DEF Start, Finish, FailAgent, Showing, Boards
  <2> QED
    BY <1>1, <2>1, <2>2, AtFacts DEF IInv
<1>5. CASE Revise
  <2>1. board.progress <= 89
    BY <1>5 DEF Revise, MayRevise, IInv, ProgressSoFar
  <2>2. board'.progress = 90
    BY <1>1, <1>5 DEF Revise, Boards
  <2> QED
    BY <1>1, <2>1, <2>2
<1>6. CASE Finalize
  <2>1. board.progress <= 93
    BY <1>1, <1>6 DEF Finalize, IInv, ProgressSoFar
  <2>2. board'.progress = 97
    BY <1>1, <1>6 DEF Finalize, Showing, Boards
  <2> QED
    BY <1>1, <2>1, <2>2
<1>7. CASE FinishFinalizer \/ Complete
  <2>1. \/ board.progress <= 97 /\ board'.progress = 99
        \/ board'.progress = 100
    BY <1>1, <1>7
    DEF FinishFinalizer, Complete, Showing, Boards, IInv, ProgressSoFar
  <2> QED
    BY <1>1, <2>1
<1>8. CASE Fail
  BY <1>1, <1>8 DEF Fail, Failed, Boards
<1>9. CASE Retrieve \/ Generate \/ Retry \/ Garble \/ UNCHANGED vars
  BY <1>1, <1>9 DEF Retrieve, Generate, Retry, Garble, vars
<1> QED
  BY <1>2, <1>3, <1>4, <1>5, <1>6, <1>7, <1>8, <1>9 DEF Next, Run

-----------------------------------------------------------------------------
(* The theorems. *)

\* The inductive invariant: what is on its way through the agents was judged so
\* far, keeps the status of Phase 4, and is shown as far as it is.
THEOREM AnswerInvariance == Spec => []IInv
<1>1. Init => IInv
  BY InitInv
<1>2. IInv /\ [Next]_vars => IInv'
  BY NextInv
<1> QED
  BY <1>1, <1>2, PTL DEF Spec

\* The types, and the numbers of attempts: neither _generate_grounded_answer nor
\* ModelRouter.generate asks a model more often than configured.
THEOREM AnswerTyped == Spec => []TypeOK
<1>1. IInv => TypeOK
  BY DEF IInv
<1> QED
  BY <1>1, AnswerInvariance, PTL

\* The answer of Phase5Pipeline.answer was judged as it stands: decision and reviews
\* are of the very draft delivered, in a revision too.
THEOREM JudgedAsDelivered == Spec => []ReviewsAreOfTheAnswer
<1>1. ASSUME IInv, pc \in {"finalizing", "responding", "completed"}, NEW r \in Reviewers
      PROVE  verdict.of = draft /\ reviews[r].of = draft
  <2>1. Judged /\ ReviewedSoFar
    BY <1>1 DEF IInv, Judged
  <2>2. PICK i \in 5..8 : r = Agents[i]
    BY AgentFacts
  <2> QED
    BY <2>1, <2>2 DEF ReviewedSoFar
<1>2. "critic_agent" \in Reviewers
  BY DEF Reviewers
<1>3. IInv => ReviewsAreOfTheAnswer
  BY <1>1, <1>2 DEF ReviewsAreOfTheAnswer
<1> QED
  BY <1>3, AnswerInvariance, PTL

\* What the decision of ConsensusEngine.run and the finalizer make of a finished run.
LEMMA WhenCompleted ==
    ASSUME IInv, pc = "completed"
    PROVE  /\ status4 \in Statuses
           /\ status4 \in Preserved => draft = "phase4"
           /\ evidence.current /\ ~(evidence.scored /\ evidence.support) =>
                 status4 = "unsupported_query"
           /\ verdict.decision = Decided(reviews).decision
           /\ verdict.status = Decided(reviews).status
           /\ answer.text = Text
           /\ answer.status = verdict.status
  BY DEF IInv, TypeOK, Judged, ReviewedSoFar, DraftOfStatus

\* "unsupported_query" and "insufficient_evidence" of Phase 4 reach the end with
\* Phase 4's own text, whatever the reviewers say.
THEOREM StatusSurvives == Spec => []StatusIsPreserved
<1>1. ASSUME IInv, pc = "completed", status4 \in Preserved
      PROVE  answer = [text |-> "phase4", status |-> status4]
  <2>1. verdict.status = status4 /\ Text = "phase4" /\ answer.text = "phase4"
        /\ answer.status = status4
    BY <1>1, WhenCompleted, DecidedFacts DEF Text
  <2>2. answer \in [text : Drafts \cup {"notice"}, status : Outcomes]
    BY <1>1 DEF IInv, TypeOK
  <2> QED
    BY <2>1, <2>2
<1>2. IInv => StatusIsPreserved
  BY <1>1 DEF StatusIsPreserved
<1> QED
  BY <1>2, AnswerInvariance, PTL

\* A question for current data that good evidence does not support is never answered.
THEOREM NeverAnsweredUnsupported == Spec => []UnsupportedNeverAnswered
<1>1. IInv => UnsupportedNeverAnswered
  BY WhenCompleted, DecidedFacts DEF UnsupportedNeverAnswered, Preserved
<1> QED
  BY <1>1, AnswerInvariance, PTL

\* A draft is only delivered over an objection of ConsensusEngine.run if it is the one
\* revision of Phase5Pipeline.answer, or none may be made; and never if it is both of
\* high risk and out of compliance.
THEOREM ObjectionsCount == Spec => []ObjectionsAreHeeded
<1>1. ASSUME IInv, pc = "completed", status4 \notin Preserved, answer.text # "notice"
      PROVE  /\ ~(reviews["risk_agent"].high /\ ~reviews["compliance_agent"].passed)
             /\ \/ \A r \in Reviewers : reviews[r].passed
                \/ revision = 1
                \/ MaxRevisionLoops = 0
  <2>1. /\ verdict.decision = Decided(reviews).decision
        /\ verdict.status = Decided(reviews).status
        /\ answer.text = Text
    BY <1>1, WhenCompleted
  <2>2. verdict.decision # "reject"
    <3>1. Decided(reviews).decision = "reject" => Decided(reviews).status = "rejected"
      BY <1>1 DEF Decided
    <3> QED
      BY <1>1, <2>1, <3>1 DEF Text, Preserved
  <2>3. ~(reviews["risk_agent"].high /\ ~reviews["compliance_agent"].passed)
    BY <1>1, <2>1, <2>2 DEF Decided
  <2>4. (\E r \in Reviewers : ~reviews[r].passed) => verdict.decision = "revise_once"
    BY <1>1, <2>1, <2>3 DEF Decided
  <2>5. ~MayRevise
    BY <1>1 DEF IInv, ReviewedSoFar
  <2> QED
    BY <1>1, <2>3, <2>4, <2>5, ConstantFacts DEF MayRevise, IInv, TypeOK
<1>2. IInv => ObjectionsAreHeeded
  BY <1>1 DEF ObjectionsAreHeeded
<1> QED
  BY <1>2, AnswerInvariance, PTL

\* What app.js displays as the answer is the draft under review and then the answer,
\* of the question that is under way.
THEOREM PanelFollows == Spec => []PanelIsCurrent
<1>1. ASSUME IInv PROVE PanelIsCurrent
  <2>1. PanelSoFar /\ (pc = "completed" => answer.text = Text /\ Judged)
    BY <1>1 DEF IInv, ReviewedSoFar, Judged, TypeOK
  <2>2. Drafted => pc # "completed"
    BY DEF Drafted, AtAgent
  <2>3. pc = "completed" => answer.text # "none"
    BY <2>1 DEF PanelSoFar, Text
  <2> QED
    BY <2>1, <2>2, <2>3 DEF PanelIsCurrent, PanelSoFar, Panel
<1>2. IInv => PanelIsCurrent
  BY <1>1
<1> QED
  BY <1>2, AnswerInvariance, PTL

\* When a run is over the board of the CommandCenterState has settled.
THEOREM BoardHasSettled == Spec => []BoardSettles
<1>1. IInv => BoardSettles
  BY DEF IInv
<1> QED
  BY <1>1, AnswerInvariance, PTL

\* The progress bar never goes back within a run, not even in a revision.
THEOREM ProgressOnlyGrows == Spec => ProgressNeverFalls
<1>1. IInv /\ [Next]_vars => [asked' = asked => board'.progress >= board.progress]_vars
  BY NextProgress
<1> QED
  BY <1>1, AnswerInvariance, PTL DEF Spec, ProgressNeverFalls
=============================================================================
