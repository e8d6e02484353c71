----------------------------- MODULE RollingMemory -----------------------------
(***************************************************************************)
(* The rolling summary of a voice session (worker flow/memory.ts): every   *)
(* Interval caller turns the transcript older than the window is condensed *)
(* for the agents to read: a node's prompt gets the summary there is when  *)
(* it is built, and the live agent's chat context, the copies of which     *)
(* leave such messages out, a newer one when a refresh ends.  The refresh  *)
(* runs beside the replies and the moves from node to node.                *)
(***************************************************************************)
EXTENDS Integers

CONSTANTS
  MemoryInterval, MemoryWindow,   \* memory.intervalTurns, memory.windowTurns
  CallerTurns                     \* bound: how often the caller speaks

ASSUME MemoryShape == {MemoryInterval, MemoryWindow} \subseteq Nat \ {0}

VARIABLES
  said,        \* messages in the transcript (turns)
  callerTurns, \* userTurns
  boundary,    \* said at the last interval boundary, for the properties
  refresh,     \* the refresh: "rest", "asking" the model, "waiting" for the agent
  rerun,       \* pending: a boundary passed while a refresh ran
  older,       \* how many messages the refresh condenses
  condensed,   \* how many messages rollingSummary.text stands for
  failed,      \* the last refresh got no summary
  speaking,    \* the agent is thinking or speaking
  block,       \* what the summary in the live agent's prompt stands for
  spliced,     \* what the one in its chat context stands for, 0 without one
  built,       \* the prompt's, of the agent a tool is moving to; or NotMoving
  rushed       \* the last summary went to an agent that was being left

memoryVars == <<said, callerTurns, boundary, refresh, rerun, older, condensed, failed,
                speaking, block, spliced, built, rushed>>

NotMoving == -1

MemoryInit ==
  /\ said = 0 /\ callerTurns = 0 /\ boundary = 0
  /\ refresh = "rest" /\ rerun = FALSE /\ older = 0 /\ condensed = 0 /\ failed = FALSE
  /\ speaking = FALSE /\ block = 0 /\ spliced = 0 /\ built = NotMoving /\ rushed = FALSE

Older(n) == IF n > MemoryWindow THEN n - MemoryWindow ELSE 0

\* regenerate with n messages: nothing older than the window, nothing to do.
Regenerate(n) ==
  /\ rerun' = FALSE
  /\ older' = Older(n)
  /\ refresh' = IF Older(n) = 0 THEN "rest" ELSE "asking"

\* onUserTurn, once the caller's words are in the transcript.
CallerSpeaks ==
  /\ callerTurns < CallerTurns
  /\ said' = said + 1 /\ callerTurns' = callerTurns + 1 /\ speaking' = TRUE
  /\ IF callerTurns' % MemoryInterval # 0
     THEN UNCHANGED <<boundary, refresh, rerun, older>>
     ELSE /\ boundary' = said'
          /\ IF refresh = "rest" THEN Regenerate(said')
             ELSE rerun' = TRUE /\ UNCHANGED <<refresh, older>>
  /\ UNCHANGED <<condensed, failed, block, spliced, built, rushed>>

\* The agent's reply is committed and it listens again.
AgentSpeaks ==
  /\ speaking /\ built = NotMoving
  /\ said' = said + 1 /\ speaking' = FALSE
  /\ UNCHANGED <<callerTurns, boundary, refresh, rerun, older, condensed, failed, block,
                 spliced, built, rushed>>

\* Mutant: the request to run again is lost with the run that ends.
EndRefreshM == refresh' = "rest" /\ rerun' = FALSE /\ UNCHANGED older

\* The loop around regenerate: once more when a boundary passed meanwhile.
EndRefresh ==
  IF rerun THEN Regenerate(said)
  ELSE refresh' = "rest" /\ UNCHANGED <<rerun, older>>

Summarized ==
  /\ refresh = "asking"
  /\ condensed' = older /\ failed' = FALSE /\ refresh' = "waiting"
  /\ UNCHANGED <<said, callerTurns, boundary, rerun, older, speaking, block, spliced,
                 built, rushed>>

\* The model throws or answers nothing: the old summary stays.
NotSummarized ==
  /\ refresh = "asking"
  /\ failed' = TRUE /\ EndRefresh
  /\ UNCHANGED <<said, callerTurns, boundary, condensed, speaking, block, spliced,
                 built, rushed>>

\* Mutant: the context is changed as soon as the summary is there.
AgentIdleM == TRUE

\* waitForAgentIdle, unless its 12 s pass first.
AgentIdle == ~speaking

\* The live agent's context loses the summary that was put there last and gets the new
\* one, between two replies ...
Splice ==
  /\ refresh = "waiting" /\ AgentIdle
  /\ spliced' = condensed /\ rushed' = FALSE
  /\ EndRefresh
  /\ UNCHANGED <<said, callerTurns, boundary, condensed, failed, speaking, block, built>>

\* ... or in the middle of one that takes long.
SpliceAnyway ==
  /\ refresh = "waiting" /\ speaking
  /\ spliced' = condensed /\ rushed' = (built # NotMoving)
  /\ EndRefresh
  /\ UNCHANGED <<said, callerTurns, boundary, condensed, failed, speaking, block, built>>

\* A tool of the node moves on: the next agent is built, with the summary of now in its
\* prompt and a copy of the context that leaves the system messages out ...
MoveCopies ==
  /\ speaking /\ built = NotMoving
  /\ built' = condensed
  /\ UNCHANGED <<said, callerTurns, boundary, refresh, rerun, older, condensed, failed,
                 speaking, block, spliced, rushed>>

\* ... and becomes the session's agent later.
MoveLands ==
  /\ built # NotMoving
  /\ block' = built /\ spliced' = 0 /\ built' = NotMoving
  /\ UNCHANGED <<said, callerTurns, boundary, refresh, rerun, older, condensed, failed,
                 speaking, rushed>>

\* A move the agent did not ask for (the last turn of a limit, objectives that are met)
\* builds the next agent and hands it to the session in one step, at any time.
MoveAtOnce ==
  /\ block # condensed \/ spliced # 0
  /\ block' = condensed /\ spliced' = 0
  /\ UNCHANGED <<said, callerTurns, boundary, refresh, rerun, older, condensed, failed,
                 speaking, built, rushed>>

MemoryNext ==
  \/ CallerSpeaks \/ AgentSpeaks \/ Summarized \/ NotSummarized \/ Splice \/ SpliceAnyway
  \/ MoveCopies \/ MoveLands \/ MoveAtOnce

MemorySpec == MemoryInit /\ [][MemoryNext]_memoryVars

-----------------------------------------------------------------------------
\* Refreshes that overlap boundaries are never lost: whenever none runs, the summary
\* reaches as far as the last interval boundary asked for, unless the model failed
\* ("run once more when it ends so the summary always reflects the latest interval
\* boundary", flow/memory.ts).
SummaryCatchesUp ==
  refresh = "rest" /\ ~failed => condensed >= Older(boundary)

\* The summary the live agent goes by: the message in its context is newer than the
\* block of its prompt.
Told == IF spliced # 0 THEN spliced ELSE block

\* Whenever no refresh runs, the agent that is live has been told of everything older than
\* the window at the last boundary, by its prompt or by its context: a summary that is
\* ready while a tool builds the next agent, whose prompt still has the old one and whose
\* copy of the context has none, is not lost with the agent that is left.  (Unless the
\* model failed, or the wait for the reply's end was given up in the middle of a move.)
AgentIsTold ==
  refresh = "rest" /\ ~failed /\ ~rushed => Told >= Older(boundary)
=============================================================================
