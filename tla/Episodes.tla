-------------------------------- MODULE Episodes --------------------------------
(***************************************************************************)
(* EpisodeCaptureWrapper around an environment: the episodes of a          *)
(* reinforcement-learning agent as records, one for every step and one for *)
(* every episode.  The environment is GuardrailGymEnv, whose episodes have *)
(* one step, or any other, which is external.  Either can raise.           *)
(***************************************************************************)
EXTENDS Naturals, Sequences, FiniteSets

CONSTANTS
  Tasks,                 \* how many tasks the guardrail's environment has
  CaptureSteps,
  MaxEpisodes, MaxSteps  \* bounds of the model

EpisodesAssumption ==
  Tasks \in Nat /\ CaptureSteps \in BOOLEAN /\ MaxEpisodes \in Nat /\ MaxSteps \in Nat

None == 0

VARIABLES
  kind,     \* "guardrail" or "other"
  task,     \* of the environment: the task sampled, and
  done,     \* whether its episode is over
  episode,  \* of the wrapper: the open episode, its steps and its return
  steps, return,
  started,  \* episodes begun so far
  records   \* what was exported

vars == <<kind, task, done, episode, steps, return, started, records>>

Init ==
  /\ kind \in {"guardrail", "other"} /\ task = None /\ done = TRUE
  /\ episode = None /\ steps = 0 /\ return = 0 /\ started = 0
  /\ records = << >>

------------------------------------------------------------------------------
\* _finalize_episode: the record of an open episode with s steps and return r.
Episode(e, s, r, completed) ==
  IF e = None THEN << >> ELSE <<[episode |-> e, steps |-> s, reward |-> r, completed |-> completed]>>

StepRecord(reward) ==
  IF CaptureSteps THEN <<[episode |-> episode, index |-> steps, reward |-> reward]>> ELSE << >>

\* GuardrailGymEnv.reset of a task index, or of one that is out of range.
EnvResets(index) == IF kind = "guardrail" THEN index \in 1..Tasks ELSE index = 1

\* Faulty variant of Opens: before the environment was reset.
OpensAtOnce(index) == TRUE

\* The new episode opens when the environment's reset has returned.
Opens(index) == EnvResets(index)

Reset(index) ==
  /\ started < MaxEpisodes
  /\ records' = records \o Episode(episode, steps, return, FALSE)
  /\ IF Opens(index) THEN episode' = started + 1 /\ started' = started + 1 /\ steps' = 0 /\ return' = 0
                     ELSE episode' = None /\ UNCHANGED <<started, steps, return>>
  /\ IF EnvResets(index) THEN task' = index /\ done' = FALSE ELSE UNCHANGED <<task, done>>
  /\ UNCHANGED kind

\* GuardrailGymEnv.step, which ends the episode unless it raises; what others do is free.
EnvSteps(outcome) ==
  IF kind = "guardrail" THEN ~ done /\ task # None /\ outcome = "ends" ELSE outcome # "raises"

\* A step that raises changes nothing; the others are recorded with their reward.
Step(outcome, reward) ==
  /\ episode # None /\ EnvSteps(outcome) /\ steps < MaxSteps
  /\ done' = (outcome = "ends")
  /\ records' = records \o StepRecord(reward)
                        \o (IF outcome = "ends" THEN Episode(episode, steps + 1, return + reward, TRUE) ELSE << >>)
  /\ episode' = IF outcome = "ends" THEN None ELSE episode
  /\ steps' = steps + 1 /\ return' = return + reward
  /\ UNCHANGED <<kind, task, started>>

\* close; the environment's own state stays.
Close ==
  /\ episode # None
  /\ records' = records \o Episode(episode, steps, return, FALSE)
  /\ episode' = None
  /\ UNCHANGED <<kind, task, done, steps, return, started>>

Next ==
  \/ \E index \in 1..Tasks + 1 : Reset(index)
  \/ \E outcome \in {"goes on", "ends", "raises"}, reward \in {0, 1} : Step(outcome, reward)
  \/ Close

Spec == Init /\ [][Next]_vars

------------------------------------------------------------------------------
\* Properties

EpisodeRecords == {i \in DOMAIN records : "completed" \in DOMAIN records[i]}
StepsOf(e) == {i \in DOMAIN records \ EpisodeRecords : records[i].episode = e}
Rewarded(e) == {i \in StepsOf(e) : records[i].reward = 1}

TypeOK ==
  /\ kind \in {"guardrail", "other"} /\ task \in 0..Tasks + 1 /\ done \in BOOLEAN
  /\ started \in 0..MaxEpisodes /\ episode \in {None, started} /\ steps \in 0..MaxSteps

\* Every episode that is over has one record, which agrees with the records of
\* its steps, and an open one can be stepped: the environment is in an episode
\* too, whatever resets and steps raised (reset, step, close).
EpisodesAddUp ==
  /\ \A e \in 1..started \ {episode} : \E i \in EpisodeRecords :
       /\ records[i].episode = e
       /\ \A j \in EpisodeRecords \ {i} : records[j].episode # e
       /\ CaptureSteps => /\ Cardinality(StepsOf(e)) = records[i].steps
                          /\ Cardinality(Rewarded(e)) = records[i].reward
  /\ episode # None => ~ done /\ task # None
==============================================================================
