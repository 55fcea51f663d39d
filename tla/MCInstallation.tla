---------------------------- MODULE MCInstallation ----------------------------
(***************************************************************************)
(* An instance of an installation.                                         *)
(***************************************************************************)
EXTENDS Installation, TLC

MCSkillOrder == <<"brief">>
MCConnectorSets == <<"jira">>

\* What the theorems assume of the scores and of the scripts.
ASSUME GateScores == ScoresArePerMille
ASSUME Scripts == LegsFit /\ LegsCompose /\ HeadFits

\* The same processes run Alembic and the commands.
Processes == Permutations(Migrators)
=============================================================================
