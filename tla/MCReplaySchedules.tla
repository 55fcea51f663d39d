-------------------------- MODULE MCReplaySchedules --------------------------
(***************************************************************************)
(* An instance of ReplaySchedules: the replay of a gold example, and two   *)
(* source refreshes that list the same connectors in opposite orders.      *)
(***************************************************************************)
EXTENDS ReplaySchedules, TLC

CONSTANTS goldReplay, refresh, refreshBack, example, jira, slack

KindOf == goldReplay :> "gold" @@ refresh :> "source_refresh" @@ refreshBack :> "source_refresh"

WritesOf == goldReplay :> <<example>> @@ refresh :> <<jira, slack>> @@ refreshBack :> <<slack, jira>>
=============================================================================
