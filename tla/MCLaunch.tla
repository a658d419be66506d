------------------------------ MODULE MCLaunch ------------------------------
(* HookHost and Launch on small instances.  They share no state: Launch has *)
(* which window a game finds, HookHost what the two say to each other then. *)
(* A behaviour follows one of them.                                         *)
EXTENDS HookHost, Launch

VARIABLE part   \* the one this behaviour follows

partVars == <<vars, launchVars, part>>

PartInit ==
  /\ part \in {"hooks", "launch"} /\ Init /\ LaunchInit
  /\ IF part = "launch" THEN rows = {}
     ELSE library = "native" /\ socket = 0 /\ config = 0 /\ settingsFile = Unreadable

PartNext ==
  \/ part = "hooks" /\ Next /\ UNCHANGED <<launchVars, part>>
  \/ part = "launch" /\ LaunchNext /\ UNCHANGED <<vars, part>>

(* The fairness of HookHost; a game without a connection tries again.      *)
PartSpec ==
  /\ PartInit /\ [][PartNext]_partVars
  /\ Fairness
  /\ WF_game(FindsConfig) /\ WF_game(Dials)

PartTypeOK == TypeOK /\ LaunchTypeOK
=============================================================================
