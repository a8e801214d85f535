------------------------------ MODULE MCUpkeep ------------------------------
(***************************************************************************)
(* Two plugin files, of which one comes with a release, two configurations *)
(* and three builds.  What comes from outside is counted.                  *)
(***************************************************************************)
EXTENDS Updater

CONSTANT MaxEvents    \* bound: what users, plugins and releases do

VARIABLE events

MCFiles == <<"user.so", "shipped.so">>

\* A name can be in two files.
MCHolds == [f \in Range(MCFiles) |-> IF f = "user.so" THEN <<"W">> ELSE <<"V">>]

\* The first build does not know the second configuration.
MCAccepts(build, config) == build > 1 \/ config = "default"

MCInit == UpdInit /\ events = 0

MCNext ==
    \/ Proceed /\ UNCHANGED events
    \/ Happen /\ events < MaxEvents /\ events' = events + 1

MCSpec == MCInit /\ [][MCNext]_<<allVars, events>>
=============================================================================
