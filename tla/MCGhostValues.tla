--------------------------- MODULE MCGhostValues ---------------------------
(* Instances of GhostValues for TLC: clumped grids with the least ghosts,  *)
(* where tallies are collated before cells move, and grids of any kind     *)
(* with all ghosts, where a window of tallies goes on while they do.       *)
EXTENDS GhostValues

Ring == [d \in {-1, 1} |-> "periodic"]

Timestep == <<"compute", "receive", "relax">>
Collating == <<"contribute", "collate">>

MCSettings ==
    {[all |-> FALSE,
      collate |-> "array", surfs |-> {1, 3},
      script |-> <<"tally">> \o Timestep \o <<"tally">> \o Collating \o <<"balance">>
                   \o Timestep \o Timestep,
      layouts |-> {<<0, 1, 1, 2>>, <<2, 2, 1, 0>>, <<0, 0, 1, 1>>}],
     [all |-> TRUE,
      collate |-> "array", surfs |-> {4},
      script |-> <<"tally">> \o Timestep \o <<"balance", "tally">> \o Collating
                   \o Timestep \o <<"tally">> \o Collating,
      layouts |-> {<<0, 1, 0, 2>>, <<1, 1, 0, 0>>}]}

\* Fix ave/grid with one value: a window of two steps.
OneValue ==
    {[all |-> TRUE, collate |-> "vector", surfs |-> {2},
      script |-> <<"tally", "tally">> \o Collating,
      layouts |-> {<<0, 1, 1, 2>>}]}

=============================================================================
