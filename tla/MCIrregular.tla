---------------------------- MODULE MCIrregular ----------------------------
(***************************************************************************)
(* Small instances of Irregular: three processes, and datum lists chosen   *)
(* so that a process has two datums for one receiver, one for itself, a    *)
(* receiver that hears from everybody and one that hears from nobody.      *)
(***************************************************************************)
EXTENDS Irregular, FiniteSetsExt

\* A list of datums from its destinations; datum i has i bytes.
ListTo(to) == [to |-> to,
               bytes |-> [q \in Proc |-> SumSet({i \in DOMAIN to : to[i] = q})]]

\* Everyone to process 0; process 1 sends twice; process 0 also to itself.
Funnel == [p \in Proc |-> ListTo(IF p = 1 THEN <<0, 0>> ELSE <<0>>)]
\* A ring with interleaved destinations.
Ring == [p \in Proc |-> ListTo(<<(p + 1) % NProcs, p, (p + 1) % NProcs>>)]
\* Process 2 to both others; the others send nothing.
Spread == [p \in Proc |-> ListTo(IF p = 2 THEN <<1, 0, 1>> ELSE <<>>)]
\* One datum for each receiver at most.
Fan == [p \in Proc |-> ListTo(CASE p = 2 -> <<0, 1>> [] p = 0 -> <<0, 1>> [] OTHER -> <<>>)]
\* 0 and 1 swap, 2 is idle.
Swap == [p \in Proc |-> ListTo(CASE p = 0 -> <<1>> [] p = 1 -> <<0>> [] OTHER -> <<>>)]
\* 0 with both others, and the others with 0 only; 0 has two datums for 2.
Star == [p \in Proc |-> ListTo(IF p = 0 THEN <<2, 1, 2>> ELSE <<0>>)]
Nothing == [p \in Proc |-> ListTo(<<>>)]

\* Both uniform methods; a plan for two exchanges, as the communication of
\* macroscopic values uses it, and a plan that replaces it; and neighbours
\* that are agreed on once, as particle migration uses them.
EveryMethod == <<"create_data_uniform", "exchange_uniform",
                 "create_data_uniform_grouped", "exchange_uniform",
                 "create_data_variable", "exchange_variable", "exchange_variable",
                 "create_data_variable",
                 "create_procs", "augment_data_uniform", "exchange_uniform",
                 "augment_data_uniform", "exchange_uniform">>
EveryLoad == {<<Funnel, Nothing, Fan, Nothing, Spread, Nothing, Nothing, Star,
                Star, Funnel, Nothing, Star, Nothing>>,
              <<Ring, Nothing, Swap, Nothing, Ring, Nothing, Nothing, Spread,
                Ring, Nothing, Nothing, Ring, Nothing>>}
SomeSorted == {1, 3}

=============================================================================
