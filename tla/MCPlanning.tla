------------------------------ MODULE MCPlanning ------------------------------
(* Values for the constants of Planning that a .cfg cannot write.          *)
EXTENDS Planning

\* What follows another question may cost two tokens more, or one less.
MCQuestions == {[tokens |-> 1, bytes |-> 1, joined |-> 2],
                [tokens |-> 2, bytes |-> 1, joined |-> -1], [tokens |-> 1, bytes |-> 3, joined |-> 0]}
MCCaps == {<<>>, [estimated_input_tokens |-> 7], [transmitted_bytes |-> 5, fragments |-> 4],
           [estimated_cost_usd |-> 3, request_attempts |-> 2], [candidate_files |-> 1, prepared_source_bytes |-> 4]}
Plain == [partial |-> FALSE, budget |-> <<>>]
MCRequests == {Plain, [partial |-> None, budget |-> [time |-> 1]],
               [partial |-> None, budget |-> [estimated_input_tokens |-> 5]],
               [partial |-> FALSE, budget |-> [estimated_input_tokens |-> 8, estimated_cost_usd |-> 4]]}
Whole  == [hits |-> 0, files |-> 1, bytes |-> 4, inventory |-> TRUE, complete |-> TRUE, unreadable |-> 0, fallbacks |-> 0]
MCPreparations == {Whole, [Whole EXCEPT !.hits = 1, !.fallbacks = 1], [Whole EXCEPT !.complete = FALSE, !.unreadable = 1],
                   [Whole EXCEPT !.complete = FALSE, !.inventory = FALSE, !.hits = 1]}
MCPrices   == {None, 1}
MCReserves == {<<0, 1>>, <<1, 2>>}
=============================================================================
