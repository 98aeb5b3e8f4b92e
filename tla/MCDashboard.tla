---------------------------- MODULE MCDashboard ----------------------------
(***************************************************************************)
(* The dashboard on small instances: each behaviour follows the queries of  *)
(* one scenario.                                                            *)
(***************************************************************************)
EXTENDS Dashboard

CONSTANTS none, some

MCNoFilter == none
MCFilters == {none, some}

\* The first load of the cards and its faults.
Cards ==
  [keys |-> {useStats}, tabs |-> {"overview", "upstream"}, disturbed |-> TRUE,
   errors |-> 2, changes |-> 1, clicks |-> 0]

\* Two pages of entries, and the flush button.
Flush ==
  [keys |-> {useCaches(1), useCaches(2)}, tabs |-> {"overview", "cache"},
   disturbed |-> FALSE, errors |-> 1, changes |-> 1, clicks |-> 1]

\* Rules are listed, added and deleted; the list is not polled.
Rules ==
  [keys |-> {useAddresses}, tabs |-> {"overview", "rules"}, disturbed |-> FALSE,
   errors |-> 0, changes |-> 0, clicks |-> 2]

\* The same while the network and the window come and go.
PausedRules ==
  [keys |-> {useAddresses}, tabs |-> {"rules"}, disturbed |-> TRUE,
   errors |-> 0, changes |-> 0, clicks |-> 1]

\* The query log, with and without automatic refreshes.
Log ==
  [keys |-> {useQueryLog(none, a) : a \in BOOLEAN}, tabs |-> {"overview", "querylog"},
   disturbed |-> FALSE, errors |-> 0, changes |-> 1, clicks |-> 0]

\* The query log, filtered or not.
FilteredLog ==
  [keys |-> {useQueryLog(f, TRUE) : f \in MCFilters}, tabs |-> {"querylog"},
   disturbed |-> FALSE, errors |-> 0, changes |-> 1, clicks |-> 0]

\* Two lists side by side, one of them polled.
Upstream ==
  [keys |-> {useNameservers, useListeners}, tabs |-> {"overview", "upstream"},
   disturbed |-> FALSE, errors |-> 1, changes |-> 1, clicks |-> 0]

MCScenarios == {Cards, Flush, Rules, PausedRules, Log, FilteredLog, Upstream}
MCStats == {Cards}
=============================================================================
