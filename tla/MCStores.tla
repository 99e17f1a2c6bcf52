------------------------------ MODULE MCStores ------------------------------
(* The two stores that trades leave something in, the index file and the
   margin pool on chain: each behaviour is one of a single store. *)
EXTENDS TradeIndex, MarginPool
VARIABLE store

StoresInit == IndexInit /\ Init /\ store \in {"index", "pool"}

StoresNext ==
  /\ UNCHANGED store
  /\ \/ store = "index" /\ IndexNext /\ UNCHANGED vars
     \/ store = "pool" /\ Next /\ UNCHANGED indexVars

StoresSpec == StoresInit /\ [][StoresNext]_<<indexVars, vars, store>>

WriterSymmetry ==
  Permutations(Trades) \cup Permutations(Completions) \cup Permutations(Calls)
=============================================================================
