----------------------------- MODULE MCClients -----------------------------
(* The clients of the API, each beside an API of its own: a behaviour is one
   of the browser tab, of the two scripts or of the order terminals. *)
EXTENDS BrowserQueue, QuoteBots, OrderTerminal
VARIABLE client

\* Around a mark of 5: a long, a short that crosses it, and a short whose price
\* priceStr moves out of the bot's reach.
ALongAndShorts ==
  {[side |-> "long", price |-> 6, size |-> 1], [side |-> "short", price |-> 4, size |-> 2],
   [side |-> "short", price |-> 7, size |-> 1]}

ClientsInit ==
  /\ TabInit /\ BotsInit /\ TerminalInit
  /\ client \in {"tab", "bots", "terminal"}
  /\ client # "terminal" => bid = "unset" /\ mode = "order-only"

ClientsNext ==
  /\ UNCHANGED client
  /\ \/ client = "tab" /\ TabNext /\ UNCHANGED <<botVars, terminalVars>>
     \/ client = "bots" /\ BotsNext /\ UNCHANGED <<tabVars, terminalVars>>
     \/ client = "terminal" /\ TerminalNext /\ UNCHANGED <<tabVars, botVars>>

ClientsSpec ==
  /\ ClientsInit
  /\ [][ClientsNext]_<<tabVars, botVars, terminalVars, client>>
  /\ TabFairness
  /\ client = "bots" => BotsFairness
=============================================================================
