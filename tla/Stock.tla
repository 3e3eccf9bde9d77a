-------------------------------- MODULE Stock --------------------------------
(***************************************************************************)
(* One item's books under all that moves them: bills take stock and give it *)
(* back while clerks promise, send and count it.  Each step of either is a  *)
(* transaction of its own and leaves the rows of the other alone; what they *)
(* share is the books, posted to under the item's lock.                     *)
(***************************************************************************)
EXTENDS Depletion, Storeroom

billVars == <<order, line, taken, call, delivered>>
clerkVars == <<transfer, tally, clerk, moves>>
stockVars == <<books, billVars, clerkVars>>

StockInit == DepletionInit /\ StoreInit
StockNext ==
  \/ UNCHANGED clerkVars /\ DepletionNext
  \/ UNCHANGED billVars /\ StoreNext

StockSpec == StockInit /\ [][StockNext]_stockVars
==============================================================================
