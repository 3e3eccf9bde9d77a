------------------------------ MODULE MCStock --------------------------------
(***************************************************************************)
(* Rows that several requests judge before they write them: the stock taken *)
(* by bills, the stock that is moved on purpose, and a person's sign-ins.   *)
(* The last shares nothing with the others, so a behaviour is one part and  *)
(* the rest stands still; the two that share the books are mixed with one   *)
(* call, one transfer and one clerk at a time only.                         *)
(***************************************************************************)
EXTENDS Stock, Sessions, TLC

VARIABLE part

\* Two units for three, which one of them cannot be a third of.
Layers ==
  <<[branch |-> "b1", qty |-> 2, value |-> 3, date |-> 1, received |-> 3, spent |-> 0]>>

\* The parts share their model values, for TLC to have fewer symmetries to try.
Symmetric == Permutations(Order) \cup Permutations(Row) \cup Permutations(Caller)

Init ==
  /\ part \in {"bills", "transfers", "counts", "shared", "sessions"}
  /\ DepletionInit /\ StoreInit /\ SessionsInit
  /\ part = "sessions" => ~books.mayGoNegative

\* bound: one call at a time after a delivery, with a plain dish, which takes another's
\* place, and where stock may not go below nothing, which only refuses more; of two calls
\* one closes, splits or merges a bill.
PlainUsed == \E l \in Plain : line'[l].order # NoOrder
Closing == {"cancel", "split", "merge"}
BillsWithin ==
  /\ (\A c \in Caller : call'[c] # NoCall) => \E c \in Caller : call'[c].op \in Closing
  /\ books'.shelf["b2"] = books.shelf["b2"]
  /\ ~books.mayGoNegative => ~PlainUsed /\ delivered' = 0
  /\ PlainUsed => delivered' = 0 /\ Cardinality({l \in Line : line'[l].order = NoOrder}) >= 1
  /\ PlainUsed \/ delivered' > 0 \/ ~books.mayGoNegative =>
       Cardinality({c \in Caller : call'[c] # NoCall}) <= 1
\* bound: transfers start from the branch that has goods.
TransfersWithin ==
  /\ tally' = tally
  /\ \A t \in Transfer : transfer'[t].status # "NONE" => transfer'[t].from = "b1"
CountsWithin == transfer' = transfer /\ \A k \in Count : tally'[k].branch = "b1"
\* bound: one bill of two lines at most against one transfer, one call and one clerk.
SharedWithin ==
  /\ TransfersWithin /\ moves' = 0 /\ delivered' = 0 /\ ~PlainUsed
  /\ Cardinality({t \in Transfer : transfer'[t].status # "NONE"}) <= 1
  /\ Cardinality({c \in Clerk : clerk'[c] # Free}) <= 1
  /\ Cardinality({c \in Caller : call'[c] # NoCall}) <= 1
  /\ Cardinality({o \in Order : order'[o].status # "none"}) <= 1
  /\ Cardinality({l \in Line : line'[l].order # NoOrder}) <= 2

Next ==
  \/ /\ part = "bills" /\ UNCHANGED <<part, clerkVars, sessionVars>>
     /\ StockNext /\ BillsWithin
  \/ /\ part \in {"transfers", "counts"} /\ UNCHANGED <<part, billVars, sessionVars>>
     /\ StockNext
     /\ \/ part = "transfers" /\ TransfersWithin
        \/ part = "counts" /\ CountsWithin
  \/ /\ part = "shared" /\ UNCHANGED <<part, sessionVars>>
     /\ StockNext /\ SharedWithin
  \/ /\ part = "sessions" /\ UNCHANGED <<part, books, billVars, clerkVars>>
     /\ SessionsNext

vars == <<part, stockVars, sessionVars>>
Spec == Init /\ [][Next]_vars
==============================================================================
