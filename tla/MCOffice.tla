------------------------------ MODULE MCOffice -------------------------------
(***************************************************************************)
(* The back office on small instances: the drawers of two tills, a purchase *)
(* order, a payment that leaves the business, or the shifts of two people.  *)
(* They share no rows, so a behaviour is one part and the others stand      *)
(* still; what cash payments do to a drawer is the drawer's own part.       *)
(***************************************************************************)
EXTENDS Drawer, Purchasing, Outgoing, Shifts, TLC

CONSTANTS m, giver
VARIABLE part
officeVars == <<part, vars, purchaseVars, outgoingVars, shiftVars>>

\* Drawers are opened, counted and signed off, two and three; used while they are counted;
\* handed on while topped up, and taken on or withdrawn; two of them to the same people;
\* pay two requests; pay one and are counted.
EachDuty ==
  {[ops |-> {"open", "close", "force", "review"}, opened |-> 2, raised |-> 0],
   [ops |-> {"open", "force", "review"}, opened |-> 3, raised |-> 0],
   [ops |-> {"open", "capture", "move", "topup", "refund", "close", "force"},
    opened |-> 1, raised |-> 0],
   [ops |-> {"open", "topup", "hand", "accept"}, opened |-> 1, raised |-> 0],
   [ops |-> {"open", "topup", "hand", "reclaim"}, opened |-> 1, raised |-> 0],
   [ops |-> {"open", "hand", "accept", "reclaim"}, opened |-> 2, raised |-> 0],
   [ops |-> {"open", "petty"}, opened |-> 1, raised |-> 2],
   [ops |-> {"open", "petty", "close"}, opened |-> 1, raised |-> 1]}

\* One unit is accepted of either delivery, and one refused of the first.
Loads == [d \in Delivery |-> [accepted |-> 1, rejected |-> IF d = "d1" THEN 1 ELSE 0]]

\* m is on the rota of both sites, of the north one twice.
Turns == [d \in Duty |-> [by |-> m, site |-> IF d = 3 THEN "south" ELSE "north"]]

Symmetry == Permutations(Call) \cup Permutations(Register)

\* bound: rows are taken in the order of their ids; they are alike, so nothing is lost.
Prefix(Used) == \A i \in Used : i = 1 \/ i - 1 \in Used
DrawersInOrder ==
  /\ Prefix({s \in Session : session'[s].status # "NEW"})
  /\ Prefix({h \in Handover : handover'[h].status # "NEW"})
  /\ Prefix({e \in Expense : expense'[e].status # "NEW"})
PurchasingInOrder ==
  /\ Prefix({i \in Item : item'[i].state # "unused"})
  /\ Prefix({a \in Approval : approval'[a].status # "NONE"})
PaymentsInOrder == Prefix({p \in Payment : payment'[p].status # "NONE"})
ShiftsInOrder ==
  /\ Prefix({s \in Shift : shift'[s].status # "NONE"})
  /\ Prefix({p \in Pass : pass'[p].cash # "NONE" \/ pass'[p].status # "NONE"})

OfficeInit ==
  /\ part \in {"drawers", "desk", "goods", "alone", "payments",
              "rota", "takeover", "tills"}
  /\ Init /\ PurchasingInit /\ OutgoingInit /\ ShiftsInit
  \* bound: the parts that have no drawer have one roster
  /\ part # "drawers" => "petty" \in roster.ops /\ roster.raised = 1

\* bound: where two requests are paid from a tin, m raises none of them.
DrawersWithin == roster.raised > 1 => \A e \in Expense : expense'[e].by # m
\* bound: an order of one unit that u raised, moved and decided by two calls and
\* never placed; what is refused is refused at the desk.
DeskWithin ==
  /\ receipt' = receipt /\ purchase'.createdBy # m
  /\ \A i \in Item : item'[i].quantity <= 1
  /\ Cardinality({i \in Item : item'[i].state # "unused"}) = 1
  /\ \A e \in Errand :
       /\ errand'[e].op \notin {"receive", "edit"}
       /\ errand'[e].op = "set" => errand'[e].to \notin {"ORDERED", "REJECTED", "RETURNED"}
\* bound: an order edited, placed, delivered and closed by two calls, past the desk.
GoodsWithin ==
  /\ approval' = approval
  /\ \A e \in Errand : errand'[e].op = "set" =>
       errand'[e].to \in {"APPROVED", "ORDERED", "CLOSED", "CANCELLED"}
\* bound: everything, one call at a time, with an order of one line.
AloneWithin ==
  /\ Cardinality({e \in Errand : errand'[e] # NoErrand}) <= 1
  /\ Cardinality(Live') <= 1
\* bound: one payment is raised; the others undo it, and one another, by m.
PaymentsWithin ==
  /\ Cardinality({p \in Payment : /\ payment'[p].status # "NONE"
                                  /\ payment'[p].reversalOf = NoPayment}) <= 1
  /\ \A p \in Payment : payment'[p].reversalOf # NoPayment => payment'[p].createdBy = m

Asked == {c \in Visit : visit'[c].op \in {"signin", "create", "count", "record"}}
\* bound: m works the entries of the rota and signs in at the north site, three sessions
\* in all, and nothing is handed over.
RotaWithin ==
  /\ pass' = pass /\ \A c \in Asked : visit'[c].site = "north"
  /\ \A c \in Asked : visit'[c].op \in {"signin", "create"} /\ visit'[c].by = m
\* bound: giver, who signs in once, hands that shift to m, who has an entry there, at the north site.
TakeoverWithin ==
  /\ duty'[2] = "PLANNED" /\ duty'[3] = "PLANNED"
  /\ \A c \in Visit : visit'[c].op = "start" => visit'[c].duty = 1
  /\ shift'[3].status = "NONE" /\ shift'[2].by # giver /\ pass'[2] = pass[2]
  /\ \A c \in Visit : visit'[c].op = "close" => visit'[c].then \in {"end", "link"}
  /\ \A c \in Asked : visit'[c].site = "north"
  /\ \A c \in Asked : visit'[c].op \in {"signin", "create"} => visit'[c].by = giver
  /\ \A c \in Asked : visit'[c].op \in {"count", "record"} =>
       visit'[c].from = giver /\ visit'[c].pass = 1
\* bound: two handovers, with no session behind them.
TillsWithin ==
  /\ shift' = shift /\ duty' = duty
  /\ \A c \in Visit : visit'[c].op \notin {"signin", "create", "start"}
  /\ \A c \in Asked : visit'[c].site = "north"

OfficeNext ==
  /\ UNCHANGED part
  /\ \/ /\ part = "drawers" /\ UNCHANGED <<purchaseVars, outgoingVars, shiftVars>>
        /\ Next /\ DrawersWithin /\ DrawersInOrder
     \/ /\ part \in {"desk", "goods", "alone"}
        /\ UNCHANGED <<vars, outgoingVars, shiftVars>>
        /\ PurchasingNext /\ PurchasingInOrder
        /\ \/ part = "desk" /\ DeskWithin
           \/ part = "goods" /\ GoodsWithin
           \/ part = "alone" /\ AloneWithin
     \/ /\ part = "payments" /\ UNCHANGED <<vars, purchaseVars, shiftVars>>
        /\ OutgoingNext /\ PaymentsWithin /\ PaymentsInOrder
     \/ /\ part \in {"rota", "takeover", "tills"}
        /\ UNCHANGED <<vars, purchaseVars, outgoingVars>>
        /\ ShiftsNext /\ ShiftsInOrder
        /\ \/ part = "rota" /\ RotaWithin
           \/ part = "takeover" /\ TakeoverWithin
           \/ part = "tills" /\ TillsWithin

OfficeSpec == OfficeInit /\ [][OfficeNext]_officeVars
==============================================================================
