------------------------------ MODULE Requests ------------------------------
(***************************************************************************)
(* What requests that overlap do to a row they share: each opens a unit of *)
(* work of its own (storage/transactions.py), reads the row, decides, and  *)
(* commits.  No version or lock of the row is compared, and the UPDATE at  *)
(* the end names only the columns whose values the request changed.        *)
(*                                                                         *)
(* A request that no other overlaps is one step, and its sender Alone.  Of *)
(* one that is overlapped, Read is the first half, and which request it is *)
(* shows in the second.  One that is refused, or whose process dies,       *)
(* writes nothing and is left out.                                         *)
(***************************************************************************)
EXTENDS Naturals

CONSTANTS
    Client,       \* the senders of requests that others overlap, of one each
    MaxMeanwhile  \* bound on the requests answered while another is open

Alone == "alone"

ASSUME RequestsAssumption == MaxMeanwhile \in Nat /\ Alone \notin Client

VARIABLES
    row,      \* the row, a record of its columns
    requests  \* of each client: what it has read, and how many may still be answered meanwhile

Unsent == [stage |-> "unsent", row |-> <<>>, beside |-> <<>>, left |-> 0]
Answered == [stage |-> "answered", row |-> <<>>, beside |-> <<>>, left |-> 0]

Open == {c \in Client : requests[c].stage = "open"}
Senders == {Alone} \cup Open

RequestsTypeOK == \A c \in Open : requests[c].left \in 0..MaxMeanwhile

\* beside is what the request reads of other tables.
Read(c, beside) ==
    /\ requests[c].stage = "unsent"
    /\ requests' = [requests EXCEPT ![c] = [stage |-> "open", row |-> row, beside |-> beside,
                                            left |-> MaxMeanwhile]]
    /\ UNCHANGED row

\* The row as the request sees it, and the rest, which is current if nothing overlaps.
View(c) == IF c = Alone THEN row ELSE requests[c].row
Beside(c, current) == IF c = Alone THEN current ELSE requests[c].beside

Merged(read, new, stamped) ==
    [f \in DOMAIN row |-> IF new[f] = read[f] /\ f \notin stamped THEN row[f] ELSE new[f]]

\* stamped are the columns that the request gives a new time in any case.
Write(c, new, stamped) ==
    /\ row' = IF c = Alone THEN new ELSE Merged(requests[c].row, new, stamped)
    /\ \A d \in Open \ {c} : requests[d].left > 0
    /\ requests' = [d \in Client |-> IF d = c THEN Answered
                                     ELSE IF d \in Open THEN [requests[d] EXCEPT !.left = @ - 1]
                                     ELSE requests[d]]
=============================================================================
