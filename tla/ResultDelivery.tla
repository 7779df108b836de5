--------------------------- MODULE ResultDelivery ---------------------------
(***************************************************************************)
(* What the brgen driver promises the consumer of GeneratorHandler.Recv(): *)
(* results are handed over at most once, each after it was made, until the *)
(* channel is closed.  The closed channel may still hold a result.  If the *)
(* driver was not aborted by a signal, closing loses at most one of the    *)
(* results that generators made (errors of loadAst may be lost).           *)
(***************************************************************************)
EXTENDS Naturals, FiniteSets

CONSTANTS
    Results,
    Generated   \* a subset of Results: the ones generators make

VARIABLES
    made,       \* results made so far
    got,        \* results the consumer has
    buffered,   \* after closing: what the channel still holds
    open, aborted

dvars == <<made, got, buffered, open, aborted>>

Init ==
    /\ made = {} /\ got = {} /\ buffered = {}
    /\ open = TRUE /\ aborted = FALSE

Make(r) ==
    /\ r \notin made
    /\ made' = made \cup {r}
    /\ UNCHANGED <<got, buffered, open, aborted>>

Deliver(r) ==
    /\ r \in IF open THEN made \ got ELSE buffered
    /\ got' = got \cup {r}
    /\ buffered' = buffered \ {r}
    /\ UNCHANGED <<made, open, aborted>>

Abort ==
    /\ open /\ ~aborted
    /\ aborted' = TRUE
    /\ UNCHANGED <<made, got, buffered, open>>

Close ==
    /\ open /\ open' = FALSE
    /\ buffered' \subseteq made \ got /\ Cardinality(buffered') <= 1
    /\ \/ aborted
       \/ Cardinality((made \ (got \cup buffered')) \cap Generated) <= 1
    /\ UNCHANGED <<made, got, aborted>>

Next == (\E r \in Results : Make(r) \/ Deliver(r)) \/ Abort \/ Close

Spec == Init /\ [][Next]_dvars
=============================================================================
