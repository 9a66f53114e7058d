--------------------------- MODULE RefundPromise ---------------------------
(***************************************************************************)
(* What the way back promises about a Bitcoin lock, whatever the server,   *)
(* the maker and the Bitcoin servers do: it is spent once, it comes back   *)
(* only through a confirmed TxCancel, and the host is told that it came    *)
(* back only when it did.                                                  *)
(***************************************************************************)
VARIABLES
  btc,    \* "none", "locked", "redeemed", "cancelled", "refunded", "punished"
  told    \* the host has been told of the refund

vars == <<btc, told>>

Init == btc \in {"none", "locked"} /\ told = FALSE

Moves(from, to) == btc = from /\ btc' = to /\ UNCHANGED told

Lock   == Moves("none", "locked")
Redeem == Moves("locked", "redeemed")
Cancel == Moves("locked", "cancelled")
Punish == Moves("cancelled", "punished")

(* The answer to the broadcast tells of it, unless it is lost.              *)
Refund == btc = "cancelled" /\ btc' = "refunded" /\ told' \in BOOLEAN

(* Told later, or forgotten by a new flow object.                           *)
Tell == btc = "refunded" /\ told' \in BOOLEAN /\ UNCHANGED btc

Next == Lock \/ Redeem \/ Cancel \/ Punish \/ Refund \/ Tell

Spec == Init /\ [][Next]_vars
=============================================================================
