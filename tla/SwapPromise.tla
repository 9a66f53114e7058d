---------------------------- MODULE SwapPromise ----------------------------
(***************************************************************************)
(* What the client promises about the funds of an atomic swap, whatever    *)
(* the server, the maker and the network do: the recovery material is      *)
(* stored before Bitcoin is locked, and the maker can redeem the Bitcoin   *)
(* only after its Monero is safely locked.                                 *)
(***************************************************************************)
CONSTANT NeedsRecovery    \* the host keeps recovery snapshots

VARIABLES
  btc,        \* "free", "locked" in the 2-of-2, or "redeemable" by the maker
  recovery,   \* recovery material is stored
  monero      \* the maker's Monero lock is confirmed

vars == <<btc, recovery, monero>>

Init == btc = "free" /\ recovery = FALSE /\ monero = FALSE

StoreRecovery ==
  /\ recovery' = TRUE
  /\ UNCHANGED <<btc, monero>>

LockBitcoin ==
  /\ btc = "free"
  /\ NeedsRecovery => recovery
  /\ btc' = "locked"
  /\ UNCHANGED <<recovery, monero>>

ConfirmMonero ==
  /\ btc = "locked"
  /\ monero' = TRUE
  /\ UNCHANGED <<btc, recovery>>

ReleaseSignature ==
  /\ btc = "locked" /\ monero
  /\ btc' = "redeemable"
  /\ UNCHANGED <<recovery, monero>>

Next == StoreRecovery \/ LockBitcoin \/ ConfirmMonero \/ ReleaseSignature

Spec == Init /\ [][Next]_vars
=============================================================================
