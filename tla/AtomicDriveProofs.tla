------------------------- MODULE AtomicDriveProofs -------------------------
(***************************************************************************)
(* What holds of the drive loop for every set of makers, every assignment  *)
(* of faults and every bound.                                              *)
(*                                                                         *)
(* None of the safety properties is inductive.  What the loop knows is     *)
(* spread over its control point, the view it took of the server before an *)
(* await, and flags it set in earlier iterations; IInv says what each of   *)
(* them is worth.                                                          *)
(***************************************************************************)
EXTENDS AtomicDrive, TLAPS

(* The stretches between requiredAction = fund and the end of /fund.        *)
FundStretch == {"dleq", "contract", "terms", "presigs", "snapshot", "fund"}

Acceptable(m) == m \in Makers /\ fault[m] \notin {"address", "terms"}

(* What the loop's control point says about the view it acts on.            *)
ViewInv ==
  /\ pc \in FundStretch => view.offer \in Makers
  /\ pc \in {"presigs", "snapshot", "fund"} => Acceptable(view.offer)
  /\ pc \in {"snapshot", "fund"} => fault[view.offer] # "no_encsig"
  /\ pc \in {"xmr", "digest", "release"} => view.params \in Makers

(* An encsig the server shows is one the loop may skip /presigs for.        *)
MirrorInv ==
  /\ broker # "none" => offer \in Makers
  /\ mirrored => offer \in Makers /\ fault[offer] # "no_encsig"
  /\ view.mirrored => view.offer \in Makers /\ fault[view.offer] # "no_encsig"

(* At most one lock, made of what was checked before it, and after the      *)
(* snapshot.                                                                *)
LockInv ==
  /\ broker \in {"pending", "armed"} => lock = NoMaker
  /\ SavesSnapshot /\ (pc = "fund" \/ lock # NoMaker) => snap # NoMaker
  /\ lock # NoMaker => Acceptable(lock) /\ fault[lock] # "no_encsig"
  /\ lastSigned # NoMaker => lastSigned = lock
  /\ status \notin {"awaiting_funding", "failed"} => lock # NoMaker

MoneroSafe ==
  /\ lock \in Makers /\ xmr = "confirmed"
  /\ fault[lock] \notin {"xmr", "s_a_missing"}

(* xmrLockVerified, set in one iteration and trusted in later ones, stays   *)
(* true, and the signature computed under it is for the lock on the chain.  *)
ReleaseInv ==
  /\ pc \in {"digest", "release"} => xmrOK
  /\ xmrOK => MoneroSafe
  /\ pc = "release" => LockTxKnown
  /\ released # NoMaker => released = lock /\ MoneroSafe

IInv == TypeOK /\ ViewInv /\ MirrorInv /\ LockInv /\ ReleaseInv

-----------------------------------------------------------------------------
(* getSwapDetail returns a SwapDetail.                                      *)
LEMMA DetailType == TypeOK => Detail \in SwapDetail
<1> SUFFICES ASSUME TypeOK PROVE Detail \in SwapDetail
  OBVIOUS
<1>1. (xmr # "none") \in BOOLEAN
  OBVIOUS
<1>2. /\ status \in Statuses /\ action \in RequiredActions
      /\ offer \in MakerOrNone /\ params \in MakerOrNone
      /\ mirrored \in BOOLEAN
  BY DEF TypeOK
<1> QED BY <1>1, <1>2, Zenon DEF Detail, SwapDetail

(* The strengthened invariant holds when the loop starts.                   *)
LEMMA InvInit == Init => IInv
<1> SUFFICES ASSUME Init PROVE IInv OBVIOUS
<1>1. TypeOK /\ view = Detail
  BY DriveAssumption DEF Init, TypeOK, Detail, SwapDetail, MakerOrNone,
     Statuses, RequiredActions, PRE_FUNDING_STATUSES, TERMINAL_STATUSES,
     Labels, Outcomes
<1> QED
  BY <1>1, DriveAssumption DEF Init, IInv, ViewInv, MirrorInv, LockInv,
     ReleaseInv, FundStretch, Detail

(* Every action of the loop, its caller and the server preserves it.        *)
LEMMA InvNext == IInv /\ [Next]_vars => IInv'
<1> USE DriveAssumption DEF IInv, TypeOK, ViewInv, MirrorInv, LockInv,
      ReleaseInv, MoneroSafe, Acceptable, FundStretch, Labels, Outcomes,
      OtherErrors, VerificationErrors, MakerOrNone, LockTxKnown, Move, Halt,
      envVars, loopVars, serverVars, chainVars, hostVars, gateVars,
      fundVars, countVars
<1> SUFFICES ASSUME IInv, Next PROVE IInv'
  BY DEF vars, SwapDetail
<1>1. CASE Poll
  <2>1. CASE UNCHANGED view BY <1>1, <2>1 DEF Poll
  <2>2. CASE view' = Detail
    <3>1. view' \in SwapDetail BY <2>2, DetailType
    <3>2. view'.offer = offer /\ view'.mirrored = mirrored BY <2>2 DEF Detail
    <3> QED BY <1>1, <2>2, <3>1, <3>2 DEF Poll
  <2> QED BY <1>1, <2>1, <2>2 DEF Poll
<1>2. CASE DispatchStop BY <1>2 DEF DispatchStop
<1>3. CASE DispatchIdle BY <1>3 DEF DispatchIdle
<1>4. CASE Sleep BY <1>4 DEF Sleep
<1>5. CASE FundWait
  <2>1. fundedAt' \in BOOLEAN BY <1>5, Zenon DEF FundWait
  <2> QED BY <1>5, <2>1 DEF FundWait, Dispatched, SwapDetail
<1>6. CASE FundEnter
  <2>1. fundedAt' \in BOOLEAN BY <1>6, Zenon DEF FundEnter
  <2>2. view.offer \in Makers BY <1>6 DEF FundEnter, SwapDetail
  <2>3. /\ pc' = "dleq"
        /\ UNCHANGED <<envVars, outcome, view, gateVars, lastFunded,
                       lastSigned, countVars>>
    BY <1>6 DEF FundEnter
  <2> QED BY <2>1, <2>2, <2>3
<1>7. CASE DleqPass BY <1>7 DEF DleqPass, DleqAbsent, LinkProved
<1>8. CASE DleqRefuse BY <1>8 DEF DleqRefuse, DleqAbsent
<1>9. CASE ContractPass
  <2>1. contractOK' \in BOOLEAN BY <1>9, Zenon DEF ContractPass
  <2> QED BY <1>9, <2>1 DEF ContractPass
<1>10. CASE ContractRefuse BY <1>10 DEF ContractRefuse
<1>11. CASE TermsPass BY <1>11 DEF TermsPass, AddressDerived, TermsAccepted
<1>12. CASE TermsRefuse
  BY <1>12 DEF TermsRefuse, AddressDerived, TermsAccepted
<1>13. CASE PresigsAccepted BY <1>13 DEF PresigsAccepted, EncsigMissing
<1>14. CASE PresigsAnswerLost BY <1>14 DEF PresigsAnswerLost, PresigsRejection
<1>15. CASE PresigsRejected BY <1>15 DEF PresigsRejected, PresigsRejection
<1>16. CASE PresigsFailed BY <1>16 DEF PresigsFailed
<1>17. CASE SnapshotKeep BY <1>17 DEF SnapshotKeep, SnapshotFound
<1>18. CASE SnapshotWrite BY <1>18 DEF SnapshotWrite
<1>19. CASE SnapshotFails BY <1>19 DEF SnapshotFails
<1>20. CASE FundAccepted BY <1>20 DEF FundAccepted, Broadcast, Armed
<1>21. CASE FundAnswerLost
  BY <1>21 DEF FundAnswerLost, Broadcast, Armed, FundRejection
<1>22. CASE FundNotArmed BY <1>22 DEF FundNotArmed, FundRejection
<1>23. CASE FundFailed BY <1>23 DEF FundFailed
<1>24. CASE EncsigEnter BY <1>24 DEF EncsigEnter, Dispatched, SwapDetail
<1>25. CASE XmrWait BY <1>25 DEF XmrWait
<1>26. CASE XmrRefuse BY <1>26 DEF XmrRefuse, MoneroLockGood
<1>27. CASE XmrVerified
  BY <1>27 DEF XmrVerified, LockVerified, MoneroLockGood, Confirmed
<1>28. CASE DigestPass BY <1>28 DEF DigestPass, LockTxKnown
<1>29. CASE DigestRefuse BY <1>29 DEF DigestRefuse, LockTxKnown
<1>30. CASE EncsigAccepted BY <1>30 DEF EncsigAccepted, BoundLock, LockTxKnown
<1>31. CASE EncsigFailed BY <1>31 DEF EncsigFailed, BoundLock, LockTxKnown
<1>32. CASE SweepEnter BY <1>32 DEF SweepEnter
<1>33. CASE SweepEnd BY <1>33 DEF SweepEnd
<1>34. CASE Abort BY <1>34 DEF Abort
<1>35. CASE DeadlinePasses BY <1>35 DEF DeadlinePasses
<1>36. CASE Resume
  <2>1. deposit' \in BOOLEAN BY <1>36, Zenon DEF Resume
  <2>2. /\ pc' = "poll" /\ outcome' = "none" /\ restarts' = restarts + 1
        /\ lastFunded' = NoMaker /\ lastSigned' = NoMaker
        /\ streak' = 0 /\ attempt' = 0 /\ encsigFails' = 0
        /\ UNCHANGED <<fault, serverVars, chainVars, snap, view>>
    BY <1>36 DEF Resume
  <2>3. /\ aborted' = FALSE /\ late' = FALSE /\ fundedAt' = FALSE
        /\ dleqOK' = FALSE /\ contractOK' = FALSE /\ xmrOK' = FALSE
    BY <1>36 DEF Resume
  <2>4. TypeOK'
    <3>1. /\ aborted' \in BOOLEAN /\ late' \in BOOLEAN
          /\ fundedAt' \in BOOLEAN /\ dleqOK' \in BOOLEAN
          /\ contractOK' \in BOOLEAN /\ xmrOK' \in BOOLEAN
      BY <2>3
    <3>2. /\ restarts' \in Nat /\ streak' \in Nat
          /\ attempt' \in Nat /\ encsigFails' \in Nat
      BY <2>2
    <3>3. pc' \in Labels /\ outcome' \in Outcomes BY <2>2
    <3>4. lastFunded' \in MakerOrNone /\ lastSigned' \in MakerOrNone BY <2>2
    <3> QED BY <2>1, <2>2, <3>1, <3>2, <3>3, <3>4
  <2>5. ViewInv' /\ MirrorInv' BY <2>2
  <2>6. LockInv' BY <2>2
  <2>7. ReleaseInv' BY <2>2, <2>3
  <2> QED BY <2>4, <2>5, <2>6, <2>7
<1>37. CASE \E m \in Makers : Negotiate(m)
  <2>1. PICK m \in Makers : Negotiate(m) BY <1>37
  <2>2. TypeOK'
    <3>1. switches' \in Nat BY <2>1 DEF Negotiate
    <3>2. params' \in MakerOrNone BY <2>1 DEF Negotiate
    <3>3. /\ broker' \in {"none", "pending", "armed", "spent"}
          /\ mirrored' \in BOOLEAN
      BY <2>1 DEF Negotiate
    <3>4. offer' \in MakerOrNone /\ action' \in RequiredActions
      BY <2>1 DEF Negotiate, RequiredActions
    <3>5. UNCHANGED <<fault, status, chainVars, hostVars, loopVars>>
      BY <2>1 DEF Negotiate
    <3> QED BY <3>1, <3>2, <3>3, <3>4, <3>5
  <2>3. ViewInv' BY <2>1 DEF Negotiate
  <2>4. MirrorInv' BY <2>1 DEF Negotiate
  <2>5. LockInv' BY <2>1 DEF Negotiate
  <2>6. ReleaseInv' BY <2>1 DEF Negotiate
  <2> QED BY <2>2, <2>3, <2>4, <2>5, <2>6
<1>38. CASE PublishParams BY <1>38 DEF PublishParams
<1>39. CASE MirrorEncsig BY <1>39 DEF MirrorEncsig
<1>40. CASE SidecarRestart BY <1>40 DEF SidecarRestart
<1>41. CASE GiveUp
  BY <1>41 DEF GiveUp, ServerMoves, RequiredActions, Statuses,
     PRE_FUNDING_STATUSES, TERMINAL_STATUSES
<1>42. CASE NoticeLock
  BY <1>42 DEF NoticeLock, ServerMoves, RequiredActions, Statuses,
     PRE_FUNDING_STATUSES, TERMINAL_STATUSES
<1>43. CASE AskEncsig
  BY <1>43 DEF AskEncsig, ServerMoves, RequiredActions, Statuses,
     PRE_FUNDING_STATUSES, TERMINAL_STATUSES
<1>44. CASE TakeEncsig
  BY <1>44 DEF TakeEncsig, ServerMoves, RequiredActions, Statuses,
     PRE_FUNDING_STATUSES, TERMINAL_STATUSES
<1>45. CASE Redeem
  BY <1>45 DEF Redeem, ServerMoves, RequiredActions, Statuses,
     PRE_FUNDING_STATUSES, TERMINAL_STATUSES
<1>46. CASE CancelTimelock
  BY <1>46 DEF CancelTimelock, ServerMoves, RequiredActions, Statuses,
     PRE_FUNDING_STATUSES, TERMINAL_STATUSES
<1>47. CASE CancelConfirmed
  BY <1>47 DEF CancelConfirmed, ServerMoves, RequiredActions, Statuses,
     PRE_FUNDING_STATUSES, TERMINAL_STATUSES
<1>48. CASE Punish
  BY <1>48 DEF Punish, ServerMoves, RequiredActions, Statuses,
     PRE_FUNDING_STATUSES, TERMINAL_STATUSES
<1>49. CASE CooperativeRedeem
  BY <1>49 DEF CooperativeRedeem, ServerMoves, RequiredActions, Statuses,
     PRE_FUNDING_STATUSES, TERMINAL_STATUSES
<1>50. CASE Settle
  BY <1>50 DEF Settle, ServerMoves, RequiredActions, Statuses,
     PRE_FUNDING_STATUSES, TERMINAL_STATUSES
<1>51. CASE LockXmr BY <1>51 DEF LockXmr, XmrMoves
<1>52. CASE ConfirmXmr BY <1>52 DEF ConfirmXmr, XmrMoves
<1> QED
  BY <1>1, <1>2, <1>3, <1>4, <1>5, <1>6, <1>7, <1>8, <1>9, <1>10, <1>11,
     <1>12, <1>13, <1>14, <1>15, <1>16, <1>17, <1>18, <1>19, <1>20, <1>21,
     <1>22, <1>23, <1>24, <1>25, <1>26, <1>27, <1>28, <1>29, <1>30, <1>31,
     <1>32, <1>33, <1>34, <1>35, <1>36, <1>37, <1>38, <1>39, <1>40, <1>41,
     <1>42, <1>43, <1>44, <1>45, <1>46, <1>47, <1>48, <1>49, <1>50, <1>51,
     <1>52 DEF Next, Loop, Caller, Server

(* IInv is an invariant of the specification.                               *)
LEMMA InvAlways == Spec => []IInv
<1>1. Init => IInv BY InvInit
<1>2. IInv /\ [Next]_vars => IInv' BY InvNext
<1> QED BY <1>1, <1>2, PTL DEF Spec

-----------------------------------------------------------------------------
(* Every variable of the loop and its surroundings keeps its type.          *)
THEOREM TypeCorrect == Spec => []TypeOK
<1>1. IInv => TypeOK BY DEF IInv
<1> QED BY <1>1, InvAlways, PTL

(* maybeWriteSnapshot always comes before the broadcast: there is no lock    *)
(* without a stored snapshot, over any number of restarts and makers.       *)
THEOREM Recoverable == Spec => []LockIsRecoverable
<1>1. IInv => LockIsRecoverable BY DEF IInv, LockInv, LockIsRecoverable
<1> QED BY <1>1, InvAlways, PTL

(* AV-B.1, the fee and timelock checks and the refund-encsig check hold for  *)
(* whatever lock ends up on the chain, although they were made on a view    *)
(* that is older than the broadcast.                                        *)
THEOREM TermsBeforeLock == Spec => []LockedTermsAccepted
<1>1. IInv => LockedTermsAccepted
  BY DEF IInv, LockInv, LockedTermsAccepted, Acceptable
<1> QED BY <1>1, InvAlways, PTL

(* The redeem signature is released only for the lock on the chain and only *)
(* against a good, confirmed Monero lock, also by a resumed loop.           *)
THEOREM KeyAgainstMonero == Spec => []KeyReleasedAgainstMonero
<1>1. IInv => KeyReleasedAgainstMonero
  BY DEF IInv, ReleaseInv, MoneroSafe, KeyReleasedAgainstMonero
<1> QED BY <1>1, InvAlways, PTL

-----------------------------------------------------------------------------
(* Only these actions change the chains or the stored snapshot.             *)
LEMMA FundsFrame ==
  ASSUME [Next]_vars
  PROVE  \/ UNCHANGED <<chainVars, snap>>
         \/ SnapshotWrite \/ FundAccepted \/ FundAnswerLost
         \/ EncsigAccepted \/ EncsigFailed \/ LockXmr \/ ConfirmXmr
<1> USE DEF envVars, serverVars, chainVars, hostVars
<1>1. CASE UNCHANGED vars BY <1>1 DEF vars
<1>2. CASE Loop
  BY <1>2 DEF Loop, Poll, DispatchStop, DispatchIdle, Sleep, FundWait,
     FundEnter, DleqPass, DleqRefuse, ContractPass, ContractRefuse, TermsPass,
     TermsRefuse, PresigsAccepted, PresigsAnswerLost, PresigsRejected,
     PresigsFailed, SnapshotKeep, SnapshotFails, FundNotArmed, FundFailed,
     EncsigEnter, XmrWait, XmrRefuse, XmrVerified, DigestPass, DigestRefuse,
     SweepEnter, SweepEnd
<1>3. CASE Caller BY <1>3 DEF Caller, Abort, DeadlinePasses, Resume
<1>4. CASE Server
  BY <1>4 DEF Server, Negotiate, ServerMoves, PublishParams, MirrorEncsig,
     SidecarRestart, GiveUp, NoticeLock, AskEncsig, TakeEncsig, Redeem,
     CancelTimelock, CancelConfirmed, Punish, CooperativeRedeem, Settle
<1> QED BY <1>1, <1>2, <1>3, <1>4 DEF Next

(* The loop starts where the promise starts.                                *)
LEMMA PromiseInit == Init => Promise!Init
  BY DEF Init, Promise!Init, BtcState, Confirmed

(* A step of the system is a step of the promise, or none.                  *)
LEMMA PromiseNext == IInv /\ [Next]_vars => [Promise!Next]_(Promise!vars)
<1> SUFFICES ASSUME IInv, [Next]_vars PROVE [Promise!Next]_(Promise!vars)
  OBVIOUS
<1> USE DEF Promise!vars, chainVars
<1>1. CASE UNCHANGED <<chainVars, snap>> BY <1>1 DEF BtcState, Confirmed
<1>2. CASE SnapshotWrite
  <2>1. snap' # NoMaker /\ UNCHANGED <<BtcState, Confirmed>>
    BY <1>2, DriveAssumption DEF SnapshotWrite, IInv, ViewInv, FundStretch,
       BtcState, Confirmed
  <2>2. Promise!StoreRecovery BY <2>1 DEF Promise!StoreRecovery
  <2> QED BY <2>2 DEF Promise!Next
<1>3. CASE FundAccepted \/ FundAnswerLost
  <2>1. Broadcast BY <1>3 DEF FundAccepted, FundAnswerLost
  <2>2. /\ lock = NoMaker /\ lock' # NoMaker
        /\ released = NoMaker /\ released' = NoMaker
    BY <2>1, DriveAssumption DEF Broadcast, Armed, IInv, ViewInv, LockInv,
       ReleaseInv, MoneroSafe, FundStretch
  <2>3. SavesSnapshot => snap # NoMaker BY <2>1 DEF Broadcast, IInv, LockInv
  <2>4. UNCHANGED <<snap, Confirmed>>
    BY <2>1 DEF Broadcast, hostVars, Confirmed
  <2>5. BtcState = "free" /\ BtcState' = "locked" BY <2>2 DEF BtcState
  <2>6. Promise!LockBitcoin BY <2>3, <2>4, <2>5 DEF Promise!LockBitcoin
  <2> QED BY <2>6 DEF Promise!Next
<1>4. CASE EncsigAccepted \/ EncsigFailed
  <2>1. /\ pc = "release" /\ released' \in {released, BoundLock}
        /\ UNCHANGED <<snap, lock, xmr>>
    BY <1>4 DEF EncsigAccepted, EncsigFailed, hostVars
  <2>2. BoundLock = lock /\ lock # NoMaker /\ Confirmed
    BY <2>1, DriveAssumption DEF IInv, LockInv, ReleaseInv, MoneroSafe,
       BoundLock, Confirmed
  <2>3. CASE released' = released BY <2>1, <2>3 DEF BtcState, Confirmed
  <2>4. CASE released' # released
    <3>1. released = NoMaker /\ released' = lock
      BY <2>1, <2>2, <2>4 DEF IInv, ReleaseInv
    <3>2. BtcState = "locked" /\ BtcState' = "redeemable"
      BY <2>1, <2>2, <3>1 DEF BtcState
    <3>3. UNCHANGED Confirmed BY <2>1 DEF Confirmed
    <3>4. Promise!ReleaseSignature
      BY <2>1, <2>2, <3>2, <3>3 DEF Promise!ReleaseSignature
    <3> QED BY <3>4 DEF Promise!Next
  <2> QED BY <2>3, <2>4
<1>5. CASE LockXmr \/ ConfirmXmr
  <2>1. /\ status = "swapping" /\ xmr # "confirmed"
        /\ UNCHANGED <<snap, lock, released>>
    BY <1>5 DEF LockXmr, ConfirmXmr, XmrMoves, hostVars
  <2>2. BtcState = "locked" /\ BtcState' = "locked"
    BY <2>1 DEF IInv, LockInv, ReleaseInv, MoneroSafe, BtcState
  <2>3. CASE LockXmr BY <2>1, <2>2, <2>3 DEF LockXmr, XmrMoves, Confirmed
  <2>4. CASE ConfirmXmr
    <3>1. Confirmed' BY <2>4 DEF ConfirmXmr, XmrMoves, Confirmed
    <3>2. Promise!ConfirmMonero BY <2>1, <2>2, <3>1 DEF Promise!ConfirmMonero
    <3> QED BY <3>2 DEF Promise!Next
  <2> QED BY <1>5, <2>3, <2>4
<1> QED BY <1>1, <1>2, <1>3, <1>4, <1>5, FundsFrame

(* The drive loop with its server, sidecar, chains and host implements the  *)
(* promise about the funds.                                                 *)
THEOREM Refinement == Spec => KeepsPromise
<1>1. Init => Promise!Init BY PromiseInit
<1>2. IInv /\ [Next]_vars => [Promise!Next]_(Promise!vars) BY PromiseNext
<1> QED BY <1>1, <1>2, InvAlways, PTL DEF Spec, KeepsPromise, Promise!Spec

-----------------------------------------------------------------------------
(* The first maker of a swap: until the server moves to another one, the    *)
(* checks that are made once (DLEQ) or kept from before (the snapshot) are  *)
(* about the maker that is funded; with a second maker they need not be.    *)

Linked(m) == fault[m] \notin {"dleq_absent", "dleq_invalid", "s_a_missing"}

Proved == dleqOK /\ offer \in Makers /\ Linked(offer)

OneMaker ==
  /\ {params, view.offer, view.params, lock, snap} \subseteq {NoMaker, offer}
  /\ dleqOK => Proved
  /\ pc \in FundStretch \ {"dleq"} => dleqOK
  /\ lock # NoMaker => Linked(lock)

OneMakerInv == switches = 0 => OneMaker

(* Nothing is known of any maker at the start.                              *)
LEMMA OneMakerInit == Init => OneMakerInv
  BY DEF Init, OneMakerInv, OneMaker, Detail, FundStretch

(* With a single negotiation, every step keeps everything about its maker.  *)
LEMMA OneMakerNext ==
  ASSUME IInv, OneMaker, switches' = 0, switches = 0, [Next]_vars
  PROVE  OneMaker'
<1> USE DriveAssumption DEF OneMaker, Proved, Linked, FundStretch, Move,
      Halt, envVars, loopVars, serverVars, chainVars, hostVars, gateVars,
      fundVars, countVars
<1>1. CASE UNCHANGED vars BY <1>1 DEF vars
<1>2. CASE \E m \in Makers : Negotiate(m)
  <2>1. PICK m \in Makers : Negotiate(m) BY <1>2
  <2>2. offer = NoMaker BY <2>1 DEF Negotiate, IInv, TypeOK
  <2> QED BY <2>1, <2>2 DEF Negotiate
<1>3. CASE Poll BY <1>3 DEF Poll, Detail, SwapDetail
<1>4. CASE DleqPass
  BY <1>4 DEF DleqPass, DleqAbsent, LinkProved, Linked, IInv, ViewInv, TypeOK,
     SwapDetail
<1>5. CASE SnapshotWrite
  BY <1>5 DEF SnapshotWrite, IInv, ViewInv, TypeOK, SwapDetail
<1>6. CASE FundAccepted
  BY <1>6 DEF FundAccepted, Broadcast, Armed, IInv, ViewInv, TypeOK,
     SwapDetail
<1>7. CASE FundAnswerLost
  BY <1>7 DEF FundAnswerLost, Broadcast, Armed, IInv, ViewInv, TypeOK,
     SwapDetail
<1>8. CASE \/ DispatchStop \/ DispatchIdle \/ Sleep \/ FundWait \/ FundEnter
           \/ DleqRefuse \/ ContractPass \/ ContractRefuse \/ TermsPass
           \/ TermsRefuse \/ PresigsAccepted \/ PresigsAnswerLost
           \/ PresigsRejected \/ PresigsFailed \/ SnapshotKeep
           \/ SnapshotFails \/ FundNotArmed \/ FundFailed \/ EncsigEnter
           \/ XmrWait \/ XmrRefuse \/ XmrVerified \/ DigestPass
           \/ DigestRefuse \/ EncsigAccepted \/ EncsigFailed \/ SweepEnter
           \/ SweepEnd
  <2>1. UNCHANGED <<fault, offer, params, lock, snap, view, dleqOK>>
    BY <1>8 DEF DispatchStop, DispatchIdle, Sleep, FundWait, FundEnter,
       DleqRefuse, ContractPass, ContractRefuse, TermsPass, TermsRefuse,
       PresigsAccepted, PresigsAnswerLost, PresigsRejected, PresigsFailed,
       SnapshotKeep, SnapshotFails, FundNotArmed, FundFailed, EncsigEnter,
       XmrWait, XmrRefuse, XmrVerified, DigestPass, DigestRefuse,
       EncsigAccepted, EncsigFailed, SweepEnter, SweepEnd
  <2>2. pc' \in FundStretch \ {"dleq"} => pc \in FundStretch \ {"dleq"}
    BY <1>8 DEF DispatchStop, DispatchIdle, Sleep, FundWait, FundEnter,
       DleqRefuse, ContractPass, ContractRefuse, TermsPass, TermsRefuse,
       PresigsAccepted, PresigsAnswerLost, PresigsRejected, PresigsFailed,
       SnapshotKeep, SnapshotFails, FundNotArmed, FundFailed, EncsigEnter,
       XmrWait, XmrRefuse, XmrVerified, DigestPass, DigestRefuse,
       EncsigAccepted, EncsigFailed, SweepEnter, SweepEnd, PresigsRejection,
       FundRejection
  <2> QED BY <2>1, <2>2
<1>9. CASE Caller BY <1>9 DEF Caller, Abort, DeadlinePasses, Resume
<1>10. CASE \/ PublishParams \/ MirrorEncsig \/ SidecarRestart \/ GiveUp
            \/ NoticeLock \/ AskEncsig \/ TakeEncsig \/ Redeem
            \/ CancelTimelock \/ CancelConfirmed \/ Punish
            \/ CooperativeRedeem \/ Settle \/ LockXmr \/ ConfirmXmr
  BY <1>10 DEF ServerMoves, XmrMoves, PublishParams, MirrorEncsig,
     SidecarRestart, GiveUp, NoticeLock, AskEncsig, TakeEncsig, Redeem,
     CancelTimelock, CancelConfirmed, Punish, CooperativeRedeem, Settle,
     LockXmr, ConfirmXmr
<1> QED
  BY <1>1, <1>2, <1>3, <1>4, <1>5, <1>6, <1>7, <1>8, <1>9, <1>10 DEF Next,
     Loop, Server

(* The number of switches never goes down.                                  *)
LEMMA SwitchesGrow ==
  ASSUME IInv, [Next]_vars, switches' = 0
  PROVE  switches = 0
<1> USE DEF envVars, loopVars, serverVars, chainVars, hostVars, gateVars,
      fundVars, countVars
<1>1. CASE \E m \in Makers : Negotiate(m)
  BY <1>1 DEF Negotiate, IInv, TypeOK
<1>2. CASE UNCHANGED switches BY <1>2
<1>3. CASE Loop
  BY <1>3, <1>2 DEF Loop, Poll, DispatchStop, DispatchIdle, Sleep, FundWait,
     FundEnter, DleqPass, DleqRefuse, ContractPass, ContractRefuse, TermsPass,
     TermsRefuse, PresigsAccepted, PresigsAnswerLost, PresigsRejected,
     PresigsFailed, SnapshotKeep, SnapshotWrite, SnapshotFails, FundAccepted,
     FundAnswerLost, FundNotArmed, FundFailed, Broadcast, EncsigEnter, XmrWait,
     XmrRefuse, XmrVerified, DigestPass, DigestRefuse, EncsigAccepted,
     EncsigFailed, SweepEnter, SweepEnd
<1>4. CASE Caller BY <1>4 DEF Caller, Abort, DeadlinePasses, Resume
<1>5. CASE \/ PublishParams \/ MirrorEncsig \/ SidecarRestart \/ GiveUp
           \/ NoticeLock \/ AskEncsig \/ TakeEncsig \/ Redeem
           \/ CancelTimelock \/ CancelConfirmed \/ Punish
           \/ CooperativeRedeem \/ Settle \/ LockXmr \/ ConfirmXmr
  BY <1>5 DEF ServerMoves, XmrMoves, PublishParams, MirrorEncsig,
     SidecarRestart, GiveUp, NoticeLock, AskEncsig, TakeEncsig, Redeem,
     CancelTimelock, CancelConfirmed, Punish, CooperativeRedeem, Settle,
     LockXmr, ConfirmXmr
<1> QED BY <1>1, <1>2, <1>3, <1>4, <1>5 DEF Next, Server, vars

(* OneMakerInv is an invariant.                                             *)
LEMMA OneMakerAlways == Spec => []OneMakerInv
<1>1. Init => OneMakerInv BY OneMakerInit
<1>2. ASSUME IInv, OneMakerInv, [Next]_vars PROVE OneMakerInv'
  BY <1>2, SwitchesGrow, OneMakerNext DEF OneMakerInv
<1>3. IInv /\ OneMakerInv /\ [Next]_vars => OneMakerInv' BY <1>2
<1> QED BY <1>1, <1>3, InvAlways, PTL DEF Spec

(* Gate V-2, asked once per loop, covers the maker that is locked to, as    *)
(* long as the swap keeps its first maker.                                  *)
THEOREM LinkedBeforeLock == Spec => []FirstMakerLinked
<1>1. OneMakerInv => FirstMakerLinked
  BY DEF OneMakerInv, OneMaker, Linked, FirstMakerLinked
<1> QED BY <1>1, OneMakerAlways, PTL

(* The snapshot found in the store describes the lock, as long as the swap  *)
(* keeps its first maker.                                                   *)
THEOREM SnapshotOfFirstMaker == Spec => []FirstMakerSnapshot
<1>1. IInv /\ OneMakerInv => FirstMakerSnapshot
  BY DEF IInv, LockInv, OneMakerInv, OneMaker, SnapshotDescribesLock,
     FirstMakerSnapshot
<1> QED BY <1>1, InvAlways, OneMakerAlways, PTL

=============================================================================
