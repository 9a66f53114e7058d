---------------------------- MODULE AtomicDrive ----------------------------
(***************************************************************************)
(* The drive loop of a BTC -> XMR atomic swap (driveSwapToCompletion in    *)
(* src/atomic-swap/drive.ts), together with the parts of its surroundings  *)
(* it talks to: the swap server and its sidecar, the two chains, and the   *)
(* host's store for the recovery snapshot.                                 *)
(*                                                                         *)
(* The loop polls the server, looks at the action the server requires and  *)
(* performs it: fund the 2-of-2 lock, release the encrypted signature that *)
(* lets the maker redeem, sweep the Monero.  Every await of the loop is a  *)
(* place where the server, the chains and the user move, so each stretch   *)
(* between two awaits is one action here and pc names the stretch.  What   *)
(* was read from the server before an await (view) is used after it.       *)
(*                                                                         *)
(* A maker stands for everything one negotiation fixes: its keys, the lock *)
(* address, its refund encsigs, its Monero lock.  fault[m] is what is      *)
(* wrong with maker m's material, if anything.                             *)
(*                                                                         *)
(* A few operators have a faulty twin written just before them, such as    *)
(* TimedOutInverted before TimedOut.  Nothing refers to a twin: put in     *)
(* place of its original it makes a property of the module fail, and so    *)
(* shows what the property watches.                                        *)
(***************************************************************************)
EXTENDS Naturals

CONSTANTS
  Makers,                    \* makers the server may negotiate this swap with
  NoMaker,                   \* "no maker": an unset address, an empty PSBT
  Faults,                    \* defects a maker's material may have
  SavesSnapshot,             \* the host passes saveProtocolSnapshot
  LoadsSnapshot,             \* the host passes loadProtocolSnapshot
  HasProvider,               \* the host passes a blockchain provider
  PRESIGS_ALREADY_DONE_MAX,  \* /presigs rejections in a row before giving up
  MAX_ENCSIG_FAILURES,       \* failed encsig submissions before giving up
  FUND_ATTEMPTS,             \* local /fund attempts on an unarmed broker
  MaxSwitches,               \* bound: times the server moves to another maker
  MaxRestarts                \* bound: crashes or stops followed by a resume

DriveFaults ==
  {"dleq_absent", "dleq_invalid", "s_a_missing", "contract", "address",
   "terms", "no_encsig", "xmr", "digest"}

ASSUME DriveAssumption ==
  /\ NoMaker \notin Makers
  /\ Faults \subseteq DriveFaults
  /\ SavesSnapshot \in BOOLEAN
  /\ LoadsSnapshot \in BOOLEAN
  /\ HasProvider \in BOOLEAN
  /\ PRESIGS_ALREADY_DONE_MAX \in Nat \ {0}
  /\ MAX_ENCSIG_FAILURES \in Nat \ {0}
  /\ FUND_ATTEMPTS \in Nat \ {0}
  /\ MaxSwitches \in Nat
  /\ MaxRestarts \in Nat

VARIABLES
  fault,          \* what is wrong with each maker's material, fixed
  \* the swap server and its sidecar
  status,         \* SwapDetail.status
  action,         \* SwapDetail.requiredAction
  offer,          \* maker whose lock address is the swap's depositAddress
  params,         \* maker whose protocol params are published
  broker,         \* the sidecar's broker: "none", "pending", "armed", "spent"
  mirrored,       \* refund encsig and redeem digest appear in SwapDetail
  switches,
  \* the chains
  lock,           \* maker whose lock output is on the Bitcoin chain
  xmr,            \* maker's Monero lock: "none", "published", "confirmed"
  released,       \* lock the server holds a redeem encsig for
  \* the host
  snap,           \* maker described by the stored recovery snapshot
  deposit,        \* spendable UTXOs of the temporary wallet are in memory
  aborted,        \* the caller's AbortSignal
  late,           \* the deadline of this loop has passed
  restarts,
  \* the loop
  pc, outcome, view,
  dleqOK,         \* aliceDleqVerified
  contractOK,     \* verificationEmitted
  xmrOK,          \* xmrLockVerified
  lastFunded,     \* lastFundedAddress
  lastSigned,     \* lastSignedPsbt
  fundedAt,       \* fundedAt > 0
  streak,         \* presigsAlreadyDoneStreak
  attempt,        \* attempt of the /fund loop
  encsigFails     \* encsigFailures

serverVars == <<status, action, offer, params, broker, mirrored, switches>>
chainVars  == <<lock, xmr, released>>
hostVars   == <<snap, deposit, aborted, late, restarts>>
gateVars   == <<dleqOK, contractOK, xmrOK>>
fundVars   == <<lastFunded, lastSigned, fundedAt>>
countVars  == <<streak, attempt, encsigFails>>
loopVars   == <<pc, outcome, view, gateVars, fundVars, countVars>>
envVars    == <<fault, serverVars, chainVars, hostVars>>
vars       == <<envVars, loopVars>>

MakerOrNone == Makers \cup {NoMaker}

PRE_FUNDING_STATUSES == {"awaiting_funding"}
TERMINAL_STATUSES    == {"completed", "failed", "refunded"}
Statuses == PRE_FUNDING_STATUSES \cup TERMINAL_STATUSES
              \cup {"swapping", "sending", "punished"}
RequiredActions == {"none", "fund", "submit_encsig", "cancel", "refund", "sweep"}

(* What getSwapDetail returns, as far as the loop looks at it.              *)
SwapDetail ==
  [status : Statuses, action : RequiredActions, offer : MakerOrNone,
   params : MakerOrNone, mirrored : BOOLEAN, proof : BOOLEAN]

Detail ==
  [status |-> status, action |-> action, offer |-> offer, params |-> params,
   mirrored |-> mirrored, proof |-> xmr # "none"]

Labels == {"poll", "dispatch", "dleq", "contract", "terms", "presigs",
           "snapshot", "fund", "xmr", "digest", "release", "sweep", "sleep",
           "stopped"}

VerificationErrors ==
  {"E_DLEQ_PROOF_REQUIRED", "E_DLEQ_PROOF_INVALID", "E_XMR_LOCK_FAILED",
   "E_LOCK_ADDR_MISMATCH", "E_REDEEM_DIGEST_MISMATCH"}
OtherErrors ==
  {"E_DRIVE_TIMEOUT", "E_FUNDING_TERMS", "E_PRESIGS_WEDGED",
   "E_ENCSIG_REFUND_MISSING", "E_SNAPSHOT_WRITE_FAILED",
   "E_S_A_MONERO_MISSING", "E_NO_SIGNED_PSBT", "E_ENCSIG_SUBMIT_FAILED",
   "E_PROTOCOL_PARAMS_MISSING", "E_SWEEP", "E_API"}
Outcomes == {"none", "terminal", "swept", "handed_over", "cancelled"}
              \cup VerificationErrors \cup OtherErrors

-----------------------------------------------------------------------------
Init ==
  /\ fault \in [Makers -> Faults \cup {"none"}]
  /\ status = "awaiting_funding" /\ action = "none"
  /\ offer = NoMaker /\ params = NoMaker
  /\ broker = "none" /\ mirrored = FALSE /\ switches = 0
  /\ lock = NoMaker /\ xmr = "none" /\ released = NoMaker
  /\ snap = NoMaker /\ deposit = TRUE
  /\ aborted = FALSE /\ late = FALSE /\ restarts = 0
  /\ pc = "poll" /\ outcome = "none" /\ view = Detail
  /\ dleqOK = FALSE /\ contractOK = FALSE /\ xmrOK = FALSE
  /\ lastFunded = NoMaker /\ lastSigned = NoMaker /\ fundedAt = FALSE
  /\ streak = 0 /\ attempt = 0 /\ encsigFails = 0

(***************************************************************************)
(* Moving through the loop: on to another stretch, or out of it by a       *)
(* return or a throw.                                                      *)
(***************************************************************************)
Move(to)  == pc' = to /\ UNCHANGED outcome
Halt(why) == pc' = "stopped" /\ outcome' = why

-----------------------------------------------------------------------------
(* The top of the loop: the abort check, getSwapDetail, and the dispatch on *)
(* what came back.                                                          *)

Poll ==
  /\ pc = "poll"
  /\ \/ aborted /\ Halt("cancelled") /\ UNCHANGED view
     \/ ~aborted /\ Move("dispatch") /\ view' = Detail
     \/ ~aborted /\ Halt("E_API") /\ UNCHANGED view
  /\ UNCHANGED <<envVars, gateVars, fundVars, countVars>>

TimedOutInverted == late /\ view.status \notin PRE_FUNDING_STATUSES
TimedOut == late /\ view.status \in PRE_FUNDING_STATUSES

HandsOverRefundOnly == view.action = "refund"
HandsOver == view.action \in {"cancel", "refund"}

Live == view.status \notin TERMINAL_STATUSES /\ ~TimedOut

(* A terminal status, the deadline before funding, and the actions the loop *)
(* hands back to its caller end the loop.                                   *)
DispatchStop ==
  /\ pc = "dispatch"
  /\ \/ view.status \in TERMINAL_STATUSES /\ Halt("terminal")
     \/ /\ view.status \notin TERMINAL_STATUSES /\ TimedOut
        /\ Halt("E_DRIVE_TIMEOUT")
     \/ /\ Live /\ HandsOver /\ view.status # "sending"
        /\ Halt("handed_over")
  /\ UNCHANGED <<envVars, view, gateVars, fundVars, countVars>>

Dispatched(required) == Live /\ view.action = required

DispatchIdle ==
  /\ pc = "dispatch"
  /\ Live /\ ~HandsOver /\ view.status # "sending"
  /\ view.action \notin {"fund", "submit_encsig", "sweep"}
  /\ Move("sleep")
  /\ UNCHANGED <<envVars, view, gateVars, fundVars, countVars>>

(* delay(POLL_MS, signal) rejects as soon as the signal is aborted.         *)
Sleep ==
  /\ pc = "sleep"
  /\ \/ ~aborted /\ Move("poll")
     \/ aborted /\ Halt("cancelled")
  /\ UNCHANGED <<envVars, view, gateVars, fundVars, countVars>>

-----------------------------------------------------------------------------
(* requiredAction = fund.                                                   *)

PastFunding == view.status \notin PRE_FUNDING_STATUSES
HasPending  == view.offer # NoMaker /\ ~PastFunding

(* After a successful /fund the loop only waits, until the server shows     *)
(* another lock address.  Once FUND_SETTLE_MS have gone by past funding it  *)
(* waits even then.                                                         *)
FundWait ==
  /\ pc = "dispatch"
  /\ Dispatched("fund")
  /\ \/ PastFunding /\ fundedAt /\ UNCHANGED fundedAt
     \/ /\ view.offer \in {NoMaker, lastFunded}
        /\ fundedAt' = IF HasPending THEN FALSE ELSE fundedAt
  /\ Move("sleep")
  /\ UNCHANGED <<envVars, view, gateVars, lastFunded, lastSigned, countVars>>

FundEnter ==
  /\ pc = "dispatch"
  /\ Dispatched("fund")
  /\ view.offer \notin {NoMaker, lastFunded}
  /\ fundedAt' = IF HasPending THEN FALSE ELSE fundedAt
  /\ Move("dleq")
  /\ UNCHANGED <<envVars, view, gateVars, lastFunded, lastSigned, countVars>>

(* Gate V-2: the maker's keys on the two curves are the same scalar.  Once  *)
(* passed it is not asked again by this loop.                               *)
DleqAbsent == view.params \notin {m \in Makers : fault[m] # "dleq_absent"}
LinkUnchecked == fault[view.params] # "s_a_missing"
LinkProved == fault[view.params] \notin {"s_a_missing", "dleq_invalid"}

DleqPass ==
  /\ pc = "dleq"
  /\ \/ dleqOK
     \/ ~DleqAbsent /\ LinkProved
  /\ dleqOK' = TRUE
  /\ Move("contract")
  /\ UNCHANGED <<envVars, view, contractOK, xmrOK, fundVars, countVars>>

DleqRefuse ==
  /\ pc = "dleq"
  /\ ~dleqOK
  /\ \/ DleqAbsent /\ Move("sleep")
     \/ /\ ~DleqAbsent /\ fault[view.params] = "s_a_missing"
        /\ Halt("E_DLEQ_PROOF_REQUIRED")
     \/ /\ ~DleqAbsent /\ fault[view.params] = "dleq_invalid"
        /\ Halt("E_DLEQ_PROOF_INVALID")
  /\ UNCHANGED <<envVars, view, gateVars, fundVars, countVars>>

(* verifyDepositAddress, the first time SwapDetail carries a verification   *)
(* object; without one the gate is passed unasked.                          *)
ContractPass ==
  /\ pc = "contract"
  /\ \/ UNCHANGED contractOK
     \/ /\ ~contractOK /\ fault[view.offer] # "contract"
        /\ contractOK' = TRUE
  /\ Move("terms")
  /\ UNCHANGED <<envVars, view, dleqOK, xmrOK, fundVars, countVars>>

ContractRefuse ==
  /\ pc = "contract"
  /\ ~contractOK /\ fault[view.offer] = "contract"
  /\ contractOK' = TRUE
  /\ Halt("E_XMR_LOCK_FAILED")
  /\ UNCHANGED <<envVars, view, dleqOK, xmrOK, fundVars, countVars>>

(* Gate AV-B.1 derives the lock address from the published params; then the *)
(* lock transaction is built and signed in memory and the pre-signatures    *)
(* are computed, which refuses out-of-range timelocks and fees.  All of it  *)
(* is repeated in every iteration.                                          *)
AddressTrusted == view.params = view.offer
AddressDerived == view.params = view.offer /\ fault[view.offer] # "address"
TermsAccepted  == deposit /\ fault[view.offer] # "terms"

TermsPass ==
  /\ pc = "terms"
  /\ view.params # NoMaker /\ AddressDerived /\ TermsAccepted
  /\ \/ ~view.mirrored /\ Move("presigs") /\ UNCHANGED streak
     \/ view.mirrored /\ Move("snapshot") /\ streak' = 0
  /\ UNCHANGED <<envVars, view, gateVars, fundVars, attempt, encsigFails>>

TermsRefuse ==
  /\ pc = "terms"
  /\ \/ view.params = NoMaker /\ Move("sleep")
     \/ /\ view.params # NoMaker /\ ~AddressDerived
        /\ Halt("E_LOCK_ADDR_MISMATCH")
     \/ /\ view.params # NoMaker /\ AddressDerived /\ ~TermsAccepted
        /\ Halt("E_FUNDING_TERMS")
  /\ UNCHANGED <<envVars, view, gateVars, fundVars, countVars>>

-----------------------------------------------------------------------------
(* POST /presigs.  The API client repeats a request whose answer was lost,  *)
(* so the sidecar may have taken the first copy and refuse the second.      *)

PresigsRejectionUncapped == UNCHANGED streak /\ Move("sleep")
PresigsRejection ==
  /\ streak' = streak + 1
  /\ IF streak + 1 >= PRESIGS_ALREADY_DONE_MAX
     THEN Halt("E_PRESIGS_WEDGED")
     ELSE Move("sleep")

EncsigNotChecked == FALSE
EncsigMissing == fault[view.offer] = "no_encsig"

PresigsAccepted ==
  /\ pc = "presigs"
  /\ broker = "pending" /\ offer = view.offer
  /\ broker' = "armed"
  /\ streak' = 0
  /\ IF EncsigMissing
     THEN Halt("E_ENCSIG_REFUND_MISSING")
     ELSE Move("snapshot")
  /\ UNCHANGED <<fault, status, action, offer, params, mirrored, switches,
                 chainVars, hostVars, view, gateVars, fundVars, attempt,
                 encsigFails>>

PresigsAnswerLost ==
  /\ pc = "presigs"
  /\ broker = "pending" /\ offer = view.offer
  /\ broker' = "armed"
  /\ PresigsRejection
  /\ UNCHANGED <<fault, status, action, offer, params, mirrored, switches,
                 chainVars, hostVars, view, gateVars, fundVars, attempt,
                 encsigFails>>

PresigsRejected ==
  /\ pc = "presigs"
  /\ broker # "pending"
  /\ PresigsRejection
  /\ UNCHANGED <<envVars, view, gateVars, fundVars, attempt, encsigFails>>

(* Any other failure, which says nothing of whether the sidecar took them.  *)
PresigsFailed ==
  /\ pc = "presigs"
  /\ \/ UNCHANGED broker
     \/ broker = "pending" /\ offer = view.offer /\ broker' = "armed"
  /\ Move("sleep")
  /\ UNCHANGED <<fault, status, action, offer, params, mirrored, switches,
                 chainVars, hostVars, view, gateVars, fundVars, countVars>>

(* maybeWriteSnapshot: a snapshot that is found in the store is kept; one   *)
(* that cannot be loaded counts as absent.                                  *)
SnapshotAssumed == LoadsSnapshot
SnapshotFound == LoadsSnapshot /\ snap # NoMaker

SnapshotKeep ==
  /\ pc = "snapshot"
  /\ ~SavesSnapshot \/ SnapshotFound
  /\ Move("fund")
  /\ attempt' = 0
  /\ UNCHANGED <<envVars, view, gateVars, fundVars, streak, encsigFails>>

SnapshotWrite ==
  /\ pc = "snapshot"
  /\ SavesSnapshot
  /\ snap' = view.offer
  /\ Move("fund")
  /\ attempt' = 0
  /\ UNCHANGED <<fault, serverVars, chainVars, deposit, aborted, late,
                 restarts, view, gateVars, fundVars, streak, encsigFails>>

SnapshotFails ==
  /\ pc = "snapshot"
  /\ SavesSnapshot
  /\ Halt("E_SNAPSHOT_WRITE_FAILED")
  /\ UNCHANGED <<envVars, view, gateVars, fundVars, countVars>>

-----------------------------------------------------------------------------
(* POST /fund hands the signed lock transaction to the sidecar, which       *)
(* broadcasts it when the broker is armed for this maker.                   *)

Armed == broker = "armed" /\ offer = view.offer

Broadcast ==
  /\ pc = "fund" /\ Armed
  /\ lock' = view.offer /\ broker' = "spent"
  /\ UNCHANGED <<fault, status, action, offer, params, mirrored, switches,
                 xmr, released, hostVars, view, gateVars, streak, encsigFails>>

FundAccepted ==
  /\ Broadcast
  /\ lastFunded' = view.offer /\ lastSigned' = view.offer /\ fundedAt' = TRUE
  /\ Move("sleep")
  /\ UNCHANGED attempt

(* "no swap awaiting broadcast" is tried again on the spot, without looking *)
(* at the signal; anything else leaves the attempt loop.                    *)
FundRejectionCountsDown ==
  /\ attempt' = attempt - 1
  /\ Move(IF attempt - 1 < FUND_ATTEMPTS THEN "fund" ELSE "sleep")
  /\ UNCHANGED fundVars
FundRejectionForever ==
  /\ attempt' = (attempt + 1) % FUND_ATTEMPTS
  /\ Move("fund")
  /\ UNCHANGED fundVars
FundRejection ==
  /\ attempt' = attempt + 1
  /\ Move(IF attempt + 1 < FUND_ATTEMPTS THEN "fund" ELSE "sleep")
  /\ UNCHANGED fundVars

FundAnswerLost == Broadcast /\ FundRejection

FundNotArmed ==
  /\ pc = "fund" /\ ~Armed
  /\ FundRejection
  /\ UNCHANGED <<envVars, view, gateVars, streak, encsigFails>>

FundFailed ==
  /\ pc = "fund"
  /\ Move("sleep")
  /\ UNCHANGED <<envVars, view, gateVars, fundVars, countVars>>

-----------------------------------------------------------------------------
(* requiredAction = submit_encsig.                                          *)

EncsigEnter ==
  /\ pc = "dispatch"
  /\ Dispatched("submit_encsig")
  /\ \/ view.params = NoMaker /\ Move("sleep")
     \/ view.params # NoMaker /\ ~xmrOK /\ Move("xmr")
     \/ view.params # NoMaker /\ xmrOK /\ Move("digest")
  /\ UNCHANGED <<envVars, view, gateVars, fundVars, countVars>>

(* verifyXmrLocked asks monerod nodes.  Too few confirmations, too few      *)
(* agreeing nodes and an unreachable node are retried in the next round.    *)
XmrWait ==
  /\ pc = "xmr"
  /\ view.proof => fault[view.params] # "s_a_missing"
  /\ Move("sleep")
  /\ UNCHANGED <<envVars, view, gateVars, fundVars, countVars>>

(* The lock output must pay the key joined from the published params.       *)
MoneroLockTrusted == view.params = lock
MoneroLockGood == view.params = lock /\ fault[view.params] # "xmr"
Confirmed == xmr = "confirmed"

LockVerifiedAtOnce == MoneroLockGood
LockVerified == Confirmed /\ MoneroLockGood

XmrRefuse ==
  /\ pc = "xmr"
  /\ view.proof
  /\ \/ /\ fault[view.params] = "s_a_missing"
        /\ Halt("E_S_A_MONERO_MISSING")
     \/ /\ fault[view.params] # "s_a_missing" /\ ~MoneroLockGood
        /\ Halt("E_XMR_LOCK_FAILED")
  /\ UNCHANGED <<envVars, view, gateVars, fundVars, countVars>>

XmrVerified ==
  /\ pc = "xmr"
  /\ view.proof /\ fault[view.params] # "s_a_missing"
  /\ LockVerified
  /\ xmrOK' = TRUE
  /\ Move("digest")
  /\ UNCHANGED <<envVars, view, dleqOK, contractOK, fundVars, countVars>>

(* Gate AV-B.2: the redeem digest is recomputed from the lock transaction,  *)
(* the one signed here or, after a resume, the one on the chain.  It is     *)
(* compared with the sidecar's only if the sidecar shows one.               *)
BoundLock == IF lastSigned # NoMaker THEN lastSigned ELSE lock

LockTxKnown == lastSigned # NoMaker \/ (HasProvider /\ lock # NoMaker)

DigestPass ==
  /\ pc = "digest"
  /\ LockTxKnown
  /\ view.mirrored => fault[view.params] # "digest"
  /\ Move("release")
  /\ UNCHANGED <<envVars, view, gateVars, fundVars, countVars>>

DigestRefuse ==
  /\ pc = "digest"
  /\ \/ /\ LockTxKnown /\ view.mirrored /\ fault[view.params] = "digest"
        /\ Halt("E_REDEEM_DIGEST_MISMATCH")
     \/ /\ lastSigned = NoMaker /\ ~HasProvider
        /\ Halt("E_NO_SIGNED_PSBT")
     \/ /\ lastSigned = NoMaker /\ HasProvider
        /\ Move("sleep") \/ Halt("E_API")
  /\ UNCHANGED <<envVars, view, gateVars, fundVars, countVars>>

EncsigAccepted ==
  /\ pc = "release"
  /\ released' = BoundLock
  /\ encsigFails' = 0
  /\ Move("sleep")
  /\ UNCHANGED <<fault, serverVars, lock, xmr, hostVars, view, gateVars,
                 fundVars, streak, attempt>>

(* A failed submission; the server may still have taken the signature.      *)
EncsigFailed ==
  /\ pc = "release"
  /\ released' \in {released, BoundLock}
  /\ encsigFails' = encsigFails + 1
  /\ IF encsigFails + 1 >= MAX_ENCSIG_FAILURES
     THEN Halt("E_ENCSIG_SUBMIT_FAILED")
     ELSE Move("sleep")
  /\ UNCHANGED <<fault, serverVars, lock, xmr, hostVars, view, gateVars,
                 fundVars, streak, attempt>>

-----------------------------------------------------------------------------
(* requiredAction = sweep, or status = sending.                             *)

SweepEnter ==
  /\ pc = "dispatch"
  /\ Live /\ view.action \notin {"fund", "submit_encsig"}
  /\ view.action = "sweep" \/ view.status = "sending"
  /\ IF view.params = NoMaker \/ fault[view.params] = "s_a_missing"
     THEN Halt("E_PROTOCOL_PARAMS_MISSING")
     ELSE Move("sweep")
  /\ UNCHANGED <<envVars, view, gateVars, fundVars, countVars>>

SweepEnd ==
  /\ pc = "sweep"
  /\ Halt("swept") \/ Halt("E_SWEEP")
  /\ UNCHANGED <<envVars, view, gateVars, fundVars, countVars>>

-----------------------------------------------------------------------------
(* The caller: the user's cancel, the clock, and a crash or a stop followed *)
(* by a resume, which runs the loop again with fresh locals.  Only the      *)
(* snapshot survives.  The deposit is looked up again, and is found only    *)
(* while the temporary wallet still holds it.                               *)

Abort ==
  /\ ~aborted /\ pc # "stopped"
  /\ aborted' = TRUE
  /\ UNCHANGED <<fault, serverVars, chainVars, snap, deposit, late, restarts,
                 loopVars>>

DeadlinePasses ==
  /\ ~late /\ pc # "stopped"
  /\ late' = TRUE
  /\ UNCHANGED <<fault, serverVars, chainVars, snap, deposit, aborted,
                 restarts, loopVars>>

Resume ==
  /\ restarts < MaxRestarts
  /\ restarts' = restarts + 1
  /\ aborted' = FALSE /\ late' = FALSE
  /\ deposit' = (status \in PRE_FUNDING_STATUSES /\ lock = NoMaker)
  /\ pc' = "poll" /\ outcome' = "none" /\ view' = view
  /\ dleqOK' = FALSE /\ contractOK' = FALSE /\ xmrOK' = FALSE
  /\ lastFunded' = NoMaker /\ lastSigned' = NoMaker /\ fundedAt' = FALSE
  /\ streak' = 0 /\ attempt' = 0 /\ encsigFails' = 0
  /\ UNCHANGED <<fault, serverVars, chainVars, snap>>

-----------------------------------------------------------------------------
(* The server, the sidecar and the maker, as far as the loop's comments and *)
(* error paths tell: external.                                              *)

(* A first maker, or another one after the first gave up.  The address and  *)
(* the params are written separately.                                       *)
Negotiate(m) ==
  /\ status = "awaiting_funding" /\ lock = NoMaker /\ offer # m
  /\ offer = NoMaker \/ switches < MaxSwitches
  /\ switches' = IF offer = NoMaker THEN switches ELSE switches + 1
  /\ offer' = m /\ action' = "fund"
  /\ params' \in {params, NoMaker}
  /\ broker' = "pending" /\ mirrored' = FALSE
  /\ UNCHANGED <<fault, status, chainVars, hostVars, loopVars>>

PublishParams ==
  /\ offer # NoMaker /\ params # offer
  /\ params' = offer
  /\ UNCHANGED <<fault, status, action, offer, broker, mirrored, switches,
                 chainVars, hostVars, loopVars>>

MirrorEncsig ==
  /\ broker \in {"armed", "spent"} /\ params = offer /\ ~mirrored
  /\ fault[offer] # "no_encsig"
  /\ mirrored' = TRUE
  /\ UNCHANGED <<fault, status, action, offer, params, broker, switches,
                 chainVars, hostVars, loopVars>>

SidecarRestart ==
  /\ broker \in {"pending", "armed"}
  /\ broker' = "none"
  /\ UNCHANGED <<fault, status, action, offer, params, mirrored, switches,
                 chainVars, hostVars, loopVars>>

GiveUp ==
  /\ status = "awaiting_funding" /\ lock = NoMaker
  /\ status' = "failed" /\ action' = "none" /\ broker' = "none"
  /\ UNCHANGED <<fault, offer, params, mirrored, switches, chainVars,
                 hostVars, loopVars>>

ServerMoves(newStatus, newAction) ==
  /\ status' = newStatus /\ action' = newAction
  /\ UNCHANGED <<fault, offer, params, broker, mirrored, switches, chainVars,
                 hostVars, loopVars>>

(* The required action may lag behind the status.                           *)
NoticeLock ==
  /\ lock # NoMaker /\ status = "awaiting_funding"
  /\ \E required \in {"none", action} : ServerMoves("swapping", required)

AskEncsig ==
  /\ status = "swapping" /\ action \in {"none", "fund"} /\ released = NoMaker
  /\ ServerMoves("swapping", "submit_encsig")

TakeEncsig ==
  /\ status = "swapping" /\ action = "submit_encsig" /\ released # NoMaker
  /\ ServerMoves("swapping", "none")

Redeem ==
  /\ status = "swapping" /\ released # NoMaker /\ action # "refund"
  /\ ServerMoves("sending", "sweep")

CancelTimelock ==
  /\ status = "swapping" /\ action \in {"none", "fund", "submit_encsig"}
  /\ ServerMoves("swapping", "cancel")

CancelConfirmed ==
  /\ status = "swapping" /\ action = "cancel"
  /\ ServerMoves("swapping", "refund")

Punish ==
  /\ status = "swapping" /\ action = "refund"
  /\ ServerMoves("punished", "none")

CooperativeRedeem ==
  /\ status = "punished" /\ action = "none"
  /\ ServerMoves("punished", "sweep")

Settle ==
  \/ status = "sending" /\ ServerMoves("completed", "none")
  \/ /\ status = "swapping" /\ action = "refund"
     /\ ServerMoves("refunded", "none")

XmrMoves(from, to) ==
  /\ status = "swapping" /\ xmr = from
  /\ xmr' = to
  /\ UNCHANGED <<fault, serverVars, lock, released, hostVars, loopVars>>

LockXmr    == XmrMoves("none", "published")
ConfirmXmr == XmrMoves("published", "confirmed")

-----------------------------------------------------------------------------
Loop ==
  \/ Poll \/ DispatchStop \/ DispatchIdle \/ Sleep
  \/ FundWait \/ FundEnter
  \/ DleqPass \/ DleqRefuse \/ ContractPass \/ ContractRefuse
  \/ TermsPass \/ TermsRefuse
  \/ PresigsAccepted \/ PresigsAnswerLost \/ PresigsRejected \/ PresigsFailed
  \/ SnapshotKeep \/ SnapshotWrite \/ SnapshotFails
  \/ FundAccepted \/ FundAnswerLost \/ FundNotArmed \/ FundFailed
  \/ EncsigEnter \/ XmrWait \/ XmrRefuse \/ XmrVerified
  \/ DigestPass \/ DigestRefuse \/ EncsigAccepted \/ EncsigFailed
  \/ SweepEnter \/ SweepEnd

Caller == Abort \/ DeadlinePasses \/ Resume

Server ==
  \/ \E m \in Makers : Negotiate(m)
  \/ PublishParams \/ MirrorEncsig \/ SidecarRestart \/ GiveUp
  \/ NoticeLock \/ AskEncsig \/ TakeEncsig \/ Redeem
  \/ CancelTimelock \/ CancelConfirmed \/ Punish \/ CooperativeRedeem
  \/ Settle \/ LockXmr \/ ConfirmXmr

Next == Loop \/ Caller \/ Server

Spec == Init /\ [][Next]_vars

(* Where the loop waits for nobody but itself: its own code, and delay's    *)
(* timer.  Elsewhere it awaits the server, the host's store, a monerod node *)
(* or the provider, and none of them has to answer: ApiClient.request       *)
(* repeats a call without limit and without a signal while the server is    *)
(* down.                                                                    *)
Unawaited == pc \in {"dispatch", "dleq", "contract", "terms", "sleep"}

(* A process that is alive runs.  Nothing else is promised.                 *)
FairSpec == Spec /\ WF_vars(Unawaited /\ Loop)

(* Hypotheses of the liveness properties.                                   *)
(* No call, but for the sweep, is awaited for ever: each ends, well or not. *)
CallsReturn == WF_vars(pc # "sweep" /\ Loop)

(* The sweep ends once the signal is aborted: what CallEnds of MoneroSweep  *)
(* says of it.                                                              *)
SweepHeedsAbort == WF_vars(aborted /\ SweepEnd)

(* The server sees the lock on the chain, and blocks keep coming until its  *)
(* cancel timelock runs out.                                                *)
ChainIsWatched == WF_vars(NoticeLock) /\ WF_vars(CancelTimelock)

(* The sidecar is reached now and then, and says what it refuses.           *)
SidecarReached == SF_vars(PresigsRejected)

-----------------------------------------------------------------------------
TypeOK ==
  /\ fault \in [Makers -> Faults \cup {"none"}]
  /\ status \in Statuses /\ action \in RequiredActions
  /\ offer \in MakerOrNone /\ params \in MakerOrNone
  /\ broker \in {"none", "pending", "armed", "spent"}
  /\ mirrored \in BOOLEAN /\ switches \in Nat
  /\ lock \in MakerOrNone /\ released \in MakerOrNone
  /\ xmr \in {"none", "published", "confirmed"}
  /\ snap \in MakerOrNone /\ deposit \in BOOLEAN
  /\ aborted \in BOOLEAN /\ late \in BOOLEAN /\ restarts \in Nat
  /\ pc \in Labels /\ outcome \in Outcomes /\ view \in SwapDetail
  /\ dleqOK \in BOOLEAN /\ contractOK \in BOOLEAN /\ xmrOK \in BOOLEAN
  /\ lastFunded \in MakerOrNone /\ lastSigned \in MakerOrNone
  /\ fundedAt \in BOOLEAN
  /\ streak \in Nat /\ attempt \in Nat /\ encsigFails \in Nat

(* Whatever is crashed, lost or renegotiated, Bitcoin is never locked       *)
(* before a recovery snapshot is in the host's store, when there is a store.*)
LockIsRecoverable == SavesSnapshot /\ lock # NoMaker => snap # NoMaker

(* The snapshot in the store describes the lock that is on the chain:       *)
(* recovery reads the refund encsigs and the maker from it.                 *)
SnapshotDescribesLock == SavesSnapshot /\ lock # NoMaker => snap = lock

(* Until the server moves to another maker it does.                         *)
FirstMakerSnapshot == switches = 0 => SnapshotDescribesLock

(* Bitcoin is locked only to a maker whose keys on the two curves have been *)
(* proved to be the same scalar, without which the Monero cannot be swept.  *)
(* The loop asks for the proof once, so this is said of its first maker.    *)
FirstMakerLinked ==
  switches = 0 /\ lock # NoMaker =>
    fault[lock] \notin {"dleq_absent", "dleq_invalid", "s_a_missing"}

(* Bitcoin is locked only to an address derived here, under acceptable fees *)
(* and timelocks, and with a refund encsig in hand.  The view these were    *)
(* checked on is older than the broadcast.                                  *)
LockedTermsAccepted ==
  lock # NoMaker => fault[lock] \notin {"address", "terms", "no_encsig"}

(* The signature that lets the maker redeem leaves this process only for    *)
(* the lock that is on the chain, and only once that maker's Monero lock is *)
(* good and confirmed, also after a resume has forgotten what was checked.  *)
KeyReleasedAgainstMonero ==
  released # NoMaker =>
    /\ released = lock
    /\ xmr = "confirmed"
    /\ fault[lock] \notin {"xmr", "s_a_missing"}

Stopped == pc = "stopped"

(* A cancel is honoured wherever it arrives, inside the /fund retries and   *)
(* before an answer too: if the call it finds in progress ends, the loop    *)
(* starts no further round and stops.                                       *)
AbortStops ==
  CallsReturn /\ SweepHeedsAbort => (aborted ~> (Stopped \/ ~aborted))

(* Past the deadline, a swap that has not been funded does not keep the     *)
(* loop running, whatever round of gates and retries it is in: provided the *)
(* calls of that round end.                                                 *)
DeadlineEndsWait ==
  CallsReturn =>
    (late /\ status = "awaiting_funding")
      ~> (Stopped \/ ~late \/ status # "awaiting_funding")

(* The sidecar's broker has lost the swap and no encsig is ever shown: the  *)
(* loop gives up, whatever the deadline, if calls end and the refusal is    *)
(* heard again and again.                                                   *)
Wedged ==
  /\ status = "awaiting_funding" /\ action = "fund"
  /\ broker # "pending" /\ ~mirrored
  /\ offer \notin {NoMaker, lastFunded} /\ params = offer
  /\ fault[offer] = "none"

WedgeGivesUp ==
  CallsReturn /\ SidecarReached => (<>[]Wedged => <>[]Stopped)

(* Once Bitcoin is locked, and while calls end, the loop comes to a sweep,  *)
(* or hands over to the refund, or reports why not.  Only a punished swap   *)
(* whose maker does not cooperate can keep it waiting.  How long a sweep    *)
(* lasts is up to the server that owes it the Monero outputs.               *)
FundedSwapResolves ==
  CallsReturn /\ ChainIsWatched =>
    lock # NoMaker ~> (Stopped \/ pc = "sweep" \/ status = "punished")

-----------------------------------------------------------------------------
(* What the whole dance promises about the funds.                           *)
BtcState ==
  IF released # NoMaker THEN "redeemable"
  ELSE IF lock # NoMaker THEN "locked" ELSE "free"

Promise == INSTANCE SwapPromise WITH
  NeedsRecovery <- SavesSnapshot,
  btc <- BtcState,
  recovery <- (snap # NoMaker),
  monero <- Confirmed

(* Every step of the loop, the server and the caller is a step of the       *)
(* promise or invisible to it.                                              *)
KeepsPromise == Promise!Spec
=============================================================================
