# A TLA+ model of miradex-client

miradex-client is a TypeScript library (with a Rust/WASM crypto core) that runs
cross-chain swaps for a user: trustless BTC -> XMR atomic swaps against a maker,
with a swap server in between, and custodial-style swaps through THORChain,
Chainflip and NEAR Intents whose deposit addresses it verifies. This directory
holds TLA+ modules of the parts of the client that carry its own logic, the TLC
configurations that check them, and TLAPS proofs about the core. Paths are
relative to the repository root.

## 1. The system and its parts

```
 host app (PlatformAdapter: keystores, snapshots, QR, deposit watcher)
    |  calls, state events
 MiradexEngine --- SwapFlow ------------------ ApiClient -- swap server -- sidecar -- maker
    |                                             |
    +----- AtomicFlow -- run/resume -- drive loop-+--- Bitcoin API quorum
                |                         |
                +-- executeRefund         +-- verify-lock, sweepMonero --- monerod nodes
```

| Part | State it keeps | Operations | Talks to |
|---|---|---|---|
| Drive loop (`atomic-swap/drive.ts`) | locals of one loop: gates passed, last funded address, signed PSBT, counters | poll, dispatch on the required action: fund, submit_encsig, sweep, hand over | server, snapshot store, monerod, Bitcoin API |
| Run / resume (`atomic-swap/run.ts`) | none of its own; the keystore | new swap: keys, deposit, PoW, createSwap; resume of an existing swap | drive loop, server |
| Recovery snapshot (`atomic-swap/snapshot.ts`) | one JSON per swapId in the host's store | build, verify, canonical digest | host |
| AtomicFlow (`engine/flows/atomic-flow.ts`) | phase, flow context, last seen status, terminal flag, abort controller | start, resume, map the loop's progress to phases, refund, sweep, poll after the loop | everything above |
| SwapFlow (`engine/flows/swap-flow.ts`) | phase, flow context | create a provider swap, verify its deposit address, poll | server, verification |
| MiradexEngine (`engine/miradex-engine.ts`) | active flow, one state per flow, flow generations | start, resume, cancel, exit, destroy | flows, host |
| Refund (`atomic-swap/refund.ts`, `lib/bitcoin/tx-verify.ts`) | none | find and verify TxCancel, build, sign and broadcast the refund | Bitcoin API |
| XMR sweep (`atomic-swap/monero-sweep/`) | attempt counters, rings | fetch keys, outputs, decoys, sign, broadcast, notify | monerod, server |
| monerod access (`lib/monero/rpc.ts`, `verify-lock.ts`) | none | first-answer and quorum reads, broadcast, lock verification | monerod nodes |
| Bitcoin quorum (`blockchain/quorum-provider.ts`) | none | majority over several APIs | Bitcoin APIs |
| Deposit watcher, fees (`lib/bitcoin/deposit-watcher.ts`) | polling state | aggregate UTXOs, mempool, fee policy | Bitcoin APIs |
| ApiClient, retry (`api/index.ts`, `lib/retry.ts`) | none | requests with backoff and error classes | server |
| Pre-signing (`atomic-swap/presign.ts`, `lib/bitcoin/wallet.ts`) | none | bounds on fees and timelocks, transaction chain | - |
| Keystore (`lib/keystore.ts`) | versioned JSON | parse, migrate | host |
| Verification (`verification/*`) | none | per-provider checks of a deposit address | provider nodes |
| SwapExecutor, quote binding, cooperative redeem, PoW | none | helpers for hosts without the engine | server |
| Address and wire validation, formatting, WASM loader | none | parsing | - |
| Rust crypto (`miradex-rust/`) | none | keys, adaptor signatures, Monero transactions | - |

What is hard in it: everything the drive loop decides rests on what the server
said before the last await; the server may move to another maker meanwhile; the
process may stop at any await and resume with fresh locals; requests are retried
by the API client, without limit while the server is down, so an answer that is lost has its effect twice or leaves the
loop ignorant of its own lock; a user cancels at any time; two time limits (the
loop's deadline, the chain's timelocks) run against the polls. The list under
`hazards` in PROJECT.json gives each at its line.

Properties that make each part correct, in the order in which money depends on
them: recovery material before the lock, checked terms before the lock, the
redeem signature only against confirmed Monero (drive loop); no false end, no
end untold, refunds that conclude (AtomicFlow); no deposit invited to an
unconfirmed address (SwapFlow); no flow at work that the host cannot reach
(engine); no Monero sent twice and no sweep given up that could succeed (sweep);
no verdict from a minority of nodes (monerod access, Bitcoin quorum); no deposit
that is not there (deposit watcher); transactions that can be mined and
that pay (pre-signing, refund); keys that survive every migration (keystore).

## 2. Modules

```
 SwapPromise            what is promised about the funds of an atomic swap
      ^  KeepsPromise (refinement)
 AtomicDrive            drive loop + server, sidecar, chains, snapshot store
   |- MCAtomicDrive     model values, symmetry         |- AtomicDriveProofs
 AtomicFlow             engine flow around the loop    |- AtomicFlowProofs
 SwapFlow               flow for hand-made deposits    |- SwapFlowProofs
 MiradexEngine          flows replaced by generation   |- MiradexEngineProofs
 MoneroSweep            the sweep of the Monero lock   |- MoneroSweepProofs
 QuorumReads            what a quorum of servers says (operators only)
   |- XmrLock           the check of the Monero lock   |- QuorumReadsProofs (both)
   |- DepositWatch      the wait for the deposit       |- MCDepositWatch
 RefundPromise          what is promised of the way back
      ^  KeepsRefundPromise (refinement), by AtomicFlow and by
 RefundPath             terms, TxCancel, the refund    |- RefundPathProofs, MCRefundPath
 ApiClient              how a swap is asked for        |- ApiClientProofs
```

XmrLock is the inside of the drive loop's `XmrWait`, `XmrVerified` and `XmrRefuse`,
RefundPath that of AtomicFlow's refund and of the drive loop's `TermsPass`, ApiClient
that of SwapFlow's creation of a swap. The outer module takes the verdict as an
input; the inner one says on what conditions the verdict can be relied on.

Each module with a theorem is written with constants and their assumptions,
one action per stretch of code between two awaits, and invariants as named
conjuncts. No module declares a RECURSIVE operator so far.

Several operators are preceded by a twin of a similar name that nothing refers
to: a plausible fault. Substituted for its original it must break the property
PROJECT.json names, which shows that the property looks at the code.

### 2.1 AtomicDrive (`atomic-swap/drive.ts`, `run.ts`, `snapshot.ts`)

A maker stands for all that one negotiation fixes: keys, lock address, refund
encsigs, Monero lock. `fault[m]` is the one thing that is wrong with it, or
"none"; the checks of the loop become questions about it. Two server variables,
`offer` (whose lock address is the deposit address) and `params` (whose protocol
params are shown), move apart while the server renegotiates, and `view` is what
the loop read at the top of its iteration and uses up to five awaits later.

| Model | Code |
|---|---|
| `Poll`, `Sleep` | `getSwapDetail` at the top of the loop; the sleep at its foot, ended by the signal |
| `DispatchStop`, `DispatchIdle`, `HandsOver`, `TimedOut` | terminal statuses, deadline, cancel/refund handed to the caller |
| `FundWait`, `FundEnter`, `DleqPass/Refuse`, `ContractPass/Refuse`, `TermsPass/Refuse` | the gates before funding, in their order; the flags `dleqOK`, `contractOK` of earlier iterations |
| `PresigsAccepted`, `PresigsAnswerLost`, `PresigsRejected`, `PresigsFailed` | `/presigs`, its repetition by the API client and the streak of rejections |
| `SnapshotKeep`, `SnapshotWrite`, `SnapshotFails` | `maybeWriteSnapshot` |
| `FundAccepted`, `FundAnswerLost`, `FundNotArmed`, `FundFailed` | `/fund` and its local attempts |
| `EncsigEnter`, `XmrWait`, `XmrVerified`, `XmrRefuse`, `DigestPass/Refuse`, `EncsigAccepted`, `EncsigFailed` | verification of the Monero lock, digest of the lock transaction, `submit_encsig` |
| `SweepEnter`, `SweepEnd` | the sweep, taken as one step here; MoneroSweep models its inside |
| `Abort`, `DeadlinePasses`, `Resume` | the caller: signal, wall clock, crash or stop and resume with fresh locals |
| `Negotiate` ... `ConfirmXmr` | server, sidecar, maker and chains, inferred from what the loop reads (marked external) |

`SwapPromise` is the abstract specification: free -> locked -> redeemable, with
recovery material before the first step and a confirmed Monero lock before the
second. `KeepsPromise` maps the loop onto it (`BtcState`, `snap # NoMaker`,
`Confirmed`).

`RefundPromise` is the abstract specification of the way back: none -> locked ->
redeemed, or locked -> cancelled -> refunded or punished, and a host that is told of
the refund only once it has happened. Two modules keep it, each with its own idea of
where the lock is: AtomicFlow, where `btc` is a variable and `told` the phase
"refunded" that the host sees, and RefundPath, where both are read off the
transactions at the lock address (`BtcState`: TxCancel counts when it is confirmed, a
spend as soon as nodes accept it) and `told` is the outcome of the last call.

### 2.2 AtomicFlow (`engine/flows/atomic-flow.ts`, `error-routing.ts`)

The drive loop is reduced to what it shows its caller: the stages it reports and
how it comes back (`loopSigns` ... `loopSwept`, `loopReturns`, `loopThrows`). The
module keeps what the flow makes of it: `phase`, `lastSeen`, `reached`, the
terminal flag, the look at the server after the loop, polling, the refund and
the sweep. `pc` names the await. `refuses`, fixed in the first state, says
whether the server may answer a look with an error (a 4xx that is kept up, or an answer of
another shape, the only ways in which `getSwapDetail` throws); a server that is down
neither answers nor throws, and the flow stays in its await. `HasProtocolCache` says
whether the host keeps the params. Resumes of a swap start a new flow object (`Restart`).

The statuses "withheld" and "expired" behave as "failed" does in this flow and
are collapsed into one class. `userCancel` and `userRefund` wait for the phase
`awaiting-user-action`, which no code emits; they are left out. `userRetrySweep` asks
for a swap only; that the host offers it when the flow has failed, which is what the
texts tell it, is the conjunct `OfferedRetry`, an assumption about the host. Called in a
flow that polls or has completed it would sweep beside the flow, and `VerdictStands`
would not hold.

### 2.3 SwapFlow (`engine/flows/swap-flow.ts`)

The server chooses what it returns: nothing about the deposit, an address, or an
address with verification data (`payload`). `deposit` is what the flow's context
holds: no address, an address without QR code ("bare", which fails the context's
validation as a missing destination address does) or both ("full").
`verification` keeps where the verdict came from: "pending" and "refused" count as
not verified in the code, "passed" and "server" as verified; "server" is the verdict
the flow takes over from a poll without asking the provider. `lastPhase` is kept
beside `phase`, because two emissions go past the test for a repeated phase.
The two retry loops share `tries`. "pending" stands for the three statuses before
a deposit, "failed" also for "withheld".

### 2.4 MiradexEngine (`engine/miradex-engine.ts`)

A flow object is a pair of kind and generation; `live` are those whose start or
resume has not come back, `aborted` those cancelled. Calls are split where the
engine awaits: `startSwap`/`startAtomicSwap` (also `resumeAtomicSwap`) and
`resume` up to the await, `resumeFetched`/`resumeFails` for the server's answer,
`imported` for the module. A flow emits and ends as SwapFlow and AtomicFlow say it
may: also after a cancel, and possibly without a word. Imports of one module come
back in the order they were made. `overlapped` is a history variable: the host
has made a call, a cancel or an exit included, while another was under way.
Calls that throw before they change anything (addresses, slippage) are left out.

### 2.5 MoneroSweep (`atomic-swap/monero-sweep/`, `lib/monero/rpc.ts`)

`holds` says which transaction of the output each monerod node has; the transactions
are numbered as they are signed, since every attempt signs a new one. `flaws`
collects what is wrong with the material of the current attempt (another share, a
false amount, a ring of another size, a fee that is out of bounds), whether the
client can know it yet or not; the checks are questions about it, and `unsound`
records the transactions that were signed in spite of one.

| Model | Code |
|---|---|
| `call`, `crash`, `cancel` | `sweepMonero` called again while the server asks for it; the process dies; the signal |
| `askOutputs`, `outputsArrive`, `waitOutputs` | the loop around `get-outputs`, and the checks of its answer |
| `scanLockTx`, `fetchRing` | the lock transaction and the distribution; the ring and its redraws |
| `build` (`buildFails`, `sign`) | commitment, fee, `verifySweepTx`, signature: one stretch after the fee estimate |
| `broadcast` (`NextNode`, `AlreadySpent`) | `broadcastTransaction` over the nodes in turn |
| `notify` | the repetitions of `sweep-complete` |
| `Fails` | the catch of the attempt loop and `isRetryableSweepError` |

The wait before another attempt is part of `Fails`: no signal ends it and nothing is
read after it. The scan and the selection of decoys are inputs; `validateRingMembers`
answers with a redraw or not. Whether a transaction is mined is left out: a node
that holds one, in its pool or chain, refuses the others.

### 2.6 QuorumReads and XmrLock (`lib/monero/verify-lock.ts`, `rpc.ts`, `quorum-provider.ts`)

QuorumReads has the operators for both families of servers: which values a quorum
agrees on, which entries of lists it shares, and the median the code takes
(`sorted[k div 2]`, as a predicate on the number and not as a sort). XmrLock keeps what
the nodes said in one call (`said`, `asked`), the truth (`flaws` of the lock
transaction, its confirmations `conf`) and the verdict. `nodes`, `configured` and
`wrong` are chosen in the first state: any number of nodes, configured by the host or
not, any of them wrong. `flaws` stands for the reasons verify-lock.ts refuses for; which
of them it is does not matter to the order of the tests in `Examine`. An honest node may
lag, so it may report fewer confirmations than there are, but not more; or it may have
the lock in its pool still, and then its answer has no confirmations at all.
`Undefined` stands for these, as a number with the behaviour of undefined where it
goes: after all others when sorted, not below any minimum, 0 as a median (`OrZero`).
`Trusted` says which answers the verdict can be built on: all honest and confirmed when
the nodes are asked in turn; all honest, or less than half a quorum wrong or from a pool,
when they are asked together.

### 2.7 RefundPath (`presign.ts`, `tx-verify.ts`, `refund.ts`, `executeRefund`)

The terms are records of satoshi amounts and blocks, as the wire schema leaves them
(`Fields`), and `computePreSigs` does the arithmetic of every check. The lock address
has a history (`mined`, `pool`) that the maker, punishers and strangers extend;
"redeem" stands for any other spend of the lock. Which params the server hands out at
the time of the refund is free: the right ones, ones without encsigs (`Stripped`) or
with other fees (`Raised`), and so is its word for the deposit. An encsig is "sound" when
it belongs to the refund of the pre-signed terms; that it verifies for nothing else is
what the cryptography promises.

| Model | Code |
|---|---|
| `Fundable`, `computePreSigs` | the checks before `/presigs`, and the one for an encsig after it |
| `executeRefund`, `detailFails`, `resolveProtocolParams` | the start of a refund: server, cache, no escape hatch |
| `discoverTxCancel`, `readTxCancel` | history and raw transaction of what is taken for TxCancel |
| `signRefund` (`Refund`, `AboveDust`, `EncsigVerifies`) | the refund built, refused as dust, verified and signed |
| `broadcast`, `crash` | the servers in turn, a lost answer, the process dies |

The model assumes that the lock address is the right one: at the time of the refund
the code takes it from the server (`resolveLockAddress`) or from the snapshot.

### 2.8 DepositWatch (`deposit-watcher.ts`, `quorum-provider.ts`)

A payment is an output to the deposit address, absent, in the pool, mined, or spent
before the watch began. The servers of the provider are asked at once (`listUnspent`)
and come back one by one (`settle`), each at its own moment, with what it lists or with
an error; payments come, confirm and vanish in between (`dropped` remembers those that
vanished). A server that works lists outputs that are there, a wrong one any
(`Forged` included). The merge (`pickQuorumUtxos`) waits for the last of them, as
`Promise.allSettled` does: a server that hangs is a `settle` that never happens, and the
poll stays in "reading". The fallback, mempool.space, is honest but asked twice, with the
chain moving in between.

The fee and the funding transaction are left out: the value of the lock is the server's
`amountIn` (`drive.ts:241-243`), which nothing compares with the deposit or with the
amount asked for (`run.ts:163`), so that nothing can be promised of what remains as fee.

### 2.9 ApiClient (`api/index.ts`, `lib/retry.ts`, `lib/errors.ts`, `createSwapWithRetry`)

Two loops, one inside the other, each with its own idea of which errors are worth a
retry, over requests that may be served after they were given up. A challenge is a
number; `wire` holds the requests for a swap under way, `unsure` the challenges whose
answer did not tell whether there is a swap. The errors are classes that the two loops
tell apart. The server refuses a challenge it has seen (inferred from
`hasSingleUseToken`).

## 3. Runs

| Run | Bounds | What it shows |
|---|---|---|
| `drive` | 2 makers (symmetric), all 9 defects, 1 switch, 1 resume, limits 2 | types; recovery material before the lock, accepted terms, signature only against confirmed Monero, whatever the server changes between two awaits; linked keys and fitting recovery material as long as the maker stays; the refinement of SwapPromise |
| `drive_progress` | 1 maker, sound or with a bad Monero lock | if the calls under way come back: a cancel stops the loop, the deadline ends an unfunded wait, a wedged sidecar is given up on, a funded swap ends or reaches its sweep |
| `drive_stale_snapshot` (violation) | 2 makers, 1 switch | the snapshot of an earlier maker is kept for the lock of a later one |
| `flow` | with and without error answers, 2 flow objects | the lock moves once along the way back and no refund is reported that is not on the chain (RefundPromise), no end without a verdict, no verdict taken back, completed only of swept Monero if the server never answers with an error; if awaits come back, a cancel ends the flow and a refund that is asked for is carried to an end |
| `swap_flow` | 1 retry, 2 flow objects | a refused address stays refused; restricted mode shows nothing of the deposit; if awaits come back, ends are reported and a cancel ends the flow |
| `engine` | 4 host calls | what is shown comes from the flow a cancel reaches; a host that waits for its calls has one flow of a kind and none behind an idle screen |
| `monero_sweep` | 3 nodes, 2 calls of 3 attempts, 2 ring draws, 2 notifications | success is reported only of a spent output; nothing flawed is signed; if its requests come back, a call with its keys, or one aborted, ends |
| `xmr_lock` | any choice of 4 nodes, quorum 3, any of them wrong, 1 flaw, up to 2 confirmations of 2 | while the answers can be trusted, the key is released, and the swap is given up, only on what is true of the chain |
| `xmr_pool_lock` (violation) | any choice of 3 nodes, quorum 2 | honest nodes asked in turn: an answer without confirmations verifies an unconfirmed lock |
| `refund_path` | 120 terms at the edges of the bounds, of which those accepted; any lagging history | the key share leaves only after TxCancel, the refund is the one agreed on and within the policy, RefundPromise is kept, and it gets through if calls are repeated and served well |
| `deposit_watch` | 2 payments, 3 servers read one by one, quorum 2, any of them wrong, at most 1 output by the provider | what a quorum reports was there; if reads come back, what stays is found |
| `api_client` | 3 tries of the flow, 1 repetition of a bounded error, 3 attempts | no challenge is spent twice, no swap is left behind but by an answer that did not tell |

Why the bounds are enough. The gates of the drive loop compare the material of
the maker that was checked with that of the maker that is used, so two makers and
one switch show every mix-up; with a third, the same comparison fails or holds.
Limits of 2 distinguish the first, the repeated and the last attempt. A second
resume finds what the first one found, fresh locals and a store. In the flows two
objects give one that is replaced and one that replaces. Four host calls allow two
overlapping ones, a cancel or exit between them, and one more call afterwards; the
theorems of section 5 hold for any number. In the sweep three attempts give a first,
a middle and a last one, three nodes the same, and two attempts suffice for two
conflicting transactions on different nodes; the second call meets what the first
one, failed, crashed or successful without the server's knowledge, left on them.
Four nodes and a quorum of three give buckets of three and four, so medians of odd and
even numbers, fewer nodes than the quorum, and one liar on either side of the limit.
The amounts of `refund_path` are small because only sums and comparisons matter:
MCTerms has for each bound a value on it and one beyond it. Two payments show one too
many and one that moves while the other is read; three servers of which two are needed
show a liar outvoted, a liar that makes up a quorum, and two of them. Three tries and three attempts let a request be
overtaken by the next, of either loop.

CHECK_DEADLOCK is off where the loop or flow really comes to an end; `api_client`, whose
end is a step of its own, is checked for deadlock.

## 4. Liveness and its hypotheses

The code bounds few of its awaits. `ApiClient.request` hands `withRetry` no signal
(`api/index.ts:304-312`), and network errors, timeouts and 5xx are repeated without
limit (`lib/retry.ts:87-89`), so while the server is down a call to it does not return,
whatever the caller's signal or deadline. Requests to monerod (`rpc.ts`) outside the
quorum, to the Bitcoin servers (`quorum-provider.ts:36` waits for all of them) and to
mempool.space have no timer of their own. So no specification assumes that an outside
call ends. The only fairness in a specification is `FairSpec` of AtomicDrive: weak
fairness of the stretches in which the loop waits for its own code or a timer
(`Unawaited`), since a JavaScript function that has been answered is resumed.

Every other liveness property is an implication, and names what it needs:

| Property | Hypotheses | What they say |
|---|---|---|
| `AbortStops` | `CallsReturn`, `SweepHeedsAbort` | each call under way ends, well or not, and so does a sweep whose signal is aborted (`CallEnds` of MoneroSweep, under its own hypothesis) |
| `DeadlineEndsWait` | `CallsReturn` | as above |
| `WedgeGivesUp` | `CallsReturn`, `SidecarReached` | and not every refusal of `/presigs` is lost |
| `FundedSwapResolves` | `CallsReturn`, `ChainIsWatched` | and the server sees the lock, and blocks keep coming until the cancel timelock runs out; it ends where the sweep begins, which need not end |
| `CancelEnds` of both flows | `AwaitsReturn` | the await the cancel finds comes back |
| `RefundConcludes` | `AwaitsReturn`, `RefundIsServed` | and the provider shows the spent lock one day, the server's params can be signed with; for a server that shows the swap |
| `EndReported` | `AwaitsReturn`, `PollsAnswered` | and not every poll fails |
| `CallEnds` | `CallsReturn` of MoneroSweep | requests to the server and to monerod come back; for a call that has its keys or is aborted, since the server need never have the keys |
| `RefundGetsThrough` | `Served` | a call's awaits come back, the host asks again and again, and is served well again and again; nothing makes the maker publish TxCancel or a block confirm it |
| `DepositSeen` | `ReadsReturn`, `ServersCatchUp`, `FallbackAnswers` | every server's read comes back, a hung one's too; polls end in which the working servers list all there is; mempool.space answers now and then |

What they show is that the client adds no wait of its own: no loop goes round again,
no counter runs past its limit and no branch forgets the signal once calls return. What
they do not show, because the code does not do it, is that a cancel, a deadline or a
refund gets through while the server is down.

MiradexEngine, XmrLock and ApiClient have safety properties only.

## 5. Proofs

TLAPS proves these for all values of the constants the modules' assumptions admit.

- **AtomicDriveProofs**. None of the gates is inductive: what the loop knows is spread
  over its control point, its view of the server and flags of earlier iterations.
  `IInv` says what each is worth: `ViewInv` (what was checked of the view, by control
  point), `MirrorInv` (an encsig shown by the server may stand for one checked here),
  `LockInv` (at most one lock, made of what was checked, after a snapshot),
  `ReleaseInv` (a verified Monero lock stays good, and the signature belongs to the
  lock on the chain). From it: `TypeCorrect`, `Recoverable`, `TermsBeforeLock`,
  `KeyAgainstMonero`, and step by step `Refinement` (the loop implements SwapPromise).
  `LinkedBeforeLock` and `SnapshotOfFirstMaker` hold as long as the maker has not
  changed (`SwitchesGrow`: a change is never forgotten); after a change the violation
  run shows that the snapshot no longer fits.
- **AtomicFlowProofs**. `IInv` ties phases reported to what the chains hold and to the
  control points that remain: `RefundsAreTrue`, `EndsAreTold`, `VerdictsStand`,
  `NoPhantomSweep` (no sweep after a completion was reported), and
  `CompletionsAreTrue` of a server that never answers with an error (else it fails, see
  below). `Refinement`: a step that moves the lock is one of five (`LockMovesOnce`), so
  the flow with its server implements RefundPromise.
- **SwapFlowProofs**. `RestrictedInv` and `Refused` say that a flow without proof, or one
  whose address was refused, is already past every step that puts an address into its
  context. `RestrictedIsBlind` follows at once; `RefusalIsFinal` is proved per flow
  object (the number of objects never falls).
- **MiradexEngineProofs**. Generations are installed in order (`TypeOK`, `Installed`);
  `Sequential` says what waiting for each call buys. From these `CancelReaches`,
  `ReplacedFlowsAreSilent` (any host) and `OneAtATime`, `IdleIsQuiet` (a host that waits).
- **MoneroSweepProofs**. A report is true because a node that holds a spend keeps it
  (`SpentStays`) and because at `notify` one does: `Reported`. That nothing flawed is
  signed needs the share's check to be remembered through all attempts (`Sound`) and
  the three later checks to cover each other (`ChecksSuffice`: the commitment goes
  unchecked only for a ring that `verifySweepTx` refuses). From these `ReportsAreTrue`
  and `SignaturesAreSound`.

- **QuorumReadsProofs**: the reads, and both modules that rest on them. *The quorum.*
  With fewer liars than the quorum what is agreed on was said by an honest server
  (`AgreedIsHonest`); a quorum of more than half of the servers agrees on one value at
  most (`AgreedIsOne`). The median is a predicate: `MedianIsDefined` proves that exactly
  one number of the bucket satisfies it, and `MedianIsMiddle` that this is
  `sorted[k div 2]` of every sorting, which is what the code takes.
  *The Monero lock.* The invariant says that every answer of an honest node is true of the
  chain or without confirmations, and stays so when the chain grows, and that no round is
  open after a final verdict. `FetchedTrue`: with honest nodes alone the median is one of
  theirs, or undefined and then 0; with fewer than half a quorum wrong or in the pool one
  of the others reported the median or more (`MedianBacked`, `HonestOne`), so it is a
  number and at most the true one; an answer that is believed alone is honest and has its
  confirmations by the hypothesis. From it `VerdictsAreTrue`, whose hypothesis (`Trusted`)
  excludes just the case that `xmr_pool_lock` refutes, and wrong nodes in number.
  *The deposit.* `Faithful`: what a working server is on record with was there when it was
  read, and what has gone since is in `dropped`; so it is an invariant although the
  servers are read at different moments. An entry of the merge is on the list of one of
  them (`MergedIsHonest`), which gives `DepositsAreBacked` for any payments, servers and
  forgeries. No bound on nodes, quorum, heights or calls is assumed.
- **RefundPathProofs**. `Found`: what a call took from the history with a height is
  confirmed (`ConfirmedIsMined`), and is TxCancel once the encsig was verified on a
  spend of it (`SignedIsAgreed`). `Sound`: what was signed is the refund of the
  accepted terms. From these `KeyShareWaits`, `OneRefund` (all signatures, over
  all calls and all params handed out, are on one transaction) and, with the arithmetic
  of `FeesBounded`, `TermsAreHonoured`. `Settled` adds what nodes exclude: no two
  spends of the lock nor of TxCancel (`Clean`), no spend of a TxCancel that is not
  confirmed (`Lineage`), and a refund that was reported is in the pool or the chain
  (`Reported`). From it `KeyShareBarsRedeem` (once s_b may have left, the maker can no
  longer redeem) and `Refinement` (RefundPromise). The assumption on the terms is what the wire
  schema guarantees; that a transaction with two outputs is no smaller than one with a
  single output is used for the fee of a full refund.
- **ApiClientProofs**. `Fresh`: a challenge on the wire is unknown to the server and on
  no other request, which is why no copy is refused; `Told` and `Covered`: a swap
  exists, or may yet come to be, only for the challenge in hand or one counted as
  unsure. From these `SwapsAreAccounted`.

Only model-checked: every liveness property (the prover does not reason about
fairness and ENABLED): `AbortStops`, `DeadlineEndsWait`, `WedgeGivesUp`,
`FundedSwapResolves`, `CancelEnds`, `RefundConcludes`, `EndReported`, `CallEnds`,
`RefundGetsThrough`, `DepositSeen`. Every invariant and every action property that a
passing run checks is a theorem. Also out of the prover's reach: what recursive
definitions compute for every input (induction over data).

## 6. Where code and text disagree

1. `drive_stale_snapshot`: `maybeWriteSnapshot` keeps any snapshot it finds under
   the swap's id, so that after a change of maker the stored refund encsigs belong
   to another lock. The DLEQ flag of the loop outlives the maker for the same reason:
   neither is tied to the maker it was made for.
2. `xmr_pool_lock`: monerod omits the confirmations of a transaction in its pool;
   `rpc.ts:124` passes on what is not there, `verify-lock.ts:102` finds undefined not
   below the minimum, and `inPool` is only logged (`:92`). With a single answer (one node,
   fewer nodes than the quorum, or the default list) a lock without a confirmation is
   verified, where `ATOMIC-SWAP-PAPER.md:245` has a retryable failure.

Seen while modelling, without a run of their own (paths under `src/`):

- Drive loop: the deadline looks only at the status the server reports, so that "timed
  out before funding" can be thrown for a swap this loop has just funded
  (`atomic-swap/drive.ts:111`). The abort is looked at only at the top and in the
  sleeps (`drive.ts:89`). The server writes the new maker's address before its params,
  and the loop takes the mismatch for a fatal one (`drive.ts:217`).
- AtomicFlow: `lastSeen` of a funded swap may miss the funding, so that an error is
  routed to failed and not to stalled (`atomic-flow.ts:685`); the status after the loop
  starts as 'completed', and an error answer to the look after the loop (a 4xx that is kept
  up, another shape; an outage gives none) leaves it so (`:643`); a failed context check
  reports failed while the loop runs on (`:720`); `userRetrySweep` looks at no phase
  (`:901`); the refund asks the server first: while it is down the request is repeated
  without end and the cache not reached, though `ATOMIC-SWAP-PAPER.md:305` says "SERVER
  outages cannot block it", and on an error answer it gives up before it looks at its
  cache (`:994`).
- SwapFlow: a status without a case lands on awaiting-deposit (`swap-flow.ts:771`); after
  its hour of polling it stops without a word (`:783`).
- Engine: a resume that outlives exitToIdle; late words of a cancelled flow.
- Sweep: `rpc.ts:265` takes a double spend for the same transaction, though every attempt
  signs another one; `monero-sweep/errors.ts:5` calls verification errors
  non-retryable, though their texts match the pattern 'failed' (`:25`).
- Monero lock: the median of an even bucket is its upper one, and the drift of two that
  the comment at `lib/monero/rpc.ts:139` speaks of is not enforced, so with three nodes
  and a quorum of two a single wrong node decides the confirmations. Fewer nodes than
  the quorum fall back to the first answer; without nodes of the host the stagenet list
  is used on any network (`verify-lock.ts:74`).
- Refund: a null partial encsig counts as present (`atomic-flow.ts:1079`, against `:71`).
  The fee of the partial refund is examined only when the fees of all its children are
  there (`presign.ts:348`), though `ATOMIC-SWAP-PAPER.md:145` has the fee bounds run
  before signing: this is why `RefundHonoursTerms` bounds it under `FeeExamined`. An
  output that equals the dust limit is accepted at signing and refused at the refund.
  `tx-verify.ts:131` counts on exactly two transactions at the lock address, where anyone
  can make a third.
- Deposit: mempool.space counts a payment twice that confirms between its two requests
  or is unconfirmed (`deposit-watcher.ts:151`); the quorum provider's list never throws,
  so an outage looks like an empty address and does not lead to the fallback, and it waits
  for every server without a timer, so one that hangs blocks the watch
  (`quorum-provider.ts:36`). The fee is that of one input: 1.2 to 2.05 sat/vbyte for 2 to 4
  inputs at the lowest rate, where `default-config.ts:164` says that less than 3 is
  rejected now and then. The lock's value is the server's `amountIn`, unchecked
  (`drive.ts:241`).
- Helpers outside the flows: `submitEncsigWhenReady` releases the encrypted signature when
  the server asks for it, without the checks of the Monero lock that the drive loop,
  which it says it repeats, makes first (`submit-encsig.ts:1`). The pipeline shows a
  cancelled atomic swap as refunded, since "refund/cancel both return BTC"
  (`engine/pipeline.ts`); a cancel after the lock is shown as cancelled too.
- Creation of a swap: an answer of another shape is SCHEMA_MISMATCH, which
  `lib/errors.ts:110` calls never worth a retry, and the flow's own test repeats it, up to
  six swaps. The client gives its inner loop no signal, and reads a body without a
  timer (`api/index.ts:305`).

## 7. Plan

What is open, in the order of what it protects:

1. Relations between the modules as refinements: AtomicFlow's loop actions as what
   AtomicDrive shows its caller, XmrLock as the abstraction that AtomicDrive assumes.
2. *Monero sweep*: two calls at a time (`userRetrySweep` looks at no phase), mining and
   the amount reported.

Not modelled:

- *Pipeline stages* (`pipeline.ts`): a table from phases and statuses to texts, without
  state. *Addresses*, *wire schemas*, *package surface*: pure parsing and exports.
- *Keystore* (`keystore.ts`): one synchronous parse with a version switch; its promise is
  about the shape of data that no other module reads.
- *Encsig submission helper* (`submit-encsig.ts`): the poll of the drive loop with one of
  its actions, called by nothing in the package. It keeps no state between polls.
- *Swap executor*: the creation of a swap without the flow's retries, and a poll until a
  target status; for hosts without the engine, and stateless as well. *Cooperative
  redeem*: one comparison of scalars.
- *Bitcoin sweep* (`lib/bitcoin/sweep.ts`): builds one transaction from a list of outputs.
- *Provider verification*: comparisons of fields of an answer with the request; the
  verdict is an input of SwapFlow.
- *Heights and fee estimates by quorum* (`quorum-provider.ts`): no flow reads a height,
  and the fee is not modelled.
- *Fee and funding transaction* (`estimateLockTxFee`, `applyFeePolicy`, `wallet.ts`):
  arithmetic without state on an amount the server names; see 2.8.
- *Cryptography* (curves, adaptor signatures, ring signatures, proofs of work): out of
  the reach of TLC; its verdicts are inputs of the models.
