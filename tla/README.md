# Verification of tactiq-attest

TLA+ models of tactiq-attest, their TLC runs and TLAPS proofs. The repository is
the device side of TactiQ attestation: an agent that signs its boot state
(`tactiq-agent`), a service that decides whether an agent may call tools
(`tactiq-stop`), and the tools that check what they produce. Line numbers below
are those of the repository at the modelled commit.

## The system

| Part | State it keeps | Operations | Talks to |
|---|---|---|---|
| Stop gate (`crates/stop/src/core.rs`, `release.rs`) | none | `state_of`, `gate`, `release::check` | reads the release files |
| Stop service (`crates/stop/src/main.rs` `serve`, `handle`; `core.rs` `admit`, `sign`) | one connection | answer a question: 200, 403 with a receipt, 400, 503 | TPM, release files, gateway |
| Operator commands (`trip`, `recover`, `status`, `define`) | admin lock held while they run | move the counter, sign a status, create the index, probe the service | TPM, release files, the service |
| Stop counter (TPM NV index, `attest-tpm`) | defined?, written?, value | define, increment, read, certify | anyone with TPM access, the owner |
| Epoch counter (`prover/src/main.rs` `CounterAlloc`; `attest-tpm` `nv_increment_and_read`) | NV value; epoch and seq in memory; `counter.bin` | next counter | TPM, other processes of the agent |
| Audit directory (`prover/src/main.rs`) | four files per envelope, `.part` files, boot logs | publish, remove partials, prune, save the boot log | file system |
| Provisioning and identity (`prover/src/main.rs` `cmd_provision`, `state.rs`) | AK handle, `ak.pub`, `device_id` | provision, inspect, verify the AK | TPM, file system |
| Receipt and interval verification (`attest-appraise/src/stop.rs`, `tools/stop-verify`) | none | `verify_stop_receipt`, `verify_stop_interval` | receipts, trust |
| Gate 1 and appraisal (`attest-appraise`) | none | `authenticate`, `authenticate_envelope`, `appraise`, `reference_from_rim` | envelopes, references |
| Envelope, bundle and stop formats (`attest-envelope`, `attest-stop`) | none | build, parse | everything |
| AK registrar (`tools/registrar`) | registry records, pending challenges | `begin`, `complete`, `verify` | operator, device |
| HTTP reader, gateway config check (`crates/stop/src/http.rs`, `config.rs`) | none | parse one request, check the config | gateway |

Interactions. The stop service and the operator commands share nothing but the
TPM's counter and two files: every answer is put together from values read at
different times. The operator commands exclude each other by a lock file; the
service takes no lock. The agent's processes (`run`, and `attest` by hand) share
the NV counter, the file it is read through and the audit directory, with no
lock at all. The verifier side sees only what the files and receipts carry.

What is hard: the order of reads against the counter's moves (a call being
decided while `trip` runs, `recover` checking one value and moving another);
tools that fail after taking effect; commands that hang or are killed with the
lock; other writers, because the counters are written with an empty auth;
power cuts between any two file operations; restarts between an increment and
the first use of its value.

What makes each part correct:

* gate and service: nothing passes without the operator's release for exactly
  the value the TPM held while the question was open; a stop that was reported
  is in force for every later question; a receipt states one value;
* commands: a trip never ends a stop, a recover only lands on a released
  epoch, a reported step is the command's own, every wait ends;
* epoch counter: counters handed out rise across restarts, NV is written once
  per epoch;
* audit directory: files under an envelope's name are whole, the newest
  envelope survives, the directory is bounded, whatever is cut where;
* provisioning: id and key live and die as a pair;
* verification: an accepted receipt or interval implies the statement its
  documentation makes about the device's history;
* registrar: a record is written only for the device that answered the
  challenge, once.

## Modules

| Module | Models | Notes |
|---|---|---|
| `StopGate` | parity and release check | data of a release: device and epoch; a signature file stands for the record it signs |
| `StopService` (EXTENDS `StopGate`) | service, commands, lock, TPM counter, release files | one TPM tool run, file read, lock attempt or answer per action |
| `StopPromise` | abstract specification of the service | epoch, reported stop, stage of the open question, sampled value, answer |
| `MCStopService` | instances for TLC | |
| `StopServiceProofs` | types, `RunsOnlyReleased`, `ToldStopHolds`; `StopService` implements `StopPromise` | TLAPS |
| `StopLockProofs` | `ChangedIsOwnStep`; with no other writer `CommandsMoveAsAsked`, `ProbeConfirmsTrip`, `RecoverSucceedsReleased`, `EndsAsReported` | TLAPS |
| `EpochCounter`, `MCEpochCounter` | `CounterAlloc` and `nv_increment_and_read` | several processes |
| `EpochCounterProofs` | types, `CountersRise` for one agent, `WearBounded` | TLAPS |
| `EnvelopeCheck` | gate 1, `appraise`, gate 3, `check` | pure operators, shared with the verifier's view |
| `AgentCycle` (EXTENDS `EpochCounter`, `EnvelopeCheck`), `MCAgentCycle` | counter, measurement, message, quote; the verifier over every combination of what was produced | composes three components |
| `AgentCycleProofs` | types, the cycle implements `EpochCounter`, `AcceptedWasSo`, `OneStatePerCounter`, `CounterOrderIsStateOrder`, `SteadyIsAppraised` | TLAPS |
| `AuditDir`, `MCAuditDir` | `publish_envelope`, `remove_partials`, `prune_audit`, `save_boot_log` | `run` and an `attest` beside it, with power cuts |
| `AuditDirProofs` | types, `FilesComplete`, `TagMeansWhole`, `NewestSurvives`, `DirectoryBounded` | TLAPS |
| `ReceiptCheck` | `verify_stop_receipt`, `basis`, `verify_stop_interval`, exit status of `stop-verify` | pure operators |
| `StopReceipts` (EXTENDS `ReceiptCheck`), `MCStopReceipts` | the history of a device and the receipts signed on it | |
| `StopReceiptsProofs` | types, `FreshReceiptIsTrue`, `StopHeldBetween`, `SignedIsAccepted` | TLAPS |
| `Provision`, `MCProvision` | `cmd_provision`, the identity checks of `cmd_attest` | with power cuts and the operator's own acts |
| `ProvisionProofs` | types, `OwnKeysOnly`, `KeyUnderOneId`, `ReportedPairStands`, `SignsAsReported` | TLAPS |
| `RegistrationCheck` | `chain.rs`, `crl.rs`, the record checks of `cmd_verify`, `signature.rs` | pure operators |
| `Registrar` (EXTENDS `RegistrationCheck`), `MCRegistrar` | `begin`, `complete` and `verify` over state directories, devices that answer, CAs that revoke | |
| `RegistrarProofs` | types, `RecordMeansResident`, `SignedMeansRegistered`, `VerifyAgrees`, `RevocationBounded`, `ChallengeAnswerable`, `RecordStands` | TLAPS |

No module declares a RECURSIVE operator: each component's invariants are both
model-checked and proved.

### StopService

`index` and `counter` are the NV index; `recordFile` and `sigFile` the two
release files; `lock` the admin lock; `pc`, `seen`, `got`, `out` are a process's
place in the code, the counter value it works from, the release record it has
read and the answer it has reached. `moved`, `told` and `floor` are history: a
command's own increment, the highest odd epoch ever reported to an operator,
and its value when the open question arrived.

The gate is one set of actions (`ReadCounter`, `ReadRecord`, `ReadSigAndCheck`,
`Certify`) walked by the service (`admit`), by `status` and by `recover`, which
asks for the epoch it would move to (`Target`). A command then goes through
`move_to` (`ReadFrom`, `Increment`, `ReadBack`, `ReadNow`), prints its outcome
(`Report`) and, for `trip` and `recover`, probes the service with the lock still
held (`Connect`, `ProbeEnds`, `Reply`). `define` is `QueryIndex`, `CreateIndex`,
`FirstWrite`, then the same path.

Around them: `TpmMayFail` and `NvIncrementMayFail` let any tool run fail, an
increment may be reported as failed after taking effect, `Kill` ends a command
anywhere, `ServiceStop` the service; `OutsideIncrement` and `OwnerDelete` are
what the header of `stop/src/main.rs` says others can do; `WriteRecord` and
`WriteSig` replace the release files one at a time, the record with anything,
the signature only with one over a record the operator signed. `stray` is the
`tpm2_nvincrement` a killed command leaves running (`Kill`, `StrayIncrement`): it
takes effect, or not, at any later time. One that lands while another command
has the lock marks that command's run ("landed"), until the lock is released:
the invariants of `stop_lock` speak of every other command (`EndsAsReported`
only where it speaks of the counter: an index that was written stays so). With
`Outside` a stray is one more outside writer and needs no variable.

A question is first read (`pc` "request"): `RequestComplete`, or `RequestEnds`
for a malformed request, a client that goes away, and the deadline.

Abstractions. The first value of a fresh counter is any value from the highest
one held upward: `attest-tpm/src/lib.rs:430` says "the highest value",
`attest-appraise/src/stop.rs:261` "above every value", and the model allows
both. An index redefined with other attributes is left out
(`check_stop_attributes` refuses it). There is one stray increment at a time. The
PCR quote of a receipt reads no state modelled here. What a request says is
either a question or not.

### StopPromise

What a caller may rely on, without commands, files or locks: the epoch only
advances; a stop is told only at an epoch that is odd and not in the future; a
question opens with the stop told so far; its answer comes from one look at the
epoch while the question was open; it is "allow" only if that value is running,
released and above every stop told before the question. `StopService!Promise`
maps `stage` from where the service stands and the rest one to one.

### EpochCounter

`nv` is the TPM's counter, `file` is `counter.bin`, `tool` what a process's
`tpm2_nvread` has read and not yet written there; `epoch` and `seq` are
`CounterAlloc`. `Stop` is any death of a process, with its memory. `compose_counter`
is `epoch * SeqLimit + seq` with its two range errors.

### AuditDir

Each file is in one of five states: absent, `.part` without or with its data
synced, under its own name likewise. `dir` is what processes see, `durable` what
the last directory sync made safe. `publish_envelope` and `save_boot_log` are
sequences of system calls (`Plan`, `LogPlan`), the pruning too (`Removals`: the
`i`-th call removes one file of the envelope that has `(i - 1) \div 4` below it,
its tag last); `MakeCall` makes the next one, and `After` says what it leaves in
the directory. `ListPartials` reads the directory, then
`RemovePartial` removes what was listed, one file at a time, and fails on one
that is gone. `PowerCut` keeps any subset of the names changed since the sync, in
no order: exactly what fsync leaves open. A `.part` name surviving the rename of
its file is the same as the rename being lost. `Stop` is the death of a process
or a call that ends it, `StagingFails` the clean-up path, `RenameFails` what
happens after the other agent has taken a `.part` file.

Two processes work in the directory, `run` and an `attest` called by hand.
`taken`, `done`, `doomed` and `late` are history. That their counters differ is
assumed: `OneAgentRises` proves it of one process and `epoch_race` shows two
that share one. A process counts within its own epoch, so a counter of `run` may
be below one `attest` took before it.

Abstractions: one boot log, since a log of another content has another name
and nothing else here touches it; reading the source of the log is a choice
between publishing and not.

### EnvelopeCheck and AgentCycle

`EnvelopeCheck` has the verifier's checks as operators in the order of the code:
`Gate1` returns the first reason that applies, `Appraise` looks at the bundle's
form, then the state, then the required evidence, `Check` is one after the
other for any bundle, more than the one-key v1 `check` asks of it. A digest stands for what it is taken over, a signature for its key and
object; the domain prefix of a stop receipt's qualifying data is a field.

`AgentCycle` puts a measurement behind each counter. `BeginCycle` is
`next_counter` returning; `PcrRead`, `PcrReadWrites` and `BuildMessage` are
`pcr_read` through `pcrs.bin` (`pcrfile`), which all processes of the working
directory share; `QuoteMessage` has the TPM read the PCRs a second time.
`StopCycle` ends a process anywhere. `PcrsChange` is any change of the device's
state, by a measurement or by a restart: nothing a process holds tells the two
apart, and a restart also kills the processes, which `StopCycle` does.
`SignReceipt` is a stop receipt made under the same key on the side. `msgs` and
`quotes` only grow; `since` is history: the states the device has been in since
a counter was first handed out. The verifier's view, `Assembled`, is every
message beside every quote, signature and bundle, since nothing keeps the four
files of an envelope together on their way.

Abstractions: the evidence bundle of an agent is empty (`prover/src/main.rs:368`);
the attribute check of an AK, reading reference values from a RIM and the byte
layouts are left out.

### ReceiptCheck and StopReceipts

`ReceiptCheck` is `verify_stop_receipt` as one conjunction (only that it accepts
matters to what it means, not which reason it gives), `StopFinding::basis` and
`verify_stop_interval`. `StopReceipts` is the device: `past` is the sequence of
its states (counter, whether the index can be read, what the PCRs hold, the
TPM's reset and restart counts and clock), `asked` where `past` stood when a
nonce was chosen. A signer goes through `Read`, `Certify`, `ReadPcrs`, `Quote`,
one TPM command each, with anything happening in between; a reboot (`Reset`)
kills it, a resume (`Restart`) does not. `Read` is told by its parameter whether
the gate found a release: `StopService` models how it does.

Abstractions: device id, PCR selection and key are constants, so the checks on
them always pass; the TPM signs only what it made. A cleared TPM (new keys) is
another device. `at` in a certify is history.

### Provision

`handle` is the object at the AK handle (nothing, a foreign one, or the n-th key
made), `context` the key in the shared work directory, `nv` the counter's index,
`disk` the two identity files as processes see them, `durable` what each of them
may be after a power cut. The sync of a file makes its content safe, the sync of
the directory its name; `read_ak_public` writes `ak.pub` without ever syncing
it. `reported` is the pairs a command told the operator, until the operator
undoes them; `attested` the pairs an envelope was signed under.

Abstractions: the two `exists` calls of `inspect` are one step; the operator's
deliberate acts (`ClearFile`, `Evict`) are done with the agent stopped; clearing
the TPM is not modelled; the counter's definition is three steps without its
attributes.

## Runs

| Run | Shows | Bounds |
|---|---|---|
| `stop_service` | `RunsOnlyReleased`, `ToldStopHolds`, `ChangedIsOwnStep`, and that the service keeps `StopPromise`, with everything that can go wrong switched on | one command at a time (each of the five), epochs 0..4, releases for epoch 2 of this device, epoch 4 of another, an unsigned record for epoch 4 |
| `stop_lock` | two commands exclude each other (`CommandsMoveAsAsked`, `ProbeConfirmsTrip`, `RecoverSucceedsReleased`), what one ends with is so and an index a killed `define` left unwritten is finished by the next (`EndsAsReported`), and every wait ends (`LockWaitEnds`, `ProbeReturns`, `QuestionAnswered`) | two commands out of trip, recover, define, which may hang, be killed and leave an increment behind; no other writer, no failing tools; epochs 0..3; 325,600 states |
| `stop_recover_race` | the documentation of `recover` does not hold beside another writer | one recover, epochs 0..4 |
| `attestation` | `CountersRise`, `WearBounded`, `CounterOrderIsStateOrder`, `SteadyIsAppraised` | one agent, others increment its NV counter; 2 counters an epoch, epochs up to `EpochLimit` = 4; 2 device states, 2 selections; 103,762 states |
| `attestation_race` | `AcceptedWasSo`, `OneStatePerCounter`, types | `run` and `attest` with different selections, stop receipts at epoch 1, which is also an envelope counter; 3 increments; 174,148 states |
| `epoch_race` | "Two cycles cannot share a counter value" does not hold | `run` and `attest`, 2 counters an epoch |
| `audit_dir` | `FilesComplete`, `TagMeansWhole`, `DirectoryBounded`, `NewestSurvives`, types | 1 envelope kept; the budgets of `MCBounds`; 2,587,607 states |
| `audit_publish_cut` | a cut among the renames leaves part of an envelope | as above |
| `stop_receipts` | `FreshReceiptIsTrue`, `StopHeldBetween`, `SignedIsAccepted`, types | one signer, 2 nonces, 2 receipts, a history of 4 device states from an odd counter, 2 builds; 4,478,836 states |
| `provision` | `OwnKeysOnly`, `KeyUnderOneId`, `ReportedPairStands`, `SignsAsReported`, types | two commands with any of two ids, one attesting agent, 3 keys made, 4 power cuts or operator's acts; 105,879 states up to symmetry |
| `registrar` | `RecordMeansResident`, `SignedMeansRegistered`, `VerifyAgrees`, `RevocationBounded`, `ChallengeAnswerable`, `RecordStands`, types | 2 registrar processes, 2 directories, 2 challenges, 3 AKs, a vendor's chain and a home-made one, 1 revocation, 4 half seconds; 1,345,438 states up to symmetry |
| `provision_cut` | `ak.pub` need not survive a power cut after success was reported | as above with 2 keys, 3 acts |

Why the bounds are enough. Epochs 0..4 hold two stops and two runs on either
side of a lift, one of them released, one released only for another device, so a
stale release, a skipped value and a repeated parity all occur; more epochs
repeat them, and the theorems cover every value. One command suffices where
`Outside` is TRUE because an outside writer is at least as free as a second
command; two commands are the run about the lock. Its epochs 0..3 hold a trip, a
lift and a second trip, with the stray increment of either. With one
envelope kept the second prunes the first, and a third shows what an earlier
pruning left; two power cuts give a pruning that is cut, and cut again after it
was resumed. Every hazard of two agents shows with two counters, one each, or
with two of `run` around one of `attest`; the seven budgets of `MCBounds` spend
cuts, deaths and calls of `attest` in these combinations, since one of each
on everything would be past TLC's five minutes. `NewestSurvives` is about the
`Keep` highest counters, not the latest: an `attest` begun after `run` counts in
a later epoch, so what `run` publishes next is the lowest in the directory and
with one kept is pruned at once. Four device
states hold a change and its undoing between two reads (build away and back, a
counter deleted and redefined, a reboot), which is what an interval must
exclude; a history starts when its first challenge is chosen, because nothing
earlier can enter a receipt for it. Two PCR selections of which one does not
tell the two states apart make a digest ambiguous without its selection. Epoch
1 of the stop counter is also a possible envelope counter, so a receipt and an
envelope can be mistaken for one another. Three keys and four acts let an
operator clear both files, evict the key and provision again, with one more act
for a power cut before, in between or after. The registrar's two challenges
under two operators and two directories are what it takes for a secret of one to
be offered to the other, or for two commands to meet in one directory. Its clock
runs in half seconds, the coarsest that tells the clock of `begin` from the whole
seconds it stores; four of them hold a certificate that expires before the one
that follows comes into force and a CRL (one second) that lapses.

Fairness (`FairSpec`, `stop_lock` only), one condition for each command and each
thing that has a deadline in the code. A command waiting for the lock gets it or
gives up (`LOCK_WAIT`, `main.rs:275`); its probe connects and its read times out
(`main.rs:399`); the service ends a request at its deadline (`REQUEST_DEADLINE`,
`http.rs`) and goes on with the question it took, its loop having no other
wait but the TPM tools and file reads, which are taken to return. Nothing is
assumed of a client, nor of a command's TPM tools, which have no deadline, so a
command may hang for ever with the lock. Without the assumption about the
service's own tools `QuestionAnswered` would not hold: `attest-tpm` `run` waits
for its child with no limit.

## Findings

* `stop_recover_race`: `recover` checks the release for the value it read and
  `move_to` reads again; an increment in between makes it report success at an
  epoch nobody released (`core.rs:208-212` against `:229`). Calls are still
  denied there.
* `epoch_race`: "Two cycles cannot share a counter value even if they race"
  (`attest-tpm/src/lib.rs:410`), but increment and read are two steps.
* `audit_publish_cut`: "a power cut leaves either the whole envelope or no file
  under the envelope's names" (`prover/src/main.rs:437`), but three files are
  renamed before the directory is synced. What does hold: a file under an
  envelope's name is complete, and an envelope with its tag is whole until it
  is pruned.
* `provision_cut`: "Key first, then id" (`prover/src/main.rs:307`), so that there
  is never an id without its key; but `ak.pub` is never synced, only its
  directory, so a power cut after the success report can leave the id with an
  empty `ak.pub`. `VerifyAk` then refuses the device (`ReportedPairStands` holds:
  what is there is that key or visibly no key).

The pruner removes an envelope's tag last, so a power cut among its removals can
leave a tag alone. The comment that "an envelope with its `.tag` has all four" is
about publishing, and `TagMeansWhole` states it so: whole until it is pruned.

## Theorems

All for every value of the constants, under the assumptions named beside them
(`ReleaseAssumption`, `ServiceAssumption`, `EpochAssumption`, `AuditAssumption`:
types, and that the process names differ; `ProvisionAssumption`: that, and that
an empty handle, a foreign object and a missing or torn file are no key and no
id; `LogAssumption`: the boot log's name is not an envelope's;
`VerifierAssumption`: a garbled or missing artifact is none that was made).

* `TypeCorrect`, `PassesOnlyReleased`, `StopHoldsOnceTold` (`StopServiceProofs`).
  Types are inductive. The other two are not: they need `SafeInv`, whose
  conjuncts are `ProcInv` and `ToldInv`. `ProcInv` says what a process's place
  implies about the value it holds: that it is not above the counter, and that
  an answer which lets something run was reached through `ReleaseValid`.
  `ToldInv` says that `told` and `floor` are not running epochs, `floor` is not
  above `told` nor `told` above the counter, and that what the service has read
  for its question is not below `floor`. An allow is at a running value not below
  `floor`, and `floor` is not running, so the value is above it.
* `ReportedStepsAreOwn`, `IncrementsLandAsAsked`, `TripIsConfirmed`,
  `RecoversOnlyReleased`, `CommandsEndAsReported` (`StopLockProofs`). `LockInv` says that whoever is past
  the wait has the lock, and that a command's own increment is above the value it
  read before; a read-back of exactly the next value is then its own, whatever
  else moves the counter. The other four hold when `Outside` is FALSE. `QuietInv`
  says what a command read still holds at the release check, at the increment,
  after it and until the service has answered: nobody else has the lock. Its one
  exception is the increment of a killed command: `QuietInv` is suspended from
  the moment it lands under somebody's lock until the next command takes it, and
  the step that resumes it finds no command with anything read. For
  `CommandsEndAsReported`, `QuietInv` also says that an epoch reported as already
  reached is the counter's, and `FinishInv` that a `define` past its first
  increment has a written index before it, which nobody then takes away.
* `ServiceKeepsPromise` (`StopServiceProofs`). Initial states map to initial
  states; each step of `StopService` either leaves the promise's variables
  alone or is one of its actions. `QuestionInv` adds what the mapping needs: a
  service without a question has no value and no answer.
* `CounterTypes`, `OneAgentRises`, `WearIsBounded` (`EpochCounterProofs`). `RiseInv` follows the
  value from the TPM through the tool and the file into the allocator: at each
  place, every counter handed out so far is below the first counter of the value
  that is there. It needs one agent: with two, the file may hold an older value.
  The arithmetic is `EpochsApart`: an epoch's counters end before the next
  one's begin. `WearIsBounded` is for any number of agents: by `WearInv` a process
  has handed out all the counters of each epoch before its present one, so its
  increments are the counters it gave, divided by an epoch's size and rounded up.
* `TypeCorrect`, `FreshMeansSince`, `IntervalMeansHeld`, `SignedReceiptsPass`
  (`StopReceiptsProofs`).
  `Later` compares two states of the device: the counter never decreases, boots
  (reboots, then resumes) only go up, and within one boot the clock does not go
  back and a build measured away from the reference does not come back to it;
  `PastInv` says it of every two states of `past`. `SignedInv` ties a receipt to `past`: its certify
  to the state at `at`, its nonce to a moment before it, its quote to a later
  state. A fresh receipt then has one boot and the accepted build at its quote,
  hence at its certify, where the counter had the value it states. An interval
  has two such moments in one boot; the clock orders them, the counter and the
  build are squeezed between equal ends. `SignedReceiptsPass` is the other
  direction, that the verifier does not refuse what the service signs. It needs
  `MadeInv`, which follows a signer's work through its TPM commands: after the
  read the record does not call an odd epoch running and only a status carries a
  nonce (`Told`); after the certify, that is of the value the record states,
  and bound to record and nonce (`Bound`).
* `TypeCorrect`, `FilesAreComplete`, `TagNeverAlone`, `NewestStay`,
  `CyclesStayBounded` (`AuditDirProofs`). None is inductive as it stands:
  each depends on the calls still to be made. The invariant is a tower, each
  layer proved from those below it. `Base`: the types, what each agent has still
  to do (`Stages`: a publishing agent's calls are a suffix of `Plan`, so their
  number says where it is), and that nothing stands under the name of a counter
  nobody took (`Fresh`). `Complete`: a file whose sync is behind has its data
  (`Synced`), hence no rename makes an incomplete file. `Whole`: what a
  publishing agent's renames and syncs have brought about (`Progress`); a tag,
  in the directory or in what was synced of it, only over the other three in
  both (`TagOnTop`: it must speak of both, since a power cut mixes the two name
  by name); a published envelope whole in both (`DoneStays`). `DoomedOld`: what
  the pruner is after has `Keep` counters above it. `Bounded`: in a cycle of `run`
  every `.part` file is of the envelope in hand, late, or about to be removed
  (`PartsGo`, `LateInHand`), and after the scan all but `Keep` envelopes are
  being removed (`FewStay`). `stems_to_prune` needs facts of its own:
  `Ascending` lists a set in order because every rank below its size is taken
  by exactly one element (`RankIsTaken`, shown of a least rank that is not), so
  what is left after dropping all but `Keep` is the `Keep` highest.
* `TypeCorrect`, `SignsWithOwnKeys`, `OneIdPerKey`, `ReportedStands`,
  `EnvelopesAsReported` (`ProvisionProofs`). No lock keeps two `provision` commands
  apart; the AK handle does, since the TPM lets one key in. `ProvisionInv` states it:
  a command about to place its key has found no files and has a key that never
  signed, as long as the handle is free (`KeyIsNew`); past that there is one such
  command, its key is in the handle (`OneWriter`), and what it has written is
  known file by file, in the directory and in what a power cut may leave
  (`PublicWritten`, `IdWritten`). So a cut brings back one id at most
  (`OneIdRecorded`), the key in the handle has signed under no other
  (`SignedUnder`), and what an agent checked stays until it signs
  (`CheckedStays`); a reported pair is in the handle and in the files, `ak.pub`
  possibly torn (`ReportedHeld`).
* `CycleIsEpochs`, `CycleTypes`, `AcceptMeansHeld`, `CounterMeansState`,
  `CountersOrderStates`, `SteadyMeansState` (`AgentCycleProofs`). Every step of the cycle is a step of `EpochCounter` or
  leaves it alone, so `OneAgentRises` holds of the cycle too. `CycleInv` says
  that the messages and quotes are of the two shapes the device makes
  (`Shapes`), that a cycle under way works for a counter handed out
  (`UnderWay`), and that each quote's digest is that of a state in `since` of
  its counter (`QuotesHeld`); what passes gate 1 is such a quote over its
  message. `CounterMeansState` adds `HandedInv`: a counter handed out once
  belongs to one cycle, which quotes once. With one agent, `RiseInv` makes
  the counter of the cycle under way the newest (`MineIsNewest`), so a quote's
  state is later than every quoted one; and `SteadyInv` follows the measurement
  through its file into the message: message and quote are of states held since
  the counter, hence of the same one when there was only one, and `Check` of the
  pair comes down to the reference values (`OwnPasses`, `BareVerdict`).
* `RegistrationMeansResidency`, `SignedRecordsAreRegistered`,
  `WrittenRecordsVerify`, `RevocationIsBounded`, `ChallengesStayAnswerable`,
  `RecordsStand`, `TypeCorrect` (`RegistrarProofs`). `DataInv` says what each thing held or
  written was checked for when it was made: a session's chain at its second
  (`SessionDrawn`; `CutChain` and `CutCrl` are why checking at the finer clock
  implies the same at the whole second), an answered secret of a
  vendor's key an AK that was in the TPM then or later, a record its session.
  The first four follow from it, the second with the signature rule and
  `PkiAssumption`. `StageInv` adds who is where: a record being
  filled is torn and has one process on it, and whoever removes the pending
  file has the record whole beside it. `BeginAlone` says that a `begin` that
  writes its pending file is alone in its directory, which has no record yet;
  it needs `ShapeInv`. `ShapeInv` is for the types: files are only in
  directories that were made, and so is whoever works on one; a whole record was
  written out. The assumptions are about the world:
  `PinnedAssumption` (the vendor certifies only keys inside TPMs),
  `PkiAssumption` (registration keys sign records only), `DatesAssumption`
  (certificates name whole seconds), `NoneAssumption`, `BoundsAssumption`.

What a record proves. `RecordMeansResident` lies between the chain check and the
record: that the AK was in the TPM at some moment since `checked`, not that it
still is, and `RevocationBounded` misses a revocation for a CRL's life; one that
comes after the check is nobody's to see. All of it is for what `complete` wrote:
an unsigned record proves nothing, as `cmd_verify` prints ("unsigned: internal
only, not L3") though it hands out the AK, which is why `SignedMeansRegistered` is a property of its
own.

What a death in `complete` leaves. `write_new` creates record.json and then
writes it (`registrar/src/main.rs:217-224`, called at `:353`). A `complete` that
dies between the two leaves the file torn, and every later `complete` on that
directory fails at `create_new`: the challenge can no longer be answered, though
pending.json and its secret are still there, until an operator deletes the torn
file. The model has this behaviour (`Kill` at "fill", `Create`), and
`ChallengeAnswerable` makes it the one exception (`CutShort`). It is not under
the findings because nothing in the repository says otherwise: "The pending state
is kept" (`main.rs:319`) is about a wrong answer, after which a right one is
still accepted. A temporary file renamed over the name would remove the case.

Only model-checked: liveness (`LockWaitEnds`, `ProbeReturns`, `QuestionAnswered`),
which is out of reach of the proof system together with ENABLED, and the four
runs that end in a violation, which show a behaviour. Every invariant and every
action property of a passing run is a theorem. Induction over data is out of
reach in general, because the library's induction theorems take an operator as
a parameter; no definition proved about here is recursive, `past` is related
by its indices, `Ascending` is defined by ranks, and the one induction,
`RankIsTaken`, is by a least counterexample.

## Not modelled, and the plan

Partly modelled, by choice:

* `http.rs` text parsing and the gateway configuration check of `config.rs`. A
  request is a question or not; what the parser accepts has no state behind
  it. (It refuses trailing bytes only when they arrive with the request; what
  arrives later is never read, and the connection is closed after one answer.)
* Gate 1: `reference_from_rim` and the section iterator of a bundle.
* The byte layouts of `attest-envelope` and `attest-stop`, X.509, CRL and CMS
  parsing and `utc`'s calendar in the registrar, the credential wrapping of
  `makecred.rs`: cryptography and formats, where a model would repeat the code.
* Power cuts in the registrar: `write_new` syncs files but never the
  directory, and no doc says what a cut may leave, so there is nothing to hold
  it to. Kills between any two calls are in.
* A TPM that is cleared, in `StopReceipts` and `Provision`: another device.

What is left, in order:

1. Theorems beside the violations, saying what does hold where a comment
   promises more: that envelopes of one epoch have different counters with any
   number of agents as long as increments and reads do not meet, and what part
   of an envelope a cut in `publish_envelope` can leave.
2. Lemmas about the pure checks for every input (`Gate1`, `Appraise`,
   `NotRevoked`): which reason comes first, what an acceptance implies.
3. An abstract store of whole envelopes that `AuditDir` implements.
